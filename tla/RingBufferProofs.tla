-------------------------- MODULE RingBufferProofs --------------------------
(***************************************************************************)
(* Theorems about the ring buffer of c_practice/p44: whatever the capacity *)
(* and the bytes, the two indices and the two-piece copies implement a     *)
(* bounded first-in first-out sequence.  RingTypeOK is inductive as it     *)
(* stands; the refinement compares, cell by cell, what the copies move     *)
(* with the sequence the indices denote.                                   *)
(***************************************************************************)
EXTENDS RingBuffer, SequenceTheorems, TLAPS

\* An index that went past the end of the array at most once.
LEMMA Wrapped ==
  ASSUME NEW n \in Nat, n < 2 * length
  PROVE  /\ n < length => n % length = n
         /\ n >= length => n % length = n - length
BY RingBufferAssumption, SMT DEF length

\* What the proofs need to know of the two indices and the two counts.
LEMMA Indices ==
  ASSUME RingTypeOK
  PROVE  /\ length \in Nat \ {0}
         /\ Capacity = length - 1
         /\ Cells = 0 .. length - 1
         /\ start \in 0 .. length - 1
         /\ end \in 0 .. length - 1
         /\ dataLength = IF end >= start THEN end - start ELSE length - (start - end)
         /\ dataLength \in 0 .. length - 1
BY RingBufferAssumption DEF RingTypeOK, Cells, length, dataLength

\* The two counts the calls are checked against.
LEMMA Counts ==
  ASSUME RingTypeOK
  PROVE  /\ dataLength \in 0 .. Capacity
         /\ freeSpace \in 0 .. Capacity
         /\ freeSpace + dataLength = Capacity
BY RingBufferAssumption DEF RingTypeOK, Cells, length, dataLength, freeSpace

\* The bytes held are a sequence, as long as the index arithmetic says.
HeldAsCells ==
  /\ Held \in Seq(Bytes)
  /\ Len(Held) = dataLength
  /\ \A i \in 1 .. dataLength : Held[i] = buffer[(start + i - 1) % length]

LEMMA HeldType == RingTypeOK => HeldAsCells
<1> SUFFICES ASSUME RingTypeOK PROVE HeldAsCells
  OBVIOUS
<1>1. \A i \in 1 .. dataLength : (start + i - 1) % length \in Cells
  <2> SUFFICES ASSUME NEW i \in 1 .. dataLength
               PROVE  (start + i - 1) % length \in Cells
    OBVIOUS
  <2>1. start + i - 1 \in Nat /\ start + i - 1 < 2 * length
    BY Indices
  <2>2. PICK n \in Nat : n = start + i - 1 /\ n < 2 * length
    BY <2>1
  <2>3. n % length \in 0 .. length - 1
    <3>0. length \in Nat \ {0}
      BY Indices
    <3>1. n < length => n % length = n
      BY <2>2, <3>0, Wrapped
    <3>2. n >= length => n % length = n - length
      BY <2>2, <3>0, Wrapped
    <3> QED
      BY <2>2, <3>0, <3>1, <3>2
  <2> QED
    BY <2>2, <2>3, Indices
<1>2. \A i \in 1 .. dataLength : buffer[(start + i - 1) % length] \in Bytes
  BY <1>1 DEF RingTypeOK
<1> QED
  BY <1>2, Counts DEF Held, HeldAsCells

\* A read copies out the first bytes held, in one piece or two.
LEMMA CopiedOutIsPrefix ==
  ASSUME RingTypeOK, NEW amount \in 0 .. dataLength
  PROVE  /\ CopiedOut(amount) \in Seq(Bytes)
         /\ Len(CopiedOut(amount)) = amount
         /\ CopiedOut(amount) = SubSeq(Held, 1, amount)
<1> DEFINE one == [i \in 1 .. amount |-> buffer[start + i - 1]]
           first_half == length - start
           front == [i \in 1 .. first_half |-> buffer[start + i - 1]]
           back == [i \in 1 .. amount - first_half |-> buffer[i - 1]]
<1>0. /\ amount \in Nat /\ length \in Nat \ {0} /\ start \in 0 .. length - 1
      /\ amount <= length - 1 /\ Cells = 0 .. length - 1
  BY Indices
<1>1. /\ CopiedOut(amount) \in Seq(Bytes)
      /\ Len(CopiedOut(amount)) = amount
      /\ \A i \in 1 .. amount : CopiedOut(amount)[i] = buffer[(start + i - 1) % length]
  <2>1. CASE amount + start <= length
    <3>1. \A i \in 1 .. amount :
             /\ start + i - 1 \in Cells
             /\ (start + i - 1) % length = start + i - 1
      <4> SUFFICES ASSUME NEW i \in 1 .. amount
                   PROVE  start + i - 1 \in Cells /\ (start + i - 1) % length = start + i - 1
        OBVIOUS
      <4>1. start + i - 1 \in 0 .. length - 1
        BY <1>0, <2>1
      <4>2. PICK n \in Nat : n = start + i - 1 /\ n < length
        BY <1>0, <4>1
      <4>3. n % length = n
        BY <4>2, <1>0, Wrapped
      <4> QED
        BY <1>0, <4>1, <4>2, <4>3
    <3>2. one \in [1 .. amount -> Bytes]
      BY <3>1 DEF RingTypeOK
    <3>3. CopiedOut(amount) = one
      BY <2>1 DEF CopiedOut
    <3> HIDE DEF one
    <3>4. one \in Seq(Bytes) /\ Len(one) = amount
      BY <1>0, <3>2
    <3> QED
      BY <3>1, <3>3, <3>4 DEF one
  <2>2. CASE ~ (amount + start <= length)
    <3>0. first_half \in 0 .. amount /\ amount - first_half \in Nat
      BY <1>0, <2>2
    <3>1. \A i \in 1 .. first_half :
             /\ start + i - 1 \in Cells
             /\ (start + i - 1) % length = start + i - 1
      <4> SUFFICES ASSUME NEW i \in 1 .. first_half
                   PROVE  start + i - 1 \in Cells /\ (start + i - 1) % length = start + i - 1
        OBVIOUS
      <4>1. start + i - 1 \in 0 .. length - 1
        BY <1>0
      <4> QED
        BY <1>0, <4>1, Wrapped
    <3>2. \A i \in 1 .. amount - first_half :
             /\ i - 1 \in Cells
             /\ (start + (first_half + i) - 1) % length = i - 1
      <4> SUFFICES ASSUME NEW i \in 1 .. amount - first_half
                   PROVE  /\ i - 1 \in Cells
                          /\ (start + (first_half + i) - 1) % length = i - 1
        OBVIOUS
      <4>1. start + (first_half + i) - 1 = length + (i - 1) /\ i - 1 \in 0 .. length - 1
        BY <1>0
      <4>2. PICK n \in Nat : n = start + (first_half + i) - 1 /\ length <= n /\ n < 2 * length
        BY <1>0, <4>1
      <4>3. n % length = n - length
        BY <4>2, Wrapped
      <4> QED
        BY <1>0, <4>1, <4>2, <4>3
    <3>3. front \in [1 .. first_half -> Bytes] /\ back \in [1 .. amount - first_half -> Bytes]
      BY <3>1, <3>2 DEF RingTypeOK
    <3>4. CopiedOut(amount) = front \o back
      BY <2>2 DEF CopiedOut
    <3>5. /\ front \in Seq(Bytes) /\ Len(front) = first_half
          /\ back \in Seq(Bytes) /\ Len(back) = amount - first_half
      <4> HIDE DEF front, back, first_half
      <4> QED BY <3>0, <3>3
    <3>6. /\ front \o back \in Seq(Bytes)
          /\ Len(front \o back) = amount
          /\ \A i \in 1 .. amount :
               (front \o back)[i] = IF i <= first_half THEN front[i] ELSE back[i - first_half]
      <4> HIDE DEF front, back, first_half
      <4> QED BY <1>0, <3>0, <3>5, ConcatProperties
    <3>7. ASSUME NEW i \in 1 .. amount
          PROVE  (front \o back)[i] = buffer[(start + i - 1) % length]
      <4>1. CASE i <= first_half
        BY <4>1, <3>6, <3>1, <1>0
      <4>2. CASE ~ (i <= first_half)
        <5>1. i - first_half \in 1 .. amount - first_half
          BY <4>2, <1>0
        <5>2. (start + i - 1) % length = (i - first_half) - 1
          BY <5>1, <3>2, <1>0
        <5> QED BY <5>1, <5>2, <4>2, <3>6, <1>0
      <4> QED BY <4>1, <4>2
    <3> QED BY <3>4, <3>6, <3>7
  <2> QED BY <2>1, <2>2
<1>2. /\ SubSeq(Held, 1, amount) \in Seq(Bytes)
      /\ Len(SubSeq(Held, 1, amount)) = amount
      /\ \A i \in 1 .. amount : SubSeq(Held, 1, amount)[i] = Held[i]
  <2>1. \A i \in 1 .. amount : Held[i] \in Bytes
    BY HeldType, Counts DEF HeldAsCells
  <2> HIDE DEF Held
  <2> QED BY <2>1, <1>0, SubSeqProperties
<1>3. \A i \in 1 .. amount : CopiedOut(amount)[i] = SubSeq(Held, 1, amount)[i]
  BY <1>1, <1>2, HeldType, Counts DEF HeldAsCells
<1> QED
  BY <1>1, <1>2, <1>3, SeqEqual

\* A write that fits appends its bytes to the bytes held.
LEMMA CopiedInAppends ==
  ASSUME RingTypeOK, RingTypeOK',
         NEW amount \in Nat, NEW data \in [1 .. amount -> Bytes],
         amount <= freeSpace,
         buffer' = CopiedIn(data), end' = (end + amount) % length, start' = start
  PROVE  Held' = Held \o data
<1>0. /\ length \in Nat \ {0}
      /\ start \in 0 .. length - 1 /\ end \in 0 .. length - 1
      /\ dataLength \in 0 .. length - 1
      /\ dataLength = IF end >= start THEN end - start ELSE length - (start - end)
      /\ Cells = 0 .. length - 1
  BY Indices
<1>1. data \in Seq(Bytes) /\ Len(data) = amount
  OBVIOUS
<1>2. /\ freeSpace = length - 1 - dataLength
      /\ dataLength + amount <= length - 1
  <2>1. Capacity = length - 1 /\ freeSpace \in 0 .. Capacity /\ freeSpace + dataLength = Capacity
    BY Indices, Counts
  <2> QED
    BY <1>0, <2>1
<1>3. end' = IF end + amount < length THEN end + amount ELSE end + amount - length
  <2>1. PICK n \in Nat : n = end + amount /\ n < 2 * length
    BY <1>0, <1>2
  <2>2. n % length = IF n < length THEN n ELSE n - length
    <3>1. n < length => n % length = n
      BY <2>1, <1>0, Wrapped
    <3>2. n >= length => n % length = n - length
      BY <2>1, <1>0, Wrapped
    <3> QED
      BY <2>1, <1>0, <3>1, <3>2
  <2> QED
    BY <2>1, <2>2, <1>0
<1>4. dataLength' = dataLength + amount
  <2>1. dataLength' = IF end' >= start THEN end' - start ELSE length - (start - end')
    BY DEF dataLength, length
  <2>2. CASE end + amount < length
    BY <2>1, <2>2, <1>2, <1>3, <1>0
  <2>3. CASE ~ (end + amount < length)
    BY <2>1, <2>3, <1>2, <1>3, <1>0
  <2> QED
    BY <2>2, <2>3
<1>5. /\ Held \o data \in Seq(Bytes)
      /\ Len(Held \o data) = dataLength + amount
      /\ \A i \in 1 .. dataLength + amount :
           (Held \o data)[i] = IF i <= dataLength THEN Held[i] ELSE data[i - dataLength]
  <2>1. Held \in Seq(Bytes) /\ Len(Held) = dataLength
    BY HeldType DEF HeldAsCells
  <2> HIDE DEF Held
  <2> QED
    BY <1>1, <2>1, ConcatProperties
<1>6. /\ Held' \in Seq(Bytes)
      /\ Len(Held') = dataLength + amount
      /\ \A i \in 1 .. dataLength + amount : Held'[i] = buffer'[(start + i - 1) % length]
  <2>1. /\ Held' \in Seq(Bytes)
        /\ Len(Held') = dataLength'
        /\ \A i \in 1 .. dataLength' : Held'[i] = buffer'[(start' + i - 1) % length]
    <3>1. HeldAsCells'
      BY HeldType, PTL
    <3> QED
      BY <3>1 DEF HeldAsCells, length
  <2> QED
    BY <2>1, <1>4
<1>7. ASSUME NEW i \in 1 .. dataLength + amount
      PROVE  Held'[i] = (Held \o data)[i]
  <2>0. i \in Nat
    BY <1>0
  <2>1. PICK n \in Nat : n = start + i - 1 /\ n < 2 * length
    BY <1>0, <2>0, <1>2
  <2> DEFINE c == n % length
  <2>2. c = (IF n < length THEN n ELSE n - length) /\ c \in Cells
    <3>1. c = IF n < length THEN n ELSE n - length
      <4>1. n < length => n % length = n
        BY <2>1, <1>0, Wrapped
      <4>2. n >= length => n % length = n - length
        BY <2>1, <1>0, Wrapped
      <4> QED
        BY <2>1, <1>0, <4>1, <4>2
    <3> HIDE DEF c
    <3> QED
      BY <1>0, <2>0, <2>1, <3>1
  <2>3. Held'[i] = buffer'[c]
    BY <1>6, <2>1
  <2>4. buffer'[c] = IF end <= c /\ c < end + amount THEN data[c - end + 1]
                     ELSE IF c < amount - (length - end) THEN data[c + (length - end) + 1]
                     ELSE buffer[c]
    BY <1>1, <2>2 DEF CopiedIn
  <2>5. CASE i <= dataLength
    <3>1. ~ (end <= c /\ c < end + amount) /\ ~ (c < amount - (length - end))
      <4> HIDE DEF c
      <4> QED BY <1>0, <2>0, <2>1, <2>2, <2>5, <1>2
    <3>2. Held[i] = buffer[c]
      <4>1. i \in 1 .. dataLength
        BY <1>0, <2>5
      <4>2. Held[i] = buffer[(start + i - 1) % length]
        BY <4>1, HeldType DEF HeldAsCells
      <4> QED
        BY <4>2, <2>1
    <3> QED
      BY <2>3, <2>4, <2>5, <3>1, <3>2, <1>5
  <2>6. CASE ~ (i <= dataLength)
    <3>1. (Held \o data)[i] = data[i - dataLength]
      BY <2>6, <1>5
    <3>2. CASE end <= c /\ c < end + amount
      <4>1. c - end + 1 = i - dataLength
        <5> HIDE DEF c
        <5> QED BY <1>0, <2>0, <2>1, <2>2, <2>6, <3>2, <1>2
      <4> QED
        BY <2>3, <2>4, <3>1, <3>2, <4>1
    <3>3. CASE ~ (end <= c /\ c < end + amount)
      <4>1. c < amount - (length - end) /\ c + (length - end) + 1 = i - dataLength
        <5> HIDE DEF c
        <5> QED BY <1>0, <2>0, <2>1, <2>2, <2>6, <3>3, <1>2
      <4> QED
        BY <2>3, <2>4, <3>1, <3>3, <4>1
    <3> QED BY <3>2, <3>3
  <2> QED BY <2>5, <2>6
<1> QED
  BY <1>5, <1>6, <1>7, SeqEqual

\* A write that fits leaves every cell a byte and the index in the array.
LEMMA CopiedInType ==
  ASSUME RingTypeOK, NEW amount \in Nat, NEW data \in [1 .. amount -> Bytes],
         amount <= freeSpace
  PROVE  CopiedIn(data) \in [Cells -> Bytes] /\ (end + amount) % length \in Cells
<1>0. /\ length \in Nat \ {0} /\ end \in 0 .. length - 1
      /\ freeSpace \in 0 .. length - 1 /\ Cells = 0 .. length - 1
      /\ end + amount - length < length
  BY Indices, Counts
<1>1. Len(data) = amount
  OBVIOUS
<1>2. PICK n \in Nat : n = end + amount /\ n < 2 * length
  BY <1>0
<1>3. n % length \in Cells
  <2>1. n < length => n % length = n
    BY <1>2, <1>0, Wrapped
  <2>2. n >= length => n % length = n - length
    BY <1>2, <1>0, Wrapped
  <2> QED
    BY <1>0, <1>2, <2>1, <2>2
<1>4. ASSUME NEW c \in Cells
      PROVE  /\ end <= c /\ c < end + amount => c - end + 1 \in 1 .. amount
             /\ c < amount - (length - end) => c + (length - end) + 1 \in 1 .. amount
             /\ buffer[c] \in Bytes
  BY <1>0 DEF RingTypeOK
<1>5. ASSUME NEW c \in Cells
      PROVE  CopiedIn(data)[c] \in Bytes
  BY <1>1, <1>4 DEF CopiedIn
<1>6. CopiedIn(data) = [c \in Cells |-> CopiedIn(data)[c]]
  BY DEF CopiedIn
<1> QED
  BY <1>0, <1>2, <1>3, <1>5, <1>6

\* What is left to read once the first bytes have been read.
LEMMA ReadDropsPrefix ==
  ASSUME RingTypeOK, RingTypeOK', NEW amount \in 0 .. dataLength,
         buffer' = buffer, end' = end, start' = (start + amount) % length
  PROVE  Held' = SubSeq(Held, amount + 1, Len(Held))
<1>0. /\ length \in Nat \ {0}
      /\ start \in 0 .. length - 1 /\ end \in 0 .. length - 1
      /\ dataLength \in 0 .. length - 1
      /\ dataLength = IF end >= start THEN end - start ELSE length - (start - end)
      /\ amount \in 0 .. dataLength
  BY Indices
<1>1. start' = IF start + amount < length THEN start + amount ELSE start + amount - length
  <2>1. PICK n \in Nat : n = start + amount /\ n < 2 * length
    BY <1>0
  <2>2. n < length => n % length = n
    BY <2>1, <1>0, Wrapped
  <2>3. n >= length => n % length = n - length
    BY <2>1, <1>0, Wrapped
  <2> QED
    BY <2>1, <2>2, <2>3, <1>0
<1>2. dataLength' = dataLength - amount
  <2>1. dataLength' = IF end >= start' THEN end - start' ELSE length - (start' - end)
    BY DEF dataLength, length
  <2>2. CASE start + amount < length
    BY <2>1, <2>2, <1>0, <1>1
  <2>3. CASE ~ (start + amount < length)
    BY <2>1, <2>3, <1>0, <1>1
  <2> QED
    BY <2>2, <2>3
<1>3. HeldAsCells /\ HeldAsCells'
  <2>1. HeldAsCells'
    BY HeldType, PTL
  <2> QED
    BY <2>1, HeldType
<1>4. /\ Held' \in Seq(Bytes)
      /\ Len(Held') = dataLength - amount
      /\ \A i \in 1 .. dataLength - amount : Held'[i] = buffer[(start' + i - 1) % length]
  BY <1>0, <1>2, <1>3 DEF HeldAsCells, length
<1>5. /\ SubSeq(Held, amount + 1, Len(Held)) \in Seq(Bytes)
      /\ Len(SubSeq(Held, amount + 1, Len(Held))) = dataLength - amount
      /\ \A i \in 1 .. dataLength - amount :
           SubSeq(Held, amount + 1, Len(Held))[i] = Held[amount + i]
  <2>1. Held \in Seq(Bytes) /\ Len(Held) = dataLength
    BY <1>3 DEF HeldAsCells
  <2> HIDE DEF Held
  <2>2. \A i \in amount + 1 .. Len(Held) : Held[i] \in Bytes
    BY <2>1, <1>0
  <2>3. \A i \in 1 .. dataLength - amount : amount + 1 + i - 1 = amount + i
    BY <1>0
  <2> QED
    BY <2>1, <2>2, <2>3, <1>0, SubSeqProperties
<1>6. ASSUME NEW i \in 1 .. dataLength - amount
      PROVE  (start' + i - 1) % length = (start + (amount + i) - 1) % length
  <2>1. CASE start + amount < length
    <3>1. start' + i - 1 = start + (amount + i) - 1
      BY <2>1, <1>0, <1>1
    <3> QED
      BY <3>1
  <2>2. CASE ~ (start + amount < length)
    <3>1. PICK n \in Nat : n = start + (amount + i) - 1 /\ n < 2 * length /\ n >= length
      BY <2>2, <1>0
    <3>2. PICK m \in Nat : m = start' + i - 1 /\ m < length /\ m = n - length
      BY <2>2, <3>1, <1>0, <1>1
    <3>3. n % length = n - length
      BY <3>1, <1>0, Wrapped
    <3>4. m % length = m
      BY <3>2, <1>0, Wrapped
    <3> QED
      BY <3>1, <3>2, <3>3, <3>4
  <2> QED
    BY <2>1, <2>2
<1>7. ASSUME NEW i \in 1 .. dataLength - amount
      PROVE  Held'[i] = SubSeq(Held, amount + 1, Len(Held))[i]
  <2>1. amount + i \in 1 .. dataLength
    BY <1>0
  <2>2. Held[amount + i] = buffer[(start + (amount + i) - 1) % length]
    BY <2>1, <1>3 DEF HeldAsCells
  <2> QED
    BY <2>2, <1>4, <1>5, <1>6
<1> QED
  BY <1>4, <1>5, <1>7, SeqEqual

-----------------------------------------------------------------------------
(* The invariant.                                                          *)

\* The record of a refused call and of a served one.
LEMMA CallType ==
  ASSUME NEW op \in {"read", "gets", "write"}, NEW amount \in 0 .. MaxAmount
  PROVE  LET Calls == {"create", "read", "gets", "write"} \X Nat \X (Nat \cup {-1}) \X Seq(Bytes)
         IN  /\ <<op, amount, -1, <<>>>> \in Calls
             /\ \A data \in Seq(Bytes) : <<op, amount, amount, data>> \in Calls
             /\ <<op, amount, amount, <<>>>> \in Calls
<1>1. amount \in Nat /\ <<>> \in Seq(Bytes)
  BY RingBufferAssumption
<1> QED
  BY <1>1

\* A successful or a refused read keeps the types.
LEMMA ReadType ==
  ASSUME RingTypeOK, NEW op \in {"read", "gets"}, NEW amount \in 0 .. MaxAmount,
         read(op, amount)
  PROVE  RingTypeOK'
<1>1. amount \in Nat /\ op \in {"read", "gets", "write"}
  BY RingBufferAssumption
<1>2. call' \in {"create", "read", "gets", "write"} \X Nat \X (Nat \cup {-1}) \X Seq(Bytes)
  <2>1. call' = <<op, amount, amount, <<>>>> \/ call' = <<op, amount, -1, <<>>>>
    BY DEF read
  <2>2. /\ <<op, amount, amount, <<>>>>
              \in {"create", "read", "gets", "write"} \X Nat \X (Nat \cup {-1}) \X Seq(Bytes)
        /\ <<op, amount, -1, <<>>>>
              \in {"create", "read", "gets", "write"} \X Nat \X (Nat \cup {-1}) \X Seq(Bytes)
    BY <1>1, CallType
  <2> QED
    BY <2>1, <2>2
<1>3. CASE dataLength >= amount
  <2>1. amount \in 0 .. dataLength
    BY <1>1, <1>3, Counts
  <2>2. target' \in Seq(Bytes) /\ Len(target') <= MaxAmount
    BY <2>1, <1>3, CopiedOutIsPrefix, RingBufferAssumption DEF read
  <2>3. start' \in Cells
    <3>0. length \in Nat \ {0} /\ start \in 0 .. length - 1 /\ Cells = 0 .. length - 1
          /\ amount \in 0 .. length - 1
      BY <2>1, Indices
    <3>1. PICK n \in Nat : n = start + amount /\ n < 2 * length
      BY <3>0
    <3>2. n < length => n % length = n
      BY <3>1, <3>0, Wrapped
    <3>3. n >= length => n % length = n - length
      BY <3>1, <3>0, Wrapped
    <3>4. start' = n % length
      BY <3>1, <1>3 DEF read
    <3> QED
      BY <3>0, <3>1, <3>2, <3>3, <3>4
  <2> QED
    BY <2>2, <2>3, <1>2, <1>3 DEF read, RingTypeOK, Cells, length
<1>4. CASE ~ (dataLength >= amount)
  BY <1>2, <1>4 DEF read, RingTypeOK, Cells, length
<1> QED
  BY <1>3, <1>4

LEMMA WriteType ==
  ASSUME RingTypeOK, NEW amount \in 0 .. MaxAmount, NEW data \in [1 .. amount -> Bytes],
         RingBuffer_write(data)
  PROVE  RingTypeOK'
<1>1. amount \in Nat /\ data \in Seq(Bytes) /\ Len(data) = amount
  BY RingBufferAssumption
<1>2. CASE freeSpace >= amount
  <2>1. CopiedIn(data) \in [Cells -> Bytes] /\ (end + amount) % length \in Cells
    BY <1>1, <1>2, Counts, RingBufferAssumption, CopiedInType
  <2>2. /\ buffer' = CopiedIn(data) /\ end' = (end + amount) % length
        /\ call' = <<"write", amount, amount, data>> /\ UNCHANGED <<start, target>>
    BY <1>1, <1>2 DEF RingBuffer_write
  <2>3. call' \in {"create", "read", "gets", "write"} \X Nat \X (Nat \cup {-1}) \X Seq(Bytes)
    BY <1>1, <2>2, CallType
  <2>4. buffer' \in [Cells -> Bytes] /\ end' \in Cells /\ start' \in Cells
    BY <2>1, <2>2 DEF RingTypeOK
  <2>5. target' \in Seq(Bytes) /\ Len(target') <= MaxAmount
    BY <2>2 DEF RingTypeOK
  <2>6. Cells' = Cells
    BY DEF Cells, length
  <2> QED
    BY ONLY <2>3, <2>4, <2>5, <2>6 DEF RingTypeOK
<1>3. CASE ~ (freeSpace >= amount)
  <2>1. call' = <<"write", amount, -1, <<>>>> /\ UNCHANGED <<buffer, start, end, target>>
    BY <1>1, <1>3 DEF RingBuffer_write
  <2>2. call' \in {"create", "read", "gets", "write"} \X Nat \X (Nat \cup {-1}) \X Seq(Bytes)
    BY <1>1, <2>1, CallType
  <2>3. Cells' = Cells
    BY DEF Cells, length
  <2> QED
    BY ONLY RingTypeOK, <2>1, <2>2, <2>3 DEF RingTypeOK
<1> QED
  BY <1>2, <1>3

LEMMA RingTypeInit == RingBuffer_create => RingTypeOK
<1> SUFFICES ASSUME RingBuffer_create PROVE RingTypeOK
  OBVIOUS
<1>1. 0 \in Cells /\ <<>> \in Seq(Bytes) /\ Len(<<>>) <= MaxAmount
  BY RingBufferAssumption DEF Cells, length
<1>2. <<"create", Capacity, 0, <<>>>>
        \in {"create", "read", "gets", "write"} \X Nat \X (Nat \cup {-1}) \X Seq(Bytes)
  BY <1>1, RingBufferAssumption
<1>3. target = <<>> /\ start = 0 /\ end = 0 /\ buffer \in [Cells -> Bytes]
      /\ call = <<"create", Capacity, 0, <<>>>>
  BY DEF RingBuffer_create
<1> QED
  BY <1>1, <1>2, <1>3, SMTT(20) DEF RingTypeOK

LEMMA RingTypeNext == RingTypeOK /\ [RingNext]_ringVars => RingTypeOK'
<1> SUFFICES ASSUME RingTypeOK, [RingNext]_ringVars
             PROVE  RingTypeOK'
  OBVIOUS
<1>1. CASE UNCHANGED ringVars
  BY <1>1 DEF ringVars, RingTypeOK, Cells, length
<1>2. ASSUME NEW amount \in 0 .. MaxAmount, RingBuffer_read(amount)
      PROVE  RingTypeOK'
  BY <1>2, ReadType DEF RingBuffer_read
<1>3. ASSUME NEW amount \in 0 .. MaxAmount, RingBuffer_gets(amount)
      PROVE  RingTypeOK'
  <2>1. CASE amount > 0
    BY <1>3, <2>1, ReadType DEF RingBuffer_gets
  <2>2. CASE ~ (amount > 0)
    <3>1. call' = <<"gets", amount, -1, <<>>>>
      BY <1>3, <2>2 DEF RingBuffer_gets
    <3>2. call' \in {"create", "read", "gets", "write"} \X Nat \X (Nat \cup {-1}) \X Seq(Bytes)
      BY <3>1, CallType
    <3> QED
      BY <1>3, <2>2, <3>2 DEF RingBuffer_gets, RingTypeOK, Cells, length
  <2> QED
    BY <2>1, <2>2
<1>4. ASSUME NEW amount \in 0 .. MaxAmount, NEW data \in [1 .. amount -> Bytes],
             RingBuffer_write(data)
      PROVE  RingTypeOK'
  BY <1>4, WriteType
<1> QED
  BY <1>1, <1>2, <1>3, <1>4 DEF RingNext

\* Whatever calls are made, the indices stay in the array and every cell and
\* every byte read is a byte (ringbuffer.c: RingBuffer_create, _read, _gets, _write).
THEOREM RingTypeCorrect == RingSpec => []RingTypeOK
<1> QED
  BY RingTypeInit, RingTypeNext, PTL DEF RingSpec

-----------------------------------------------------------------------------
(* The refinement.                                                         *)

LEMMA FifoInit == RingBuffer_create => Fifo!Init
<1> SUFFICES ASSUME RingBuffer_create PROVE Fifo!Init
  OBVIOUS
<1>1. HeldAsCells
  BY RingTypeInit, HeldType
<1>2. dataLength = 0
  BY DEF RingBuffer_create, dataLength
<1>3. Held = <<>>
  <2>1. <<>> \in Seq(Bytes) /\ Len(<<>>) = 0
    OBVIOUS
  <2> QED
    BY <1>1, <1>2, <2>1, SeqEqual DEF HeldAsCells
<1> QED
  BY <1>3 DEF Fifo!Init, RingBuffer_create

\* A read either takes the bytes from the front of the sequence or is refused.
LEMMA FifoRead ==
  ASSUME RingTypeOK, RingTypeOK', NEW op \in {"read", "gets"}, NEW amount \in 0 .. MaxAmount,
         op = "gets" => amount > 0, read(op, amount)
  PROVE  Fifo!Take(op, amount) \/ Fifo!Refuse(op, amount)
<1>0. amount \in Nat /\ dataLength \in Nat /\ Len(Held) = dataLength
  BY RingBufferAssumption, Counts, HeldType DEF HeldAsCells
<1>1. CASE dataLength >= amount
  <2>1. amount \in 0 .. dataLength
    BY <1>0, <1>1
  <2>2. target' = SubSeq(Held, 1, amount)
    BY <1>1, <2>1, CopiedOutIsPrefix DEF read
  <2>3. Held' = SubSeq(Held, amount + 1, Len(Held))
    BY <1>1, <2>1, ReadDropsPrefix DEF read
  <2>4. call' = <<op, amount, amount, <<>>>>
    BY <1>1 DEF read
  <2> QED
    BY <1>0, <1>1, <2>2, <2>3, <2>4 DEF Fifo!Take
<1>2. CASE ~ (dataLength >= amount)
  <2>1. UNCHANGED Held /\ UNCHANGED target /\ call' = <<op, amount, -1, <<>>>>
    BY <1>2 DEF read, Held, dataLength, length
  <2> QED
    BY <1>0, <1>2, <2>1 DEF Fifo!Refuse
<1> QED
  BY <1>1, <1>2

\* A write either appends its bytes or is refused.
LEMMA FifoWrite ==
  ASSUME RingTypeOK, RingTypeOK', NEW amount \in 0 .. MaxAmount,
         NEW data \in [1 .. amount -> Bytes], RingBuffer_write(data)
  PROVE  Fifo!Accept(data) \/ Fifo!Refuse("write", amount)
<1>0. /\ amount \in Nat /\ Len(data) = amount /\ Capacity \in Nat
      /\ dataLength \in Nat /\ Len(Held) = dataLength
      /\ freeSpace \in Nat /\ freeSpace + dataLength = Capacity
  BY RingBufferAssumption, Counts, HeldType DEF HeldAsCells
<1>1. CASE freeSpace >= amount
  <2>1. Held' = Held \o data
    BY <1>0, <1>1, CopiedInAppends DEF RingBuffer_write
  <2>2. call' = <<"write", Len(data), Len(data), data>> /\ UNCHANGED target
    BY <1>0, <1>1 DEF RingBuffer_write
  <2> QED
    BY <1>0, <1>1, <2>1, <2>2 DEF Fifo!Accept
<1>2. CASE ~ (freeSpace >= amount)
  <2>1. UNCHANGED Held /\ UNCHANGED target /\ call' = <<"write", amount, -1, <<>>>>
    BY <1>0, <1>2 DEF RingBuffer_write, Held, dataLength, length
  <2> QED
    BY <1>0, <1>2, <2>1 DEF Fifo!Refuse
<1> QED
  BY <1>1, <1>2

LEMMA FifoNext ==
  RingTypeOK /\ RingTypeOK' /\ [RingNext]_ringVars => [Fifo!Next]_(Fifo!vars)
<1> SUFFICES ASSUME RingTypeOK, RingTypeOK', [RingNext]_ringVars
             PROVE  [Fifo!Next]_(Fifo!vars)
  OBVIOUS
<1>1. CASE UNCHANGED ringVars
  BY <1>1 DEF ringVars, Fifo!vars, Held, dataLength, length
<1>2. ASSUME NEW amount \in 0 .. MaxAmount, RingBuffer_read(amount)
      PROVE  Fifo!Next
  <2>1. Fifo!Take("read", amount) \/ Fifo!Refuse("read", amount)
    BY <1>2, FifoRead DEF RingBuffer_read
  <2> QED
    BY <2>1 DEF Fifo!Next
<1>3. ASSUME NEW amount \in 0 .. MaxAmount, RingBuffer_gets(amount)
      PROVE  Fifo!Next
  <2>1. CASE amount > 0
    <3>1. Fifo!Take("gets", amount) \/ Fifo!Refuse("gets", amount)
      BY <1>3, <2>1, FifoRead DEF RingBuffer_gets
    <3> QED
      BY <3>1 DEF Fifo!Next
  <2>2. CASE ~ (amount > 0)
    <3>1. amount = 0 /\ call' = <<"gets", amount, -1, <<>>>> /\ UNCHANGED <<Held, target>>
      BY <1>3, <2>2, RingBufferAssumption DEF RingBuffer_gets, Held, dataLength, length
    <3>2. Fifo!Refuse("gets", amount)
      BY <3>1 DEF Fifo!Refuse
    <3> QED
      BY <3>2 DEF Fifo!Next
  <2> QED
    BY <2>1, <2>2
<1>4. ASSUME NEW amount \in 0 .. MaxAmount, NEW data \in [1 .. amount -> Bytes],
             RingBuffer_write(data)
      PROVE  Fifo!Next
  <2>1. Fifo!Accept(data) \/ Fifo!Refuse("write", amount)
    BY <1>4, FifoWrite
  <2> QED
    BY <2>1 DEF Fifo!Next
<1> QED
  BY <1>1, <1>2, <1>3, <1>4 DEF RingNext

\* The array with its two indices and its two-piece copies implements a bounded
\* sequence of bytes: they come out once, in order and unchanged, and a call that
\* cannot be served whole moves nothing.
THEOREM RingImplementsFifo == RingSpec => BytesInOrder
<1> QED
  BY FifoInit, FifoNext, RingTypeCorrect, PTL DEF RingSpec, BytesInOrder, Fifo!Spec
=============================================================================
