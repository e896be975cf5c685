------------------------------ MODULE WireProofs ------------------------------
(***************************************************************************)
(* The proofs about Wire: what the strings of bytes the codec builds spell *)
(* to the one who decodes them, that the streams stay cut into messages,   *)
(* and that every step keeps the invariant and is a step of DeviceLink.    *)
(***************************************************************************)
EXTENDS WireProperties, SimulatedDeviceProofs, FiniteSetTheorems, SequenceTheorems

(***************************************************************************)
(* Bytes and words by their bounds.                                        *)
(***************************************************************************)
LEMMA Between ==
    ASSUME NEW m \in Int, NEW n \in Int
    PROVE  \A x : x \in m .. n <=> x \in Int /\ m <= x /\ x <= n
OBVIOUS

\* A string that is not empty.
LEMMA NotEmpty ==
    ASSUME NEW S, NEW s \in Seq(S), Len(s) >= 1
    PROVE  s # <<>>
OBVIOUS

LEMMA IsByte == \A x : x \in Byte <=> x \in Int /\ 0 <= x /\ x <= 255
<1>1. 0 \in Int /\ 255 \in Int
    OBVIOUS
<1>2. \A x : x \in 0 .. 255 <=> x \in Int /\ 0 <= x /\ x <= 255
    BY ONLY <1>1, Between, SMT
<1> QED
    BY ONLY <1>2, Zenon DEF Byte

LEMMA IsWord == \A x : x \in Word <=> x \in Int /\ 0 <= x /\ x <= 65535
<1>1. WordMod \in Int /\ WordMod - 1 = 65535
    BY WireAssumption, SMT
<1>2. \A x : x \in Word <=> x \in Int /\ 0 <= x /\ x <= WordMod - 1
    BY WordModAssumption, SMT DEF Word
<1> QED
    BY ONLY <1>1, <1>2, SMT

LEMMA BytesOfWord ==
    ASSUME NEW v \in Word
    PROVE  /\ v \div 256 \in Byte /\ v % 256 \in Byte
           /\ 256 * (v \div 256) + (v % 256) = v
BY IsByte, IsWord

LEMMA WordOfBytes ==
    ASSUME NEW a \in Byte, NEW b \in Byte
    PROVE  256 * a + b \in Word /\ (256 * a + b) \div 256 = a /\ (256 * a + b) % 256 = b
<1>1. a \in Int /\ b \in Int /\ 0 <= a /\ a <= 255 /\ 0 <= b /\ b <= 255
    BY IsByte
<1> QED
    BY <1>1, IsWord

LEMMA TwoBytes ==
    ASSUME NEW v \in Word
    PROVE  /\ U16(v) = <<v \div 256, v % 256>> /\ U16(v) \in Seq(Byte) /\ Len(U16(v)) = 2
           /\ Int16(U16(v)) = v
           /\ LowFirst(v) \in Seq(Byte) /\ Len(LowFirst(v)) = 2
BY BytesOfWord DEF U16, LowFirst, Int16

LEMMA SixBytes ==
    ASSUME NEW S, NEW a \in S, NEW b \in S, NEW c \in S, NEW d \in S, NEW e \in S, NEW f \in S
    PROVE  /\ <<a, b, c, d, e, f>> \in Seq(S) /\ Len(<<a, b, c, d, e, f>>) = 6
           /\ <<a, b>> \o <<c, d>> \o <<e, f>> = <<a, b, c, d, e, f>>
<1> DEFINE p == <<a, b>>
           q == <<c, d>>
           r == <<e, f>>
           all == <<a, b, c, d, e, f>>
<1>1. p \in Seq(S) /\ q \in Seq(S) /\ r \in Seq(S) /\ all \in Seq(S)
    OBVIOUS
<1>2. Len(p) = 2 /\ Len(q) = 2 /\ Len(r) = 2 /\ Len(all) = 6
    OBVIOUS
<1>3. /\ p[1] = a /\ p[2] = b /\ q[1] = c /\ q[2] = d /\ r[1] = e /\ r[2] = f
      /\ all[1] = a /\ all[2] = b /\ all[3] = c /\ all[4] = d /\ all[5] = e /\ all[6] = f
    OBVIOUS
<1> HIDE DEF p, q, r, all
<1>4. /\ p \o q \in Seq(S) /\ Len(p \o q) = Len(p) + Len(q)
      /\ \A i \in 1 .. Len(p) + Len(q) : (p \o q)[i] = IF i <= Len(p) THEN p[i] ELSE q[i - Len(p)]
    BY ONLY <1>1, ConcatProperties
<1>5. /\ p \o q \o r \in Seq(S) /\ Len(p \o q \o r) = Len(p \o q) + Len(r)
      /\ \A i \in 1 .. Len(p \o q) + Len(r) :
            (p \o q \o r)[i] = IF i <= Len(p \o q) THEN (p \o q)[i] ELSE r[i - Len(p \o q)]
    BY ONLY <1>1, <1>4, ConcatProperties
<1>6. \A i \in 1 .. 6 : (p \o q \o r)[i] = all[i]
    BY <1>2, <1>3, <1>4, <1>5
<1>7. p \o q \o r = all
    BY <1>1, <1>2, <1>4, <1>5, <1>6, SeqEqual
<1> QED
    BY <1>1, <1>2, <1>7 DEF p, q, r, all
(***************************************************************************)
(* The CRC is a word.                                                      *)
(***************************************************************************)
LEMMA ShiftOutIsWord ==
    ASSUME NEW c \in Word
    PROVE  ShiftOut(c) \in Word
<1>0. c \in Int /\ 0 <= c /\ c <= 65535
    BY IsWord
<1>1. CASE c % 2 # 1
    BY <1>0, <1>1, IsWord DEF ShiftOut
<1>2. CASE c % 2 = 1
    <2> DEFINE a == c \div 2
               b == Flip(a, 1)
               d == Flip(b, 8192)
    <2>1. a \in Int /\ 0 <= a /\ a <= 32767
        BY <1>0
    <2> HIDE DEF a
    <2>2. b \in Int /\ 0 <= b /\ b <= 32767
        BY <2>1 DEF Flip, Bit
    <2> HIDE DEF b
    <2>3. d \in Int /\ 0 <= d /\ d <= 32767
        BY <2>2 DEF Flip, Bit
    <2> HIDE DEF d
    <2>4. Flip(d, 32768) \in Int /\ 0 <= Flip(d, 32768) /\ Flip(d, 32768) <= 65535
        BY <2>3 DEF Flip, Bit
    <2> QED
        BY <1>2, <2>4, IsWord DEF ShiftOut, d, b, a
<1> QED
    BY <1>1, <1>2

LEMMA XorIsByte ==
    ASSUME NEW v \in Int, NEW byte \in Int
    PROVE  Xor8(v, byte) \in Byte
<1> DEFINE at(w) == IF Bit(v, w) = Bit(byte, w) THEN 0 ELSE w
<1>1. \A w \in Nat : at(w) \in Int /\ 0 <= at(w) /\ at(w) <= w
    OBVIOUS
<1>2. Xor8(v, byte) = at(1) + at(2) + at(4) + at(8) + at(16) + at(32) + at(64) + at(128)
    BY DEF Xor8
<1> HIDE DEF at
<1>3. Xor8(v, byte) \in Int /\ 0 <= Xor8(v, byte) /\ Xor8(v, byte) <= 255
    BY <1>1, <1>2
<1> QED
    BY <1>3, IsByte

LEMMA FirstOf ==
    ASSUME NEW T \in SUBSET Nat, T # {}
    PROVE  \E i \in T : \A k \in T : i <= k
<1>1. PICK i \in T : \A k \in T : ~ (<<k, i>> \in OpToRel(<, Nat))
    BY NatLessThanWellFounded, WFMin
<1>2. ASSUME NEW k \in T, k < i PROVE FALSE
    BY <1>1, <1>2 DEF OpToRel
<1> QED
    BY <1>2

LEMMA UpTo ==
    ASSUME NEW n \in Nat, NEW S, 0 \in S, \A k \in 1 .. n : k - 1 \in S => k \in S
    PROVE  n \in S /\ \A k \in 0 .. n : k \in S
<1> DEFINE T == {k \in 0 .. n : k \notin S}
<1> SUFFICES ASSUME T # {} PROVE FALSE
    OBVIOUS
<1>1. PICK m \in T : \A k \in T : m <= k
    <2> HIDE DEF T
    <2>1. T \in SUBSET Nat
        BY DEF T
    <2> QED
        BY <2>1, FirstOf
<1>2. m \in 1 .. n /\ m - 1 \in 0 .. n /\ m - 1 \notin T
    BY <1>1
<1> QED
    BY <1>1, <1>2

CrcTurn(data, c, n) ==
    ShiftOut(IF n % 8 = 1 THEN 256 * (c \div 256) + Xor8(c, data[n \div 8 + 1]) ELSE c)
IsCrc(data, n, f) == f = [k \in 0 .. n |-> IF k = 0 THEN 65535 ELSE CrcTurn(data, f[k-1], k)]

LEMMA CrcGoesOn ==
    ASSUME NEW data, NEW n \in Nat, NEW f, IsCrc(data, n, f)
    PROVE  \E g : IsCrc(data, n + 1, g)
<1> DEFINE g == [k \in 0 .. n + 1 |-> IF k = n + 1 THEN CrcTurn(data, f[n], n + 1) ELSE f[k]]
           h == [k \in 0 .. n + 1 |-> IF k = 0 THEN 65535 ELSE CrcTurn(data, g[k-1], k)]
<1>1. \A k \in 0 .. n + 1 : g[k] = h[k]
    <2> SUFFICES ASSUME NEW k \in 0 .. n + 1 PROVE g[k] = h[k]
        OBVIOUS
    <2>1. CASE k = n + 1
        <3>1. k # 0 /\ k - 1 = n /\ n \in 0 .. n + 1 /\ n # n + 1
            BY <2>1
        <3> QED
            BY <2>1, <3>1
    <2>2. CASE k # n + 1
        <3>1. k \in 0 .. n /\ g[k] = f[k] /\ f[k] = IF k = 0 THEN 65535 ELSE CrcTurn(data, f[k-1], k)
            BY <2>2 DEF IsCrc
        <3>2. k # 0 => k - 1 \in 0 .. n /\ k - 1 # n + 1 /\ g[k-1] = f[k-1]
            BY <2>2
        <3> QED
            BY <3>1, <3>2
    <2> QED
        BY <2>1, <2>2
<1>2. g = h
    BY <1>1
<1> HIDE DEF g
<1>3. IsCrc(data, n + 1, g)
    BY <1>2 DEF IsCrc
<1> QED
    BY <1>3

LEMMA CrcRuns ==
    ASSUME NEW data, NEW n \in Nat
    PROVE  \E f : IsCrc(data, n, f)
<1> DEFINE S == {m \in Nat : \E f : IsCrc(data, m, f)}
<1>1. 0 \in S
    <2>1. IsCrc(data, 0, [k \in 0 .. 0 |-> 65535])
        BY DEF IsCrc
    <2> QED
        BY <2>1
<1>2. \A k \in 1 .. n : k - 1 \in S => k \in S
    <2> SUFFICES ASSUME NEW k \in 1 .. n, k - 1 \in S PROVE k \in S
        OBVIOUS
    <2>1. PICK f : IsCrc(data, k - 1, f)
        OBVIOUS
    <2>2. \E g : IsCrc(data, (k - 1) + 1, g)
        BY <2>1, CrcGoesOn
    <2> QED
        BY <2>2
<1> HIDE DEF S
<1>3. n \in S
    BY <1>1, <1>2, UpTo
<1> QED
    BY <1>3 DEF S

LEMMA CrcTurnIsWord ==
    ASSUME NEW data \in Seq(Byte), NEW n \in 1 .. 8 * Len(data), NEW c \in Word
    PROVE  CrcTurn(data, c, n) \in Word
<1>0. Len(data) \in Nat
    OBVIOUS
<1>1. c \in Int /\ 0 <= c /\ c <= 65535
    BY IsWord
<1>2. CASE n % 8 = 1
    <2>1. n \div 8 + 1 \in 1 .. Len(data)
        BY <1>0, <1>2
    <2>2. data[n \div 8 + 1] \in Byte
        BY <2>1
    <2> DEFINE x == Xor8(c, data[n \div 8 + 1])
               top == c \div 256
    <2>3. x \in Byte
        <3>1. data[n \div 8 + 1] \in Int
            BY <2>2, IsByte
        <3> QED
            BY <1>1, <3>1, XorIsByte
    <2>4. top \in Byte
        BY BytesOfWord
    <2>5. CrcTurn(data, c, n) = ShiftOut(256 * top + x)
        BY <1>2 DEF CrcTurn
    <2> HIDE DEF x, top
    <2>6. 256 * top + x \in Word
        BY <2>3, <2>4, WordOfBytes
    <2> QED
        BY <2>5, <2>6, ShiftOutIsWord
<1>3. CASE n % 8 # 1
    BY <1>3, ShiftOutIsWord DEF CrcTurn
<1> QED
    BY <1>2, <1>3

LEMMA CrcIsWord ==
    ASSUME NEW data \in Seq(Byte)
    PROVE  Crc16(data) \in Word
<1> DEFINE n == 8 * Len(data)
           f == CHOOSE g : IsCrc(data, n, g)
           S == {k \in 0 .. n : f[k] \in Word}
<1>1. n \in Nat
    OBVIOUS
<1>2. Crc16(data) = f[n]
    BY DEF Crc16, IsCrc, CrcTurn
<1> HIDE DEF n
<1>3. IsCrc(data, n, f)
    BY <1>1, CrcRuns
<1> HIDE DEF f
<1>4. f[0] = 65535 /\ \A k \in 1 .. n : f[k] = CrcTurn(data, f[k-1], k)
    BY <1>1, <1>3 DEF IsCrc
<1>5. 0 \in S
    BY <1>1, <1>4, IsWord
<1>6. \A k \in 1 .. n : k - 1 \in S => k \in S
    BY <1>1, <1>4, CrcTurnIsWord DEF n
<1> HIDE DEF S
<1>7. n \in S
    BY ONLY <1>1, <1>5, <1>6, UpTo
<1> QED
    BY <1>2, <1>7 DEF S
(***************************************************************************)
(* A checked string of bytes, and one with the last bit flipped.           *)
(***************************************************************************)
LEMMA PartIs ==
    ASSUME NEW S, NEW s \in Seq(S), NEW m \in Int, NEW n \in Int, 1 <= m, m <= n + 1, n <= Len(s)
    PROVE  /\ SubSeq(s, m, n) \in Seq(S) /\ Len(SubSeq(s, m, n)) = n - m + 1
           /\ \A i \in 1 .. n - m + 1 : SubSeq(s, m, n)[i] = s[m + i - 1]
<1>1. \A i \in m .. n : s[i] \in S
    OBVIOUS
<1>2. /\ SubSeq(s, m, n) \in Seq(S)
      /\ Len(SubSeq(s, m, n)) = IF m <= n THEN n - m + 1 ELSE 0
      /\ \A i \in 1 .. n - m + 1 : SubSeq(s, m, n)[i] = s[m + i - 1]
    BY ONLY <1>1, SubSeqProperties
<1> QED
    BY <1>2

LEMMA SamePair ==
    ASSUME NEW S, NEW s \in Seq(S), NEW t \in Seq(S), Len(s) = 2, Len(t) = 2
    PROVE  s = t <=> s[1] = t[1] /\ s[2] = t[2]
<1>1. ASSUME s[1] = t[1], s[2] = t[2] PROVE s = t
    <2>1. \A i \in 1 .. Len(s) : s[i] = t[i]
        BY <1>1
    <2> QED
        BY <2>1, SeqEqual
<1> QED
    BY <1>1

LEMMA CrcAt ==
    ASSUME NEW body \in Seq(Byte), NEW b \in Seq(Byte), NEW n, Len(body) = n, Len(b) = n + 2,
           \A i \in 1 .. n : b[i] = body[i]
    PROVE  CrcHolds(b) <=> b[n+1] = Crc16(body) % 256 /\ b[n+2] = Crc16(body) \div 256
<1> DEFINE c == LowFirst(Crc16(body))
<1>1. c \in Seq(Byte) /\ Len(c) = 2 /\ n \in Nat
    BY CrcIsWord, TwoBytes
<1>2. c[1] = Crc16(body) % 256 /\ c[2] = Crc16(body) \div 256
    BY DEF LowFirst
<1> HIDE DEF c
<1>3. \A i \in 1 .. n + 2 : b[i] \in Byte
    BY <1>1
<1>4. SubSeq(b, 1, n) = body
    <2>1. \A i \in 1 .. n : b[i] \in Byte
        BY <1>1, <1>3
    <2>2. /\ SubSeq(b, 1, n) \in Seq(Byte) /\ Len(SubSeq(b, 1, n)) = n
          /\ \A i \in 1 .. n : SubSeq(b, 1, n)[i] = b[i]
        BY <1>1, <2>1, SubSeqProperties
    <2> QED
        BY <1>1, <2>2, SeqEqual
<1>5. /\ SubSeq(b, n + 1, n + 2) \in Seq(Byte) /\ Len(SubSeq(b, n + 1, n + 2)) = 2
      /\ SubSeq(b, n + 1, n + 2)[1] = b[n+1] /\ SubSeq(b, n + 1, n + 2)[2] = b[n+2]
    <2>1. /\ SubSeq(b, n + 1, n + 2) \in Seq(Byte)
          /\ Len(SubSeq(b, n + 1, n + 2)) = (n + 2) - (n + 1) + 1
          /\ \A i \in 1 .. (n + 2) - (n + 1) + 1 : SubSeq(b, n + 1, n + 2)[i] = b[(n + 1) + i - 1]
        BY <1>1, PartIs
    <2> QED
        BY <1>1, <2>1
<1>6. SubSeq(b, n + 1, n + 2) = c <=> b[n+1] = c[1] /\ b[n+2] = c[2]
    BY ONLY <1>1, <1>5, SamePair
<1>7. CrcHolds(b) <=> SubSeq(b, n + 1, n + 2) = c
    <2>1. Len(b) - 1 = n + 1 /\ Len(b) = n + 2 /\ Len(b) - 2 = n
        BY <1>1
    <2> QED
        BY <1>4, <2>1 DEF CrcHolds, c
<1> QED
    BY <1>2, <1>6, <1>7

LEMMA Checked ==
    ASSUME NEW body \in Seq(Byte), NEW n, Len(body) = n
    PROVE  /\ WithCrc(body) \in Seq(Byte) /\ Len(WithCrc(body)) = n + 2
           /\ \A i \in 1 .. n : WithCrc(body)[i] = body[i]
           /\ WithCrc(body)[n+1] = Crc16(body) % 256
           /\ WithCrc(body)[n+2] = Crc16(body) \div 256
           /\ CrcHolds(WithCrc(body))
<1> DEFINE b == WithCrc(body)
           c == LowFirst(Crc16(body))
<1>1. c \in Seq(Byte) /\ Len(c) = 2 /\ n \in Nat
    BY CrcIsWord, TwoBytes
<1>2. b = body \o c
    BY DEF WithCrc
<1>0. c[1] = Crc16(body) % 256 /\ c[2] = Crc16(body) \div 256
    BY DEF LowFirst
<1> HIDE DEF b, c
<1>3. /\ b \in Seq(Byte) /\ Len(b) = Len(body) + Len(c)
      /\ \A i \in 1 .. Len(body) + Len(c) : b[i] = IF i <= Len(body) THEN body[i] ELSE c[i - Len(body)]
    BY ONLY <1>1, <1>2, ConcatProperties
<1>4. Len(b) = n + 2 /\ \A i \in 1 .. n : b[i] = body[i]
    BY <1>1, <1>3
<1>5. b[n+1] = c[1] /\ b[n+2] = c[2]
    BY <1>1, <1>3
<1>6. CrcHolds(b)
    <2>1. b \in Seq(Byte) /\ body \in Seq(Byte) /\ Len(body) = n
        BY <1>3
    <2>2. CrcHolds(b) <=> b[n+1] = Crc16(body) % 256 /\ b[n+2] = Crc16(body) \div 256
        BY ONLY <1>4, <2>1, CrcAt
    <2> QED
        BY <1>0, <1>5, <2>2
<1> QED
    BY <1>0, <1>3, <1>4, <1>5, <1>6 DEF b

LEMMA Spoiled ==
    ASSUME NEW body \in Seq(Byte), NEW n, Len(body) = n
    PROVE  /\ FlipLastBit(WithCrc(body)) \in Seq(Byte)
           /\ Len(FlipLastBit(WithCrc(body))) = n + 2
           /\ \A i \in 1 .. n : FlipLastBit(WithCrc(body))[i] = body[i]
           /\ ~CrcHolds(FlipLastBit(WithCrc(body)))
<1> DEFINE w == WithCrc(body)
           b == FlipLastBit(w)
           c == Crc16(body) \div 256
<1>1. n \in Nat /\ c \in Byte
    BY CrcIsWord, BytesOfWord
<1>2. /\ w \in Seq(Byte) /\ Len(w) = n + 2 /\ \A i \in 1 .. n : w[i] = body[i]
      /\ w[n+2] = c
    BY Checked
<1> HIDE DEF c, w
<1>3. Flip(c, 1) \in Byte /\ Flip(c, 1) # c
    <2>1. c \in Int /\ 0 <= c /\ c <= 255
        BY <1>1, IsByte
    <2>2. Flip(c, 1) \in Int /\ 0 <= Flip(c, 1) /\ Flip(c, 1) <= 255 /\ Flip(c, 1) # c
        BY <2>1 DEF Flip, Bit
    <2> QED
        BY <2>2, IsByte
<1>4. b = [w EXCEPT ![n+2] = Flip(c, 1)]
    BY <1>2 DEF FlipLastBit
<1> HIDE DEF b
<1>5. n + 2 \in 1 .. Len(w)
    BY <1>1, <1>2
<1>6. b \in Seq(Byte) /\ Len(b) = n + 2
    BY <1>2, <1>3, <1>4, <1>5, ExceptSeq
<1>7. \A i \in 1 .. n : b[i] = body[i]
    BY <1>1, <1>2, <1>4
<1>8. b[n+2] = Flip(c, 1)
    BY <1>1, <1>2, <1>4, <1>5
<1>9. ~CrcHolds(b)
    BY <1>3, <1>6, <1>7, <1>8, CrcAt DEF c
<1> QED
    BY <1>6, <1>7, <1>9 DEF b, w

(***************************************************************************)
(* A string and its CRC, which is right unless the device corrupts it.     *)
(***************************************************************************)
Sealed(response) == IF HasFault(faults, "crc_corrupt") THEN FlipLastBit(response) ELSE response

Begins(b, body) ==
    /\ b \in Seq(Byte) /\ Len(b) = Len(body) + 2
    /\ \A i \in 1 .. Len(body) : b[i] = body[i]

LEMMA SealedIs ==
    ASSUME NEW body \in Seq(Byte)
    PROVE  /\ Begins(WithCrc(body), body) /\ CrcHolds(WithCrc(body))
           /\ Begins(Sealed(WithCrc(body)), body)
           /\ CrcHolds(Sealed(WithCrc(body))) <=> ~HasFault(faults, "crc_corrupt")
<1> DEFINE n == Len(body)
<1>0. Len(body) = n
    OBVIOUS
<1> HIDE DEF n
<1>1. /\ WithCrc(body) \in Seq(Byte) /\ Len(WithCrc(body)) = n + 2
      /\ \A i \in 1 .. n : WithCrc(body)[i] = body[i]
      /\ CrcHolds(WithCrc(body))
    BY <1>0, Checked
<1>2. /\ FlipLastBit(WithCrc(body)) \in Seq(Byte)
      /\ Len(FlipLastBit(WithCrc(body))) = n + 2
      /\ \A i \in 1 .. n : FlipLastBit(WithCrc(body))[i] = body[i]
      /\ ~CrcHolds(FlipLastBit(WithCrc(body)))
    BY <1>0, Spoiled
<1>3. Begins(WithCrc(body), body) /\ Begins(FlipLastBit(WithCrc(body)), body)
    BY <1>0, <1>1, <1>2 DEF Begins
<1> QED
    BY <1>1, <1>2, <1>3 DEF Sealed

(***************************************************************************)
(* Frames.                                                                 *)
(***************************************************************************)
Fields(b, unit, fc, addr, value) ==
    /\ b \in Seq(Byte) /\ Len(b) = 8
    /\ b[1] = unit /\ b[2] = fc
    /\ b[3] = addr \div 256 /\ b[4] = addr % 256
    /\ b[5] = value \div 256 /\ b[6] = value % 256

LEMMA FrameBody ==
    ASSUME NEW unit \in Byte, NEW fc \in Byte, NEW addr \in Word, NEW value \in Word
    PROVE  \E body \in Seq(Byte) :
              /\ FrameBytes(unit, fc, addr, value) = WithCrc(body)
              /\ \A b : Begins(b, body) => Fields(b, unit, fc, addr, value)
<1> DEFINE ah == addr \div 256
           al == addr % 256
           vh == value \div 256
           vl == value % 256
           body == <<unit, fc, ah, al, vh, vl>>
<1>1. ah \in Byte /\ al \in Byte /\ vh \in Byte /\ vl \in Byte
    BY BytesOfWord
<1>2. U16(addr) = <<ah, al>> /\ U16(value) = <<vh, vl>>
    BY DEF U16
<1>3. /\ body \in Seq(Byte) /\ Len(body) = 6
      /\ <<unit, fc>> \o U16(addr) \o U16(value) = body
    <2> HIDE DEF ah, al, vh, vl
    <2> QED
        BY <1>1, <1>2, SixBytes
<1>4. /\ body[1] = unit /\ body[2] = fc /\ body[3] = ah /\ body[4] = al
      /\ body[5] = vh /\ body[6] = vl
    OBVIOUS
<1> HIDE DEF body
<1>5. FrameBytes(unit, fc, addr, value) = WithCrc(body)
    BY <1>3 DEF FrameBytes
<1>6. ASSUME NEW b, Begins(b, body) PROVE Fields(b, unit, fc, addr, value)
    <2>1. b \in Seq(Byte) /\ Len(b) = 8 /\ \A i \in 1 .. 6 : b[i] = body[i]
        BY <1>3, <1>6 DEF Begins
    <2> QED
        BY <1>4, <2>1 DEF Fields
<1> QED
    BY <1>3, <1>5, <1>6

LEMMA FrameIs ==
    ASSUME NEW unit \in Byte, NEW fc \in Byte, NEW addr \in Word, NEW value \in Word
    PROVE  LET f == FrameBytes(unit, fc, addr, value)
           IN  /\ Fields(f, unit, fc, addr, value) /\ IsFrame(f)
               /\ Fields(Sealed(f), unit, fc, addr, value)
               /\ IsFrame(Sealed(f)) <=> ~HasFault(faults, "crc_corrupt")
<1> DEFINE f == FrameBytes(unit, fc, addr, value)
<1>1. PICK body \in Seq(Byte) :
              /\ f = WithCrc(body)
              /\ \A b : Begins(b, body) => Fields(b, unit, fc, addr, value)
    BY FrameBody
<1> HIDE DEF f
<1>2. /\ Begins(f, body) /\ CrcHolds(f) /\ Begins(Sealed(f), body)
      /\ CrcHolds(Sealed(f)) <=> ~HasFault(faults, "crc_corrupt")
    BY <1>1, SealedIs
<1>3. Fields(f, unit, fc, addr, value) /\ Fields(Sealed(f), unit, fc, addr, value)
    BY <1>1, <1>2
<1>4. Len(f) = 8 /\ Len(Sealed(f)) = 8
    BY <1>3 DEF Fields
<1> QED
    BY <1>2, <1>3, <1>4 DEF IsFrame, f

LEMMA BytesAre ==
    ASSUME NEW S, NEW s \in Seq(S), NEW m \in Int, NEW k \in Nat, 1 <= m, m + k <= Len(s) + 1
    PROVE  /\ Bytes(s, m, k) \in Seq(S) /\ Len(Bytes(s, m, k)) = k
           /\ \A i \in 1 .. k : Bytes(s, m, k)[i] = s[m + i - 1]
<1> DEFINE n == m + k - 1
<1>1. n \in Int /\ m <= n + 1 /\ n <= Len(s) /\ n - m + 1 = k
    OBVIOUS
<1>2. Bytes(s, m, k) = SubSeq(s, m, n)
    BY DEF Bytes
<1> HIDE DEF n
<1> QED
    BY <1>1, <1>2, PartIs

LEMMA PairAt ==
    ASSUME NEW S, NEW s \in Seq(S), NEW m \in 1 .. Len(s) - 1
    PROVE  /\ Bytes(s, m, 2) \in Seq(S) /\ Len(Bytes(s, m, 2)) = 2
           /\ Bytes(s, m, 2)[1] = s[m] /\ Bytes(s, m, 2)[2] = s[m+1]
           /\ Int16(Bytes(s, m, 2)) = 256 * s[m] + s[m+1]
<1> DEFINE k == 2
           b == Bytes(s, m, k)
<1>1. m \in Int /\ k \in Nat /\ 1 <= m /\ m + k <= Len(s) + 1 /\ k = 2
    OBVIOUS
<1> HIDE DEF k
<1>2. /\ b \in Seq(S) /\ Len(b) = k
      /\ \A i \in 1 .. k : b[i] = s[m + i - 1]
    BY ONLY <1>1, s \in Seq(S), BytesAre
<1> HIDE DEF b
<1>3. b[1] = s[m] /\ b[2] = s[m+1]
    BY <1>1, <1>2
<1> QED
    BY <1>1, <1>2, <1>3 DEF b, Int16

LEMMA FieldsRead ==
    ASSUME NEW b, NEW unit \in Byte, NEW fc \in Byte, NEW addr \in Word, NEW value \in Word,
           Fields(b, unit, fc, addr, value)
    PROVE  FrameAddr(b) = addr /\ FrameValue(b) = value
<1>1. b \in Seq(Byte) /\ 3 \in 1 .. Len(b) - 1 /\ 5 \in 1 .. Len(b) - 1
    BY DEF Fields
<1>2. Int16(Bytes(b, 3, 2)) = 256 * b[3] + b[4]
    BY <1>1, PairAt
<1>3. Int16(Bytes(b, 5, 2)) = 256 * b[5] + b[6]
    BY <1>1, PairAt
<1> QED
    BY <1>2, <1>3, BytesOfWord DEF Fields, FrameAddr, FrameValue

(***************************************************************************)
(* Registers in a string of bytes, from the byte after `at`.               *)
(***************************************************************************)
Holds(b, at, words) ==
    \A k \in 1 .. Len(words) : /\ b[at + 2 * k - 1] = words[k] \div 256
                               /\ b[at + 2 * k] = words[k] % 256

LEMMA BlockIs ==
    ASSUME NEW words \in Seq(Word)
    PROVE  /\ RegisterBlock(words) \in Seq(Byte)
           /\ Len(RegisterBlock(words)) = 2 * Len(words)
           /\ Holds(RegisterBlock(words), 0, words)
<1> DEFINE n == Len(words)
           at(k) == U16(words[(k + 1) \div 2] % 65536)[IF k % 2 = 1 THEN 1 ELSE 2]
           b == RegisterBlock(words)
<1>1. n \in Nat /\ \A k \in 1 .. n : words[k] \in Word
    OBVIOUS
<1>2. ASSUME NEW v \in Word
      PROVE  v % 65536 = v /\ U16(v)[1] = v \div 256 /\ U16(v)[2] = v % 256
    <2>1. v \in Int /\ 0 <= v /\ v <= 65535
        BY IsWord
    <2>2. v % 65536 = v
        BY <2>1
    <2> QED
        BY <2>2 DEF U16
<1>3. \A k \in 1 .. 2 * n : (k + 1) \div 2 \in 1 .. n
    BY <1>1
<1>4. b = [k \in 1 .. 2 * n |-> at(k)]
    BY DEF RegisterBlock
<1>5. \A k \in 1 .. 2 * n : at(k) = IF k % 2 = 1 THEN words[(k + 1) \div 2] \div 256
                                                 ELSE words[(k + 1) \div 2] % 256
    BY <1>1, <1>2, <1>3
<1> HIDE DEF b, at
<1>6. \A k \in 1 .. 2 * n : at(k) \in Byte
    BY <1>1, <1>3, <1>5, BytesOfWord, SMTT(60)
<1>7. b \in Seq(Byte) /\ Len(b) = 2 * n
    BY <1>1, <1>4, <1>6
<1>8. ASSUME NEW k \in 1 .. n
      PROVE  b[0 + 2 * k - 1] = words[k] \div 256 /\ b[0 + 2 * k] = words[k] % 256
    <2>1. /\ 2 * k - 1 \in 1 .. 2 * n /\ (2 * k - 1) % 2 = 1 /\ ((2 * k - 1) + 1) \div 2 = k
          /\ 2 * k \in 1 .. 2 * n /\ (2 * k) % 2 # 1 /\ (2 * k + 1) \div 2 = k
          /\ 0 + 2 * k - 1 = 2 * k - 1 /\ 0 + 2 * k = 2 * k
        BY <1>1
    <2>2. at(2 * k - 1) = words[k] \div 256
        BY <1>5, <2>1
    <2>3. at(2 * k) = words[k] % 256
        BY <1>5, <2>1
    <2> QED
        BY <1>4, <2>1, <2>2, <2>3
<1> QED
    BY <1>7, <1>8 DEF Holds, b

LEMMA WordAt ==
    ASSUME NEW words \in Seq(Word), NEW b \in Seq(Byte), NEW at \in Nat, Holds(b, at, words),
           Len(b) >= at + 2 * Len(words), NEW k \in 1 .. Len(words)
    PROVE  Int16(Bytes(b, at + 2 * k - 1, 2)) = words[k]
<1> DEFINE m == at + 2 * k - 1
<1>1. m \in 1 .. Len(b) - 1 /\ m + 1 = at + 2 * k
    OBVIOUS
<1>2. b[m] = words[k] \div 256 /\ b[m+1] = words[k] % 256
    BY <1>1 DEF Holds
<1> HIDE DEF m
<1>3. Int16(Bytes(b, m, 2)) = 256 * b[m] + b[m+1]
    BY <1>1, PairAt
<1>4. words[k] \in Word
    OBVIOUS
<1> QED
    BY <1>2, <1>3, <1>4, BytesOfWord DEF m

LEMMA BlockDecoded ==
    ASSUME NEW words \in Seq(Word), NEW b \in Seq(Byte), Len(b) = 2 * Len(words),
           Holds(b, 0, words)
    PROVE  DecodeRegisterBlock(b) = words /\ BlockIsEven(b)
<1>1. Len(b) \div 2 = Len(words) /\ Len(b) % 2 = 0
    OBVIOUS
<1>2. \A k \in 1 .. Len(words) : Int16(Bytes(b, 0 + 2 * k - 1, 2)) = words[k]
    BY WordAt
<1>3. \A k \in 1 .. Len(words) : Int16(Bytes(b, 2 * k - 1, 2)) = words[k]
    BY <1>2
<1>4. DecodeRegisterBlock(b) = [k \in 1 .. Len(words) |-> Int16(Bytes(b, 2 * k - 1, 2))]
    BY <1>1 DEF DecodeRegisterBlock
<1>5. words = [k \in 1 .. Len(words) |-> words[k]]
    OBVIOUS
<1> QED
    BY <1>1, <1>3, <1>4, <1>5 DEF BlockIsEven

LEMMA DecodeRange ==
    ASSUME NEW b \in Seq(Byte)
    PROVE  DecodeRegisterBlock(b) \in Seq(Word) /\ Len(DecodeRegisterBlock(b)) = Len(b) \div 2
<1>1. \A k \in 1 .. Len(b) \div 2 : Int16(Bytes(b, 2 * k - 1, 2)) \in Word
    <2> SUFFICES ASSUME NEW k \in 1 .. Len(b) \div 2 PROVE Int16(Bytes(b, 2 * k - 1, 2)) \in Word
        OBVIOUS
    <2>1. 2 * k - 1 \in 1 .. Len(b) - 1
        OBVIOUS
    <2>2. b[2 * k - 1] \in Byte /\ b[(2 * k - 1) + 1] \in Byte
        BY <2>1
    <2> QED
        BY <2>1, <2>2, PairAt, WordOfBytes
<1> QED
    BY <1>1 DEF DecodeRegisterBlock

(***************************************************************************)
(* Read responses.                                                         *)
(***************************************************************************)
Readings(b, unit, fc, words) ==
    /\ b \in Seq(Byte) /\ Len(b) = 2 * Len(words) + 5
    /\ b[1] = unit /\ b[2] = fc /\ b[3] = 2 * Len(words)
    /\ Holds(b, 3, words)

LEMMA ReadBody ==
    ASSUME NEW unit \in Byte, NEW fc \in Byte, NEW words \in Seq(Word), 2 * Len(words) \in Byte
    PROVE  \E body \in Seq(Byte) :
              /\ ReadResponse(unit, fc, words) = WithCrc(body)
              /\ \A b : Begins(b, body) => Readings(b, unit, fc, words)
<1> DEFINE n == Len(words)
           head == <<unit, fc, 2 * Len(words)>>
           block == RegisterBlock(words)
           body == head \o block
<1>1. head \in Seq(Byte) /\ Len(head) = 3 /\ head[1] = unit /\ head[2] = fc /\ head[3] = 2 * n
    OBVIOUS
<1>2. block \in Seq(Byte) /\ Len(block) = 2 * n /\ Holds(block, 0, words) /\ n \in Nat
    BY BlockIs
<1>3. ReadResponse(unit, fc, words) = WithCrc(body)
    BY DEF ReadResponse
<1> HIDE DEF head, block
<1>4. /\ body \in Seq(Byte) /\ Len(body) = Len(head) + Len(block)
      /\ \A i \in 1 .. Len(head) + Len(block) :
            body[i] = IF i <= Len(head) THEN head[i] ELSE block[i - Len(head)]
    BY ONLY <1>1, <1>2, ConcatProperties
<1> HIDE DEF body, n
<1>5. ASSUME NEW b, Begins(b, body) PROVE Readings(b, unit, fc, words)
    <2>1. /\ b \in Seq(Byte) /\ Len(b) = 2 * n + 5
          /\ \A i \in 1 .. 2 * n + 3 : b[i] = body[i]
        BY <1>1, <1>2, <1>4, <1>5 DEF Begins
    <2>2. b[1] = unit /\ b[2] = fc /\ b[3] = 2 * n
        BY <1>1, <1>2, <1>4, <2>1
    <2>3. Holds(b, 3, words)
        <3> SUFFICES ASSUME NEW k \in 1 .. Len(words)
                     PROVE  b[3 + 2 * k - 1] = words[k] \div 256 /\ b[3 + 2 * k] = words[k] % 256
            BY DEF Holds
        <3>0. k \in 1 .. n
            BY DEF n
        <3> DEFINE p == 3 + 2 * k - 1
                   q == 3 + 2 * k
        <3>1. /\ p \in 1 .. 2 * n + 3 /\ p > 3 /\ p - 3 = 0 + 2 * k - 1
              /\ q \in 1 .. 2 * n + 3 /\ q > 3 /\ q - 3 = 0 + 2 * k
            BY <1>2, <3>0
        <3> HIDE DEF p, q
        <3>2. b[p] = block[p - 3] /\ b[q] = block[q - 3]
            BY <1>1, <1>2, <1>4, <2>1, <3>1
        <3> QED
            BY <1>2, <3>1, <3>2 DEF Holds, p, q
    <2> QED
        BY <2>1, <2>2, <2>3 DEF Readings, n
<1> QED
    BY <1>3, <1>4, <1>5

LEMMA ReadIs ==
    ASSUME NEW unit \in Byte, NEW fc \in Byte, NEW words \in Seq(Word), 2 * Len(words) \in Byte
    PROVE  LET r == ReadResponse(unit, fc, words)
           IN  /\ Readings(r, unit, fc, words) /\ CrcHolds(r)
               /\ Readings(Sealed(r), unit, fc, words)
               /\ CrcHolds(Sealed(r)) <=> ~HasFault(faults, "crc_corrupt")
<1> DEFINE r == ReadResponse(unit, fc, words)
<1>1. PICK body \in Seq(Byte) :
              /\ r = WithCrc(body)
              /\ \A b : Begins(b, body) => Readings(b, unit, fc, words)
    BY ReadBody
<1> HIDE DEF r
<1>2. /\ Begins(r, body) /\ CrcHolds(r) /\ Begins(Sealed(r), body)
      /\ CrcHolds(Sealed(r)) <=> ~HasFault(faults, "crc_corrupt")
    BY <1>1, SealedIs
<1>3. Readings(r, unit, fc, words) /\ Readings(Sealed(r), unit, fc, words)
    BY <1>1, <1>2
<1> QED
    BY <1>2, <1>3 DEF r

LEMMA ReadingsRead ==
    ASSUME NEW b, NEW unit \in Byte, NEW fc \in Byte, NEW words \in Seq(Word),
           Readings(b, unit, fc, words), CrcHolds(b)
    PROVE  IsReadResponse(b) /\ ReadResponseWords(b) = words
<1>1. b \in Seq(Byte) /\ Len(b) = 2 * Len(words) + 5 /\ b[3] = 2 * Len(words) /\ Holds(b, 3, words)
    BY DEF Readings
<1>2. Len(words) \in Nat
    OBVIOUS
<1>3. IsReadResponse(b)
    BY <1>1, <1>2 DEF IsReadResponse
<1>4. (b[3] + 1) \div 2 = Len(words) /\ Len(b) >= 3 + 2 * Len(words)
    BY <1>1, <1>2
<1>5. \A k \in 1 .. Len(words) : Int16(Bytes(b, 3 + 2 * k - 1, 2)) = words[k]
    BY <1>1, <1>4, WordAt
<1>6. \A k \in 1 .. Len(words) : 3 + 2 * k - 1 = 2 * k + 2
    BY <1>2
<1>7. \A k \in 1 .. Len(words) : Int16(Bytes(b, 2 * k + 2, 2)) = words[k]
    BY <1>5, <1>6
<1>8. ReadResponseWords(b) = [k \in 1 .. Len(words) |-> Int16(Bytes(b, 2 * k + 2, 2))]
    BY <1>4 DEF ReadResponseWords
<1>9. words = [k \in 1 .. Len(words) |-> words[k]]
    OBVIOUS
<1> QED
    BY <1>3, <1>7, <1>8, <1>9

(***************************************************************************)
(* Exceptions.                                                             *)
(***************************************************************************)
Refusing(b, fc, code) ==
    /\ b \in Seq(Byte) /\ Len(b) = 8
    /\ b[2] = fc + 128 /\ b[3] = code
    /\ IsExceptionFrame(b)

LEMMA ExceptionBody ==
    ASSUME NEW unit \in Byte, NEW fc \in Nat, fc < 128, NEW code \in Byte
    PROVE  \E body \in Seq(Byte) :
              /\ ExceptionFrame(unit, fc, code) = WithCrc(body)
              /\ \A b : Begins(b, body) => Refusing(b, fc, code)
<1> DEFINE body == <<unit, fc + 128, code, 0, 0, 0>>
<1>1. fc + 128 \in Byte /\ 0 \in Byte
    BY IsByte
<1>2. /\ body \in Seq(Byte) /\ Len(body) = 6
      /\ body[1] = unit /\ body[2] = fc + 128 /\ body[3] = code
    BY <1>1
<1>3. ExceptionFrame(unit, fc, code) = WithCrc(body)
    BY DEF ExceptionFrame
<1> HIDE DEF body
<1>4. ASSUME NEW b, Begins(b, body) PROVE Refusing(b, fc, code)
    <2>1. b \in Seq(Byte) /\ Len(b) = 8 /\ b[2] = body[2] /\ b[3] = body[3]
        BY <1>2, <1>4 DEF Begins
    <2> QED
        BY <1>2, <2>1 DEF Refusing, IsExceptionFrame
<1> QED
    BY <1>2, <1>3, <1>4

LEMMA ExceptionIs ==
    ASSUME NEW unit \in Byte, NEW fc \in Nat, fc < 128, NEW code \in Byte
    PROVE  LET e == ExceptionFrame(unit, fc, code)
           IN  /\ Refusing(e, fc, code) /\ CrcHolds(e)
               /\ Refusing(Sealed(e), fc, code)
               /\ CrcHolds(Sealed(e)) <=> ~HasFault(faults, "crc_corrupt")
<1> DEFINE e == ExceptionFrame(unit, fc, code)
<1>1. PICK body \in Seq(Byte) :
              /\ e = WithCrc(body)
              /\ \A b : Begins(b, body) => Refusing(b, fc, code)
    BY ExceptionBody
<1> HIDE DEF e
<1>2. /\ Begins(e, body) /\ CrcHolds(e) /\ Begins(Sealed(e), body)
      /\ CrcHolds(Sealed(e)) <=> ~HasFault(faults, "crc_corrupt")
    BY <1>1, SealedIs
<1>3. Refusing(e, fc, code) /\ Refusing(Sealed(e), fc, code)
    BY <1>1, <1>2
<1> QED
    BY <1>2, <1>3 DEF e

(***************************************************************************)
(* Whatever bytes arrive, what a client returns of them are words.         *)
(***************************************************************************)
LEMMA ResponseWordsType ==
    ASSUME NEW b \in Seq(Byte), IsReadResponse(b)
    PROVE  ReadResponseWords(b) \in Seq(Word) /\ Len(ReadResponseWords(b)) = (b[3] + 1) \div 2
<1>0. Len(b) >= 5 /\ Len(b) = 3 + b[3] + 2
    BY DEF IsReadResponse
<1>2. b[3] \in Nat
    <2>1. 3 \in 1 .. Len(b)
        BY <1>0
    <2>2. b[3] \in Byte
        BY <2>1
    <2> QED
        BY <2>2, IsByte
<1>1. Len(b) = b[3] + 5 /\ Len(b) >= 5
    BY <1>0, <1>2
<1>3. \A k \in 1 .. (b[3] + 1) \div 2 : Int16(Bytes(b, 2 * k + 2, 2)) \in Word
    <2> SUFFICES ASSUME NEW k \in 1 .. (b[3] + 1) \div 2 PROVE Int16(Bytes(b, 2 * k + 2, 2)) \in Word
        OBVIOUS
    <2>1. 2 * k + 2 \in 1 .. Len(b) - 1
        BY <1>1, <1>2
    <2>2. b[2 * k + 2] \in Byte /\ b[(2 * k + 2) + 1] \in Byte
        BY <2>1
    <2> QED
        BY <2>1, <2>2, PairAt, WordOfBytes
<1> QED
    BY <1>2, <1>3, SMTT(60) DEF ReadResponseWords

LEMMA InterpretedType ==
    ASSUME NEW req, NEW response \in Seq(Byte)
    PROVE  Interpreted(req, response).words \in Seq(Word)
<1>1. <<>> \in Seq(Word)
    OBVIOUS
<1>2. \A what : Raised(what).words = <<>>
    BY DEF Raised, NoResult
<1>3. IsReadResponse(response) => ReadResponseWords(response) \in Seq(Word)
    BY ResponseWordsType
<1>4. \A what, code : [Raised(what) EXCEPT !.code = code].words = <<>>
    BY DEF Raised, NoResult
<1>5. \A what, words : [Raised(what) EXCEPT !.words = words].words = words
    BY DEF Raised, NoResult
<1> QED
    BY <1>1, <1>2, <1>3, <1>4, <1>5, ZenonT(60) DEF Interpreted

LEMMA PduIs ==
    ASSUME NEW wire \in Seq(Byte), Len(wire) > 7
    PROVE  /\ MbapPdu(wire) \in Seq(Byte) /\ Len(MbapPdu(wire)) = Len(wire) - 7
           /\ \A i \in 1 .. Len(wire) - 7 : MbapPdu(wire)[i] = wire[7 + i]
<1> DEFINE n == Len(wire)
           s == 8
<1>1. s \in Int /\ n \in Int /\ 1 <= s /\ s <= n + 1 /\ n <= Len(wire) /\ s = 8
    OBVIOUS
<1>2. MbapPdu(wire) = SubSeq(wire, s, n)
    BY DEF MbapPdu
<1> HIDE DEF s, n
<1>3. /\ SubSeq(wire, s, n) \in Seq(Byte) /\ Len(SubSeq(wire, s, n)) = n - s + 1
      /\ \A i \in 1 .. n - s + 1 : SubSeq(wire, s, n)[i] = wire[s + i - 1]
    BY ONLY wire \in Seq(Byte), <1>1, PartIs
<1> QED
    BY <1>1, <1>2, <1>3 DEF n

LEMMA ResponseOfPduType ==
    ASSUME NEW unit \in Byte, NEW pdu \in Seq(Byte), pdu # <<>>, IsResponsePdu(pdu)
    PROVE  ResponseOfPdu(unit, pdu) \in Seq(Byte)
<1>1. Len(pdu) \in Nat /\ Len(pdu) >= 1 /\ \A i \in 1 .. Len(pdu) : pdu[i] \in Byte
    OBVIOUS
<1>2. pdu[1] \in Int /\ 0 <= pdu[1] /\ pdu[1] <= 255
    BY <1>1, IsByte
<1>0. pdu[1] \in Byte
    BY <1>1
<1>3. CASE pdu[1] >= 128
    <2>0. Len(pdu) >= 2
        BY ONLY <1>3, IsResponsePdu(pdu) DEF IsResponsePdu
    <2>1. pdu[2] \in Byte
        BY <1>1, <2>0
    <2>2. pdu[1] - 128 \in Nat /\ pdu[1] - 128 < 128
        BY <1>2, <1>3
    <2>3. ExceptionFrame(unit, pdu[1] - 128, pdu[2]) \in Seq(Byte)
        BY <2>1, <2>2, ExceptionIs, ZenonT(60) DEF Refusing
    <2> QED
        BY ONLY <1>3, <2>3 DEF ResponseOfPdu
<1>4. CASE ~(pdu[1] >= 128) /\ pdu[1] \in ReadBytes
    <2>1. Len(pdu) >= 2 /\ Len(pdu) >= 2 + pdu[2]
        BY ONLY <1>4, IsResponsePdu(pdu) DEF IsResponsePdu
    <2>0. pdu[2] \in Byte
        BY <1>1, <2>1
    <2>2. pdu[2] \in Nat
        BY <2>0, IsByte
    <2> DEFINE block == Bytes(pdu, 3, pdu[2])
    <2>3. block \in Seq(Byte) /\ Len(block) = pdu[2]
        <3> DEFINE n == pdu[2]
                   p == 3
        <3>1. p \in Int /\ n \in Nat /\ 1 <= p /\ p + n - 1 <= Len(pdu)
            BY <1>1, <2>1, <2>2
        <3>2. block = Bytes(pdu, p, n)
            OBVIOUS
        <3> HIDE DEF p, n, block
        <3>3. Bytes(pdu, p, n) \in Seq(Byte) /\ Len(Bytes(pdu, p, n)) = n
            BY <3>1, BytesAre
        <3> QED
            BY <3>2, <3>3 DEF n
    <2> DEFINE words == DecodeRegisterBlock(block)
    <2> HIDE DEF block
    <2>4. words \in Seq(Word) /\ Len(words) = pdu[2] \div 2
        BY <2>3, DecodeRange
    <2> HIDE DEF words
    <2>5. 2 * Len(words) \in Byte
        <3>1. pdu[2] <= 255
            BY <2>0, IsByte
        <3>2. 0 <= 2 * Len(words) /\ 2 * Len(words) <= 255 /\ 2 * Len(words) \in Int
            BY <2>2, <2>4, <3>1
        <3> QED
            BY <3>2, IsByte
    <2>6. Readings(ReadResponse(unit, pdu[1], words), unit, pdu[1], words)
        BY ONLY unit \in Byte, <1>0, <2>4, <2>5, ReadIs
    <2>7. ReadResponse(unit, pdu[1], words) \in Seq(Byte)
        BY <2>6 DEF Readings
    <2>8. words = DecodeRegisterBlock(Bytes(pdu, 3, pdu[2]))
        BY DEF words, block
    <2> QED
        BY ONLY <1>4, <2>7, <2>8 DEF ResponseOfPdu
<1>5. CASE ~(pdu[1] >= 128) /\ pdu[1] \notin ReadBytes
    <2>1. Len(pdu) >= 5
        BY ONLY <1>5, IsResponsePdu(pdu) DEF IsResponsePdu
    <2>2. Int16(Bytes(pdu, 2, 2)) \in Word /\ Int16(Bytes(pdu, 4, 2)) \in Word
        <3>1. 2 \in 1 .. Len(pdu) - 1 /\ 4 \in 1 .. Len(pdu) - 1
            BY <1>1, <2>1
        <3>2. pdu[2] \in Byte /\ pdu[3] \in Byte /\ pdu[4] \in Byte /\ pdu[5] \in Byte
            BY <1>1, <2>1
        <3>3. Int16(Bytes(pdu, 2, 2)) = 256 * pdu[2] + pdu[3]
            BY <3>1, PairAt
        <3>4. Int16(Bytes(pdu, 4, 2)) = 256 * pdu[4] + pdu[5]
            BY <3>1, PairAt
        <3> QED
            BY <3>2, <3>3, <3>4, WordOfBytes
    <2> DEFINE addr  == Int16(Bytes(pdu, 2, 2))
               value == Int16(Bytes(pdu, 4, 2))
    <2>3. addr \in Word /\ value \in Word
        BY <2>2
    <2>4. ResponseOfPdu(unit, pdu) = FrameBytes(unit, pdu[1], addr, value)
        BY ONLY <1>5 DEF ResponseOfPdu
    <2> HIDE DEF addr, value
    <2>5. Fields(FrameBytes(unit, pdu[1], addr, value), unit, pdu[1], addr, value)
        BY ONLY unit \in Byte, <1>0, <2>3, FrameIs
    <2> QED
        BY <2>4, <2>5 DEF Fields
<1> QED
    BY <1>3, <1>4, <1>5

LEMMA OutcomeType ==
    ASSUME NEW req, NEW wire \in Seq(Byte)
    PROVE  Outcome(req, wire).words \in Seq(Word)
<1>1. \A what : Raised(what).words \in Seq(Word)
    BY DEF Raised, NoResult
<1>2. CASE ~Tcp
    BY <1>2, InterpretedType DEF Outcome
<1>3. CASE Tcp /\ IsMbap(wire) /\ IsResponsePdu(MbapPdu(wire))
    <2>1. Len(wire) > 7
        BY <1>3 DEF IsMbap
    <2>2. MbapPdu(wire) \in Seq(Byte) /\ MbapPdu(wire) # <<>>
        BY <2>1, PduIs
    <2>3. MbapUnit(wire) \in Byte
        BY <2>1 DEF MbapUnit
    <2>4. ResponseOfPdu(MbapUnit(wire), MbapPdu(wire)) \in Seq(Byte)
        BY <1>3, <2>2, <2>3, ResponseOfPduType
    <2> QED
        BY <1>1, <1>3, <2>4, InterpretedType DEF Outcome
<1>4. CASE Tcp /\ ~(IsMbap(wire) /\ IsResponsePdu(MbapPdu(wire)))
    BY <1>1, <1>4 DEF Outcome
<1> QED
    BY <1>2, <1>3, <1>4

(***************************************************************************)
(* Modbus TCP messages.                                                    *)
(***************************************************************************)
\* m spells s and then t.
Joins(m, s, t) ==
    /\ Len(m) = Len(s) + Len(t)
    /\ \A i \in 1 .. Len(s) : m[i] = s[i]
    /\ \A i \in 1 .. Len(t) : m[Len(s) + i] = t[i]

LEMMA Joined ==
    ASSUME NEW S, NEW s \in Seq(S), NEW t \in Seq(S)
    PROVE  s \o t \in Seq(S) /\ Joins(s \o t, s, t)
<1>1. /\ s \o t \in Seq(S)
      /\ Len(s \o t) = Len(s) + Len(t)
      /\ \A i \in 1 .. Len(s) + Len(t) : (s \o t)[i] = IF i <= Len(s) THEN s[i] ELSE t[i - Len(s)]
    BY ConcatProperties
<1>2. Len(s) \in Nat /\ Len(t) \in Nat
    OBVIOUS
<1>3. ASSUME NEW i \in 1 .. Len(t) PROVE (s \o t)[Len(s) + i] = t[i]
    <2>1. Len(s) + i \in 1 .. Len(s) + Len(t) /\ ~(Len(s) + i <= Len(s)) /\ (Len(s) + i) - Len(s) = i
        BY <1>2
    <2> QED
        BY <1>1, <2>1
<1> QED
    BY <1>1, <1>2, <1>3 DEF Joins

\* The seven bytes before the PDU.
Heads(h, txid, unit, n) ==
    /\ h \in Seq(Byte) /\ Len(h) = 7
    /\ h[1] = txid \div 256 /\ h[2] = txid % 256
    /\ h[3] = 0 /\ h[4] = 0
    /\ h[5] = n \div 256 /\ h[6] = n % 256
    /\ h[7] = unit

LEMMA MbapHead ==
    ASSUME NEW txid \in Word, NEW unit \in Byte, NEW n \in Word
    PROVE  Heads(U16(txid) \o U16(0) \o U16(n) \o <<unit>>, txid, unit, n)
<1> DEFINE t1 == txid \div 256
           t2 == txid % 256
           z  == 0 \div 256
           y  == 0 % 256
           l1 == n \div 256
           l2 == n % 256
           six == <<t1, t2, z, y, l1, l2>>
           u   == <<unit>>
<1>1. t1 \in Byte /\ t2 \in Byte /\ l1 \in Byte /\ l2 \in Byte
    BY BytesOfWord
<1>2. z = 0 /\ y = 0 /\ z \in Byte /\ y \in Byte
    BY IsByte
<1>3. U16(txid) = <<t1, t2>> /\ U16(0) = <<z, y>> /\ U16(n) = <<l1, l2>>
    BY DEF U16
<1>4. /\ six \in Seq(Byte) /\ Len(six) = 6
      /\ U16(txid) \o U16(0) \o U16(n) = six
    <2>1. z \in Byte /\ y \in Byte
        BY <1>2
    <2> HIDE DEF t1, t2, z, y, l1, l2
    <2>2. /\ <<t1, t2, z, y, l1, l2>> \in Seq(Byte) /\ Len(<<t1, t2, z, y, l1, l2>>) = 6
          /\ <<t1, t2>> \o <<z, y>> \o <<l1, l2>> = <<t1, t2, z, y, l1, l2>>
        BY ONLY <1>1, <2>1, SixBytes
    <2> QED
        BY ONLY <2>2, <1>3
<1>5. six[1] = t1 /\ six[2] = t2 /\ six[3] = z /\ six[4] = y /\ six[5] = l1 /\ six[6] = l2
    OBVIOUS
<1>6. u \in Seq(Byte) /\ Len(u) = 1 /\ u[1] = unit
    OBVIOUS
<1> HIDE DEF six, u
<1>7. six \o u \in Seq(Byte) /\ Joins(six \o u, six, u)
    BY ONLY <1>4, <1>6, Joined
<1>8. U16(txid) \o U16(0) \o U16(n) \o <<unit>> = six \o u
    BY <1>4 DEF u
<1> DEFINE h == six \o u
<1>9. h[7] = unit /\ Len(h) = 7 /\ \A i \in 1 .. 6 : h[i] = six[i]
    <2>1. (six \o u)[6 + 1] = u[1]
        BY <1>4, <1>6, <1>7 DEF Joins
    <2> QED
        BY <1>4, <1>6, <1>7, <2>1, SMTT(60) DEF Joins
<1>10. h \in Seq(Byte)
    BY <1>7
<1> HIDE DEF h
<1>11. Heads(h, txid, unit, n)
    BY <1>2, <1>5, <1>9, <1>10 DEF Heads
<1> QED
    BY <1>8, <1>11 DEF h

LEMMA MbapRead ==
    ASSUME NEW m \in Seq(Byte), Len(m) >= 8, NEW txid \in Word, NEW unit, NEW h,
           Heads(h, txid, unit, Len(m) - 6), Len(m) - 6 \in Word,
           \A i \in 1 .. 7 : m[i] = h[i]
    PROVE  /\ IsMbap(m) /\ MbapTxid(m) = txid /\ MbapUnit(m) = unit
           /\ 256 * m[5] + m[6] = Len(m) - 6
<1> DEFINE n == Len(m) - 6
<1>1. /\ m[1] = txid \div 256 /\ m[2] = txid % 256
      /\ m[3] = 0 /\ m[4] = 0
      /\ m[5] = n \div 256 /\ m[6] = n % 256
      /\ m[7] = unit
    BY SMTT(60) DEF Heads
<1>2. 256 * (n \div 256) + (n % 256) = n /\ 256 * (txid \div 256) + (txid % 256) = txid
    BY BytesOfWord, SMTT(60)
<1> HIDE DEF n
<1>3. 1 \in 1 .. Len(m) - 1 /\ 3 \in 1 .. Len(m) - 1 /\ 5 \in 1 .. Len(m) - 1
    OBVIOUS
<1>4. Int16(Bytes(m, 1, 2)) = 256 * m[1] + m[2]
    BY <1>3, PairAt
<1>5. Int16(Bytes(m, 5, 2)) = 256 * m[5] + m[6]
    BY <1>3, PairAt
<1>6. Bytes(m, 3, 2) = U16(0)
    <2>1. /\ Bytes(m, 3, 2) \in Seq(Byte) /\ Len(Bytes(m, 3, 2)) = 2
          /\ Bytes(m, 3, 2)[1] = m[3] /\ Bytes(m, 3, 2)[2] = m[4]
        BY <1>3, PairAt
    <2>2. 0 \in Word
        BY IsWord
    <2>3. U16(0) \in Seq(Byte) /\ Len(U16(0)) = 2 /\ U16(0)[1] = 0 /\ U16(0)[2] = 0
        BY <2>2, TwoBytes, SMTT(60)
    <2> QED
        BY <1>1, <2>1, <2>3, SamePair, SMTT(60)
<1>7. Int16(Bytes(m, 5, 2)) = n
    BY <1>1, <1>2, <1>5
<1>8. Int16(Bytes(m, 5, 2)) = Len(m) - 6
    BY <1>7 DEF n
<1>9. IsMbap(m)
    BY <1>6, <1>8 DEF IsMbap
<1>10. MbapTxid(m) = txid
    BY <1>1, <1>2, <1>4 DEF MbapTxid
<1>11. MbapUnit(m) = unit
    BY <1>1 DEF MbapUnit
<1> QED
    BY <1>1, <1>2, <1>9, <1>10, <1>11 DEF n

\* What a message says that carries the PDU.
MbapSays(m, txid, unit, pdu) ==
    /\ m \in Seq(Byte) /\ Len(m) = 7 + Len(pdu)
    /\ IsMbap(m) /\ MbapTxid(m) = txid /\ MbapUnit(m) = unit /\ MbapPdu(m) = pdu
    /\ 256 * m[5] + m[6] = Len(m) - 6

LEMMA MbapIs ==
    ASSUME NEW txid \in Word, NEW unit \in Byte, NEW pdu \in Seq(Byte), pdu # <<>>,
           1 + Len(pdu) \in Word
    PROVE  MbapSays(Mbap(txid, unit, pdu), txid, unit, pdu)
<1> DEFINE n == 1 + Len(pdu)
           head == U16(txid) \o U16(0) \o U16(n) \o <<unit>>
           m == head \o pdu
<1>1. Len(pdu) \in Nat /\ Len(pdu) >= 1
    OBVIOUS
<1>2. Heads(head, txid, unit, n)
    BY MbapHead
<1>3. Mbap(txid, unit, pdu) = m
    BY DEF Mbap
<1> HIDE DEF head
<1>4. head \in Seq(Byte) /\ Len(head) = 7
    BY <1>2 DEF Heads
<1>5. head \o pdu \in Seq(Byte) /\ Joins(head \o pdu, head, pdu)
    BY ONLY <1>4, pdu \in Seq(Byte), Joined
<1>6. /\ m \in Seq(Byte) /\ Len(m) = 7 + Len(pdu)
      /\ \A i \in 1 .. 7 : m[i] = head[i]
      /\ \A i \in 1 .. Len(pdu) : m[7 + i] = pdu[i]
    BY <1>4, <1>5 DEF Joins
<1> HIDE DEF m
<1>7. Len(m) >= 8 /\ Len(m) - 6 = n /\ Len(m) > 7 /\ Len(m) - 7 = Len(pdu)
    BY <1>1, <1>6
<1>8. n \in Word
    OBVIOUS
<1> HIDE DEF n
<1>9. /\ IsMbap(m) /\ MbapTxid(m) = txid /\ MbapUnit(m) = unit
      /\ 256 * m[5] + m[6] = Len(m) - 6
    <2>1. Heads(head, txid, unit, Len(m) - 6) /\ Len(m) - 6 \in Word
        BY <1>2, <1>7, <1>8
    <2> QED
        BY ONLY txid \in Word, <1>6, <1>7, <2>1, MbapRead, ZenonT(60)
<1>10. MbapPdu(m) = pdu
    <2>1. /\ MbapPdu(m) \in Seq(Byte) /\ Len(MbapPdu(m)) = Len(m) - 7
          /\ \A i \in 1 .. Len(m) - 7 : MbapPdu(m)[i] = m[7 + i]
        BY <1>6, <1>7, PduIs
    <2> QED
        BY <1>6, <1>7, <2>1, SeqEqual
<1> QED
    BY <1>3, <1>6, <1>9, <1>10 DEF MbapSays

LEMMA WholePart ==
    ASSUME NEW S, NEW s \in Seq(S)
    PROVE  SubSeq(s, 1, Len(s)) = s
<1> DEFINE m == 1
           n == Len(s)
<1>1. m \in Int /\ n \in Int /\ 1 <= m /\ m <= n + 1 /\ n <= Len(s) /\ m = 1 /\ n - m + 1 = Len(s)
    OBVIOUS
<1>2. SubSeq(s, 1, Len(s)) = SubSeq(s, m, n)
    OBVIOUS
<1> HIDE DEF m, n
<1>3. /\ SubSeq(s, m, n) \in Seq(S) /\ Len(SubSeq(s, m, n)) = n - m + 1
      /\ \A i \in 1 .. n - m + 1 : SubSeq(s, m, n)[i] = s[m + i - 1]
    BY <1>1, PartIs
<1>4. \A i \in 1 .. Len(s) : SubSeq(s, m, n)[i] = s[i]
    BY <1>1, <1>3
<1>5. SubSeq(s, m, n) = s
    BY <1>1, <1>3, <1>4, SeqEqual
<1> QED
    BY <1>2, <1>5

LEMMA Parted ==
    ASSUME NEW S, NEW s \in Seq(S), NEW t \in Seq(S)
    PROVE  SubSeq(s \o t, 1, Len(s)) = s /\ SubSeq(s \o t, Len(s) + 1, Len(s \o t)) = t
<1> DEFINE w == s \o t
           k == Len(s)
<1>0. k = Len(s)
    OBVIOUS
<1>1. w \in Seq(S) /\ Joins(w, s, t) /\ k \in Nat
    BY Joined
<1> HIDE DEF w, k
<1>2. Len(w) = k + Len(t) /\ Len(t) \in Nat /\ Len(w) \in Nat
    BY <1>0, <1>1 DEF Joins
<1>3. SubSeq(w, 1, k) = s
    <2> DEFINE m == 1
    <2>1. m \in Int /\ k \in Int /\ 1 <= m /\ m <= k + 1 /\ k <= Len(w) /\ m = 1
        BY <1>1, <1>2
    <2> HIDE DEF m
    <2>2. /\ SubSeq(w, m, k) \in Seq(S) /\ Len(SubSeq(w, m, k)) = k - m + 1
          /\ \A i \in 1 .. k - m + 1 : SubSeq(w, m, k)[i] = w[m + i - 1]
        BY <1>1, <2>1, PartIs
    <2>3. Len(SubSeq(w, m, k)) = Len(s) /\ \A i \in 1 .. Len(s) : SubSeq(w, m, k)[i] = s[i]
        BY <1>0, <1>1, <2>1, <2>2 DEF Joins
    <2>4. SubSeq(w, m, k) = s
        BY <2>2, <2>3, SeqEqual
    <2> QED
        BY <2>1, <2>4
<1>4. SubSeq(w, k + 1, Len(w)) = t
    <2> DEFINE m == k + 1
               n == Len(w)
    <2>1. m \in Int /\ n \in Int /\ 1 <= m /\ m <= n + 1 /\ n <= Len(w) /\ m = k + 1 /\ n - m + 1 = Len(t)
        BY <1>1, <1>2
    <2> HIDE DEF m, n
    <2>2. /\ SubSeq(w, m, n) \in Seq(S) /\ Len(SubSeq(w, m, n)) = n - m + 1
          /\ \A i \in 1 .. n - m + 1 : SubSeq(w, m, n)[i] = w[m + i - 1]
        BY <1>1, <2>1, PartIs
    <2>3. \A i \in 1 .. Len(t) : SubSeq(w, m, n)[i] = t[i]
        <3> SUFFICES ASSUME NEW i \in 1 .. Len(t) PROVE SubSeq(w, m, n)[i] = t[i]
            OBVIOUS
        <3>1. m + i - 1 = k + i
            BY <1>1, <1>2, <2>1
        <3> QED
            BY <1>0, <1>1, <2>1, <2>2, <3>1 DEF Joins
    <2>4. SubSeq(w, m, n) = t
        BY <2>1, <2>2, <2>3, SeqEqual
    <2> QED
        BY <2>1, <2>4 DEF n
<1> QED
    BY <1>3, <1>4 DEF w, k

(***************************************************************************)
(* Requests.                                                               *)
(***************************************************************************)
Sendable(req) == req \in Requests[framing] /\ Encodable(req) /\ Packable(req)

\* What a client asks, field by field.
Asks(req) ==
    /\ req \in RequestType /\ req.intact /\ req.even
    /\ req.unit \in Byte /\ req.fc \in DOMAIN CodeOf
    /\ req.addr \in Word /\ req.qty \in Word /\ req.block \in Seq(Word)
    /\ req.fc # "WRITE_MULTIPLE_REGISTERS" => req.block = <<>>

LEMMA AsksIs ==
    ASSUME framing \in {"custom", "modbus-tcp"}, NEW req, Sendable(req)
    PROVE  Asks(req)
BY RequestsAssumption DEF Sendable, Asks, Encodable, RequestType

LEMMA Codes ==
    ASSUME NEW fc \in DOMAIN CodeOf
    PROVE  /\ CodeOf[fc] \in Byte /\ CodeOf[fc] < 128 /\ NameOf(CodeOf[fc]) = fc
           /\ CodeOf[fc] = WriteMultiple <=> fc = "WRITE_MULTIPLE_REGISTERS"
           /\ CodeOf[fc] \in ReadBytes <=> fc \in ReadCodes
           /\ fc \in ReadCodes \/ fc \in WriteCodes
           /\ ~(fc \in ReadCodes /\ fc \in WriteCodes)
<1>1. DOMAIN CodeOf = {"READ_HOLDING_REGISTERS", "READ_INPUT_REGISTERS",
                       "WRITE_SINGLE_REGISTER", "WRITE_MULTIPLE_REGISTERS"}
    BY DEF CodeOf
<1>2. /\ CodeOf["READ_HOLDING_REGISTERS"] = 3 /\ CodeOf["READ_INPUT_REGISTERS"] = 4
      /\ CodeOf["WRITE_SINGLE_REGISTER"] = 6 /\ CodeOf["WRITE_MULTIPLE_REGISTERS"] = 16
    BY DEF CodeOf
<1>3. \A name \in DOMAIN CodeOf : CodeOf[name] = CodeOf[fc] => name = fc
    BY <1>1, <1>2
<1>4. NameOf(CodeOf[fc]) = fc
    BY <1>3 DEF NameOf
<1>5. 3 \in Byte /\ 4 \in Byte /\ 6 \in Byte /\ 16 \in Byte
    BY IsByte
<1> QED
    BY <1>1, <1>2, <1>4, <1>5 DEF WriteMultiple, ReadBytes, ReadCodes, WriteCodes

LEMMA RequestFrameIs ==
    ASSUME NEW req, Asks(req)
    PROVE  /\ Fields(RequestFrame(req), req.unit, CodeOf[req.fc], req.addr, req.qty)
           /\ IsFrame(RequestFrame(req))
<1>1. req.unit \in Byte /\ req.fc \in DOMAIN CodeOf /\ req.addr \in Word /\ req.qty \in Word
    BY DEF Asks
<1>2. CodeOf[req.fc] \in Byte
    BY <1>1, Codes
<1>3. RequestFrame(req) = FrameBytes(req.unit, CodeOf[req.fc], req.addr, req.qty)
    BY DEF RequestFrame
<1> QED
    BY <1>1, <1>2, <1>3, FrameIs

LEMMA DecodedIs ==
    ASSUME NEW req, Asks(req)
    PROVE  Decoded(RequestFrame(req), RegisterBlock(req.block)) = req
<1> DEFINE f == RequestFrame(req)
           b == RegisterBlock(req.block)
           code == CodeOf[req.fc]
<1>1. /\ req.unit \in Byte /\ req.fc \in DOMAIN CodeOf /\ req.addr \in Word /\ req.qty \in Word
      /\ req.block \in Seq(Word)
    BY DEF Asks
<1>2. Fields(f, req.unit, code, req.addr, req.qty) /\ IsFrame(f) /\ code \in Byte /\ NameOf(code) = req.fc
    BY <1>1, RequestFrameIs, Codes
<1>3. FrameAddr(f) = req.addr /\ FrameValue(f) = req.qty
    BY <1>1, <1>2, FieldsRead
<1>4. DecodeRegisterBlock(b) = req.block /\ BlockIsEven(b)
    BY <1>1, BlockIs, BlockDecoded
<1>5. f[1] = req.unit /\ NameOf(f[2]) = req.fc
    BY <1>2 DEF Fields
<1> HIDE DEF f, b
<1>6. Decoded(f, b) = [Frame(req.unit, req.fc, req.addr, req.qty) EXCEPT
                          !.block = req.block, !.even = TRUE]
    BY <1>2, <1>3, <1>4, <1>5 DEF Decoded, BlockIsEven
<1>7. Decoded(f, b) = req
    BY <1>6, ZenonT(60) DEF Frame, Asks, RequestType
<1> QED
    BY <1>7 DEF f, b

\* The PDU of a request, and what the server rebuilds of it.
Rebuilds(pdu, req) ==
    /\ pdu \in Seq(Byte) /\ pdu # <<>> /\ 1 + Len(pdu) \in Word
    /\ IsRequestPdu(pdu)
    /\ RequestOfPdu(req.unit, pdu) = RequestFrame(req)
    /\ PayloadOfPdu(pdu) = RegisterBlock(req.block)

LEMMA EmptyBlock == RegisterBlock(<<>>) = <<>>
<1>1. <<>> \in Seq(Word) /\ Len(<<>>) = 0
    OBVIOUS
<1>2. RegisterBlock(<<>>) \in Seq(Byte) /\ Len(RegisterBlock(<<>>)) = 2 * 0
    BY <1>1, BlockIs
<1> QED
    BY <1>2

\* The first five bytes are those of the frame.
LEMMA PduNames ==
    ASSUME NEW unit, NEW code, NEW addr \in Word, NEW value \in Word,
           NEW f, Fields(f, unit, code, addr, value),
           NEW pdu \in Seq(Byte), Len(pdu) >= 5, \A i \in 1 .. 5 : pdu[i] = f[1 + i]
    PROVE  pdu[1] = code /\ Int16(Bytes(pdu, 2, 2)) = addr /\ Int16(Bytes(pdu, 4, 2)) = value
<1>1. f[2] = code /\ 256 * f[3] + f[4] = addr /\ 256 * f[5] + f[6] = value
    BY BytesOfWord DEF Fields
<1>2. pdu[1] = f[2] /\ pdu[2] = f[3] /\ pdu[3] = f[4] /\ pdu[4] = f[5] /\ pdu[5] = f[6]
    OBVIOUS
<1>3. 2 \in 1 .. Len(pdu) - 1 /\ 4 \in 1 .. Len(pdu) - 1
    OBVIOUS
<1>4. Int16(Bytes(pdu, 2, 2)) = 256 * pdu[2] + pdu[3]
    BY <1>3, PairAt
<1>5. Int16(Bytes(pdu, 4, 2)) = 256 * pdu[4] + pdu[5]
    BY <1>3, PairAt
<1> QED
    BY <1>1, <1>2, <1>4, <1>5

LEMMA RequestNames ==
    ASSUME NEW req, Asks(req), NEW pdu \in Seq(Byte), Len(pdu) >= 5,
           \A i \in 1 .. 5 : pdu[i] = RequestFrame(req)[1 + i]
    PROVE  pdu[1] = CodeOf[req.fc] /\ RequestOfPdu(req.unit, pdu) = RequestFrame(req)
<1>1. Fields(RequestFrame(req), req.unit, CodeOf[req.fc], req.addr, req.qty)
    BY RequestFrameIs
<1>2. req.addr \in Word /\ req.qty \in Word
    BY DEF Asks
<1>3. /\ pdu[1] = CodeOf[req.fc]
      /\ Int16(Bytes(pdu, 2, 2)) = req.addr /\ Int16(Bytes(pdu, 4, 2)) = req.qty
    BY <1>1, <1>2, PduNames
<1> QED
    BY ONLY <1>3 DEF RequestOfPdu, RequestFrame

LEMMA RequestPduIs ==
    ASSUME NEW req, Asks(req), PduFits(RegisterBlock(req.block))
    PROVE  Rebuilds(RequestPdu(RequestFrame(req), RegisterBlock(req.block)), req)
<1> DEFINE f == RequestFrame(req)
           b == RegisterBlock(req.block)
           pdu == RequestPdu(f, b)
           head == Bytes(f, 2, 5)
           many == <<Len(b)>>
           tail == many \o b
<1>1. Fields(f, req.unit, CodeOf[req.fc], req.addr, req.qty)
    BY RequestFrameIs
<1>2. b \in Seq(Byte) /\ Len(b) \in Nat /\ Len(b) <= 255
    BY BlockIs DEF Asks, PduFits
<1>3. f \in Seq(Byte) /\ Len(f) = 8 /\ f[2] = CodeOf[req.fc]
    BY <1>1 DEF Fields
<1>4. CodeOf[req.fc] = WriteMultiple <=> req.fc = "WRITE_MULTIPLE_REGISTERS"
    BY Codes DEF Asks
<1>5. pdu = head \o (IF f[2] # WriteMultiple THEN <<>> ELSE tail)
    BY DEF RequestPdu
<1>6. head \in Seq(Byte) /\ Len(head) = 5 /\ \A i \in 1 .. 5 : head[i] = f[1 + i]
    <2> DEFINE p == 2
               n == 5
    <2>1. p \in Int /\ n \in Nat /\ 1 <= p /\ p + n <= Len(f) + 1 /\ p = 2 /\ n = 5
        BY <1>3
    <2> HIDE DEF p, n, f
    <2>2. /\ Bytes(f, p, n) \in Seq(Byte) /\ Len(Bytes(f, p, n)) = n
          /\ \A i \in 1 .. n : Bytes(f, p, n)[i] = f[p + i - 1]
        BY <1>3, <2>1, BytesAre, ZenonT(60)
    <2>3. \A i \in 1 .. 5 : 2 + i - 1 = 1 + i
        OBVIOUS
    <2> QED
        BY <2>1, <2>2, <2>3
<1>7. Len(b) \in Byte
    BY <1>2, IsByte
<1>8. many \in Seq(Byte) /\ Len(many) = 1 /\ many[1] = Len(b)
    BY <1>7
<1> HIDE DEF f, b, pdu, head, many
<1>9. tail \in Seq(Byte) /\ Joins(tail, many, b)
    BY <1>2, <1>8, Joined
<1> HIDE DEF tail
<1>10. CASE req.fc # "WRITE_MULTIPLE_REGISTERS"
    <2>0. pdu = head \o <<>>
        BY <1>3, <1>4, <1>5, <1>10
    <2>1. pdu = head
        BY <1>6, <2>0, ConcatEmptySeq
    <2>2. pdu \in Seq(Byte) /\ Len(pdu) = 5 /\ \A i \in 1 .. 5 : pdu[i] = f[1 + i]
        BY ONLY <1>6, <2>1
    <2>3. pdu[1] = CodeOf[req.fc] /\ RequestOfPdu(req.unit, pdu) = f
        BY <2>2, RequestNames DEF f
    <2>4. PayloadOfPdu(pdu) = b
        BY <1>4, <1>10, <2>3, EmptyBlock DEF PayloadOfPdu, Asks, b
    <2>5. pdu[1] # WriteMultiple
        BY <1>4, <1>10, <2>3
    <2>6. IsRequestPdu(pdu)
        BY ONLY <2>2, <2>5 DEF IsRequestPdu
    <2>7. pdu # <<>> /\ 1 + Len(pdu) \in Word
        <3> DEFINE n == 1 + Len(pdu)
        <3>0. Len(pdu) = 5
            BY ONLY <2>2
        <3>1. n \in Int /\ 0 <= n /\ n <= 65535
            BY ONLY <3>0
        <3>3. pdu # <<>>
            BY ONLY <3>0
        <3> HIDE DEF n
        <3>2. n \in Word
            BY <3>1, IsWord
        <3> QED
            BY <3>2, <3>3 DEF n
    <2> QED
        BY <2>2, <2>3, <2>4, <2>6, <2>7 DEF Rebuilds, f, b, pdu
<1>11. CASE req.fc = "WRITE_MULTIPLE_REGISTERS"
    <2>1. pdu = head \o tail
        BY <1>3, <1>4, <1>5, <1>11
    <2>2. pdu \in Seq(Byte) /\ Joins(pdu, head, tail)
        BY <1>6, <1>9, <2>1, Joined
    <2>3. Len(tail) = 1 + Len(b) /\ tail[1] = Len(b)
        BY <1>8, <1>9 DEF Joins
    <2>4. Len(pdu) = 6 + Len(b) /\ \A i \in 1 .. 5 : pdu[i] = f[1 + i]
        BY <1>2, <1>6, <2>2, <2>3 DEF Joins
    <2>5. pdu[6] = Len(b)
        <3>1. pdu[5 + 1] = tail[1]
            BY <1>2, <1>6, <2>2, <2>3 DEF Joins
        <3> QED
            BY <2>3, <3>1
    <2>6. pdu[1] = CodeOf[req.fc] /\ RequestOfPdu(req.unit, pdu) = f
        BY <1>2, <2>2, <2>4, RequestNames, SMTT(60) DEF f
    <2>7. IsRequestPdu(pdu)
        BY <1>2, <2>4, <2>5 DEF IsRequestPdu
    <2>8. SubSeq(pdu, 7, Len(pdu)) = b
        <3> DEFINE lead == head \o many
        <3>1. lead \in Seq(Byte) /\ Joins(lead, head, many)
            BY <1>6, <1>8, Joined
        <3>2. Len(lead) = 6
            BY <1>6, <1>8, <3>1 DEF Joins
        <3>3. pdu = lead \o b
            <4>1. tail = many \o b
                BY DEF tail
            <4>2. head \in Seq(Byte) /\ many \in Seq(Byte) /\ b \in Seq(Byte)
                BY <1>2, <1>6, <1>8
            <4>3. (head \o many) \o b = head \o (many \o b)
                BY ONLY <4>2, ConcatAssociative
            <4> QED
                BY <2>1, <4>1, <4>3
        <3> HIDE DEF lead
        <3>4. lead \in Seq(Byte) /\ b \in Seq(Byte)
            BY <1>2, <3>1
        <3>5. SubSeq(lead \o b, Len(lead) + 1, Len(lead \o b)) = b
            BY ONLY <3>4, Parted
        <3>6. Len(lead) + 1 = 7
            BY ONLY <3>2
        <3> QED
            BY ONLY <3>3, <3>5, <3>6
    <2>9. PayloadOfPdu(pdu) = b
        BY <1>4, <1>11, <2>6, <2>8 DEF PayloadOfPdu
    <2>10. pdu # <<>> /\ 1 + Len(pdu) \in Word
        BY <1>2, <2>2, <2>4, IsWord
    <2> QED
        BY <2>2, <2>6, <2>7, <2>9, <2>10 DEF Rebuilds, f, b, pdu
<1> QED
    BY <1>10, <1>11

\* A wire message as the reader of a stream expects it.
Carried(wire) ==
    /\ wire \in Seq(Byte)
    /\ IF Tcp THEN Len(wire) >= 7 /\ 256 * wire[5] + wire[6] = Len(wire) - 6
       ELSE Len(wire) \in Word

\* The wire message of a request, and what the server makes of it.
Understood(w, req) ==
    /\ Carried(w) /\ Parses(w)
    /\ Request(w) = RequestFrame(req)
    /\ Decoded(Request(w), Payload(w)) = req
    /\ Tcp => MbapTxid(w) \in Word /\ MbapUnit(w) = req.unit

LEMMA RequestIs ==
    ASSUME framing \in {"custom", "modbus-tcp"}, NEW req, Sendable(req), NEW number \in Nat
    PROVE  Understood(WrapRequest(req, number), req)
<1> DEFINE w == WrapRequest(req, number)
           f == RequestFrame(req)
           b == RegisterBlock(req.block)
<1>1. Asks(req) /\ Packable(req)
    BY AsksIs DEF Sendable
<1>2. Decoded(f, b) = req
    BY <1>1, DecodedIs
<1>3. CASE Tcp
    <2> DEFINE pdu  == RequestPdu(f, b)
               txid == number % 65536
    <2>1. Rebuilds(pdu, req)
        BY <1>1, <1>3, RequestPduIs DEF Packable
    <2>2. txid \in Word
        <3>1. txid \in Int /\ 0 <= txid /\ txid <= 65535
            OBVIOUS
        <3> HIDE DEF txid
        <3> QED
            BY <3>1, IsWord
    <2>3. w = Mbap(txid, req.unit, pdu)
        BY <1>3 DEF WrapRequest
    <2>4. req.unit \in Byte
        BY <1>1 DEF Asks
    <2> HIDE DEF pdu, txid, w, f, b
    <2>5. MbapSays(w, txid, req.unit, pdu)
        BY <2>1, <2>2, <2>3, <2>4, MbapIs DEF Rebuilds
    <2>6. /\ w \in Seq(Byte) /\ Len(w) = 7 + Len(pdu) /\ 256 * w[5] + w[6] = Len(w) - 6
          /\ IsMbap(w) /\ MbapPdu(w) = pdu /\ MbapTxid(w) = txid /\ MbapUnit(w) = req.unit
        BY <2>5 DEF MbapSays
    <2>7. Request(w) = f /\ Payload(w) = b
        BY <1>3, <2>1, <2>6 DEF Request, Payload, Rebuilds, f, b
    <2>8. Parses(w)
        BY <1>3, <2>1, <2>6 DEF Parses, Rebuilds
    <2>9. Carried(w)
        BY <1>3, <2>1, <2>6 DEF Carried, Rebuilds
    <2> QED
        BY <1>2, <2>2, <2>6, <2>7, <2>8, <2>9 DEF Understood, w, f
<1>4. CASE ~Tcp
    <2>1. f \in Seq(Byte) /\ Len(f) = 8
        BY <1>1, RequestFrameIs DEF Fields
    <2>2. b \in Seq(Byte) /\ 8 + Len(b) \in Word /\ Len(b) \in Nat
        BY <1>1, <1>4, BlockIs DEF Packable, Asks
    <2>3. w = f \o b
        BY <1>4 DEF WrapRequest
    <2> HIDE DEF w, f, b
    <2>0. f \in Seq(Byte) /\ b \in Seq(Byte)
        BY <2>1, <2>2
    <2>4. w \in Seq(Byte) /\ Len(w) = 8 + Len(b)
        <3>1. f \o b \in Seq(Byte) /\ Joins(f \o b, f, b)
            BY ONLY <2>0, Joined
        <3> QED
            BY <2>1, <2>3, <3>1 DEF Joins
    <2>5. SubSeq(w, 1, 8) = f /\ SubSeq(w, 9, Len(w)) = b
        <3>1. /\ SubSeq(f \o b, 1, Len(f)) = f
              /\ SubSeq(f \o b, Len(f) + 1, Len(f \o b)) = b
            BY ONLY <2>0, Parted
        <3>2. Len(f) = 8 /\ Len(f) + 1 = 9
            BY <2>1
        <3> QED
            BY ONLY <2>3, <3>1, <3>2
    <2>6. Request(w) = f /\ Payload(w) = b
        BY <1>4, <2>5 DEF Request, Payload
    <2>7. Carried(w) /\ Parses(w)
        BY <1>4, <2>2, <2>4 DEF Carried, Parses
    <2> QED
        BY <1>2, <1>4, <2>6, <2>7 DEF Understood, w, f
<1> QED
    BY <1>3, <1>4

(***************************************************************************)
(* Replies.                                                                *)
(***************************************************************************)
\* A reply of the device to the request, when there is one to send.
Replied(reply, req) ==
    \/ /\ reply.kind = "exception" /\ reply.words = <<>>
       /\ reply.code \in ExceptionCode \ {"CRC_ERROR"}
    \/ /\ reply.kind = "read" /\ reply.code = "-" /\ req.fc \in ReadCodes
       /\ reply.words \in Seq(Word) /\ Len(reply.words) <= MaxRegisters
    \/ /\ reply.kind = "write" /\ reply.code = "-" /\ reply.words = <<>> /\ req.fc \in WriteCodes

\* The bytes of a reply, but for the CRC.
Spells(b, req, reply) ==
    /\ b \in Seq(Byte) /\ b # <<>>
    /\ reply.kind = "exception" => Refusing(b, CodeOf[req.fc], ExceptionByte[reply.code])
    /\ reply.kind = "read" => Readings(b, b[1], CodeOf[req.fc], reply.words)
    /\ reply.kind = "write" => Fields(b, b[1], CodeOf[req.fc], req.addr, req.qty)

LEMMA ExceptionBytes ==
    ASSUME NEW code \in ExceptionCode \ {"CRC_ERROR"}
    PROVE  /\ ExceptionByte[code] \in Byte /\ ExceptionByte[code] \in 1 .. 5
           /\ ExceptionName(ExceptionByte[code]) = code
<1>1. DOMAIN ExceptionByte = {"ILLEGAL_FUNCTION", "ILLEGAL_DATA_ADDRESS", "ILLEGAL_DATA_VALUE",
                              "DEVICE_FAILURE", "CRC_ERROR"}
    BY DEF ExceptionByte
<1>2. /\ ExceptionByte["ILLEGAL_FUNCTION"] = 1 /\ ExceptionByte["ILLEGAL_DATA_ADDRESS"] = 2
      /\ ExceptionByte["ILLEGAL_DATA_VALUE"] = 3 /\ ExceptionByte["DEVICE_FAILURE"] = 4
      /\ ExceptionByte["CRC_ERROR"] = 5
    BY DEF ExceptionByte
<1>3. code \in DOMAIN ExceptionByte
    BY <1>1 DEF ExceptionCode
<1>4. \A name \in DOMAIN ExceptionByte : ExceptionByte[name] = ExceptionByte[code] => name = code
    BY <1>1, <1>2, <1>3
<1>5. ExceptionName(ExceptionByte[code]) = code
    BY <1>3, <1>4 DEF ExceptionName
<1>6. 1 \in Byte /\ 2 \in Byte /\ 3 \in Byte /\ 4 \in Byte
    BY IsByte
<1> QED
    BY <1>2, <1>5, <1>6 DEF ExceptionCode

LEMMA TwiceIsByte ==
    ASSUME NEW n \in Nat, n <= MaxRegisters
    PROVE  2 * n \in Byte
<1>1. 2 * MaxRegisters \in Int /\ 2 * MaxRegisters <= 255
    BY WireAssumption, IsByte
<1>2. 2 * n \in Int /\ 0 <= 2 * n /\ 2 * n <= 255
    BY <1>1, MaxRegistersAssumption
<1> QED
    BY <1>2, IsByte

LEMMA ResponseIs ==
    ASSUME NEW req, Asks(req), NEW reply, Replied(reply, req)
    PROVE  LET b == Sealed(ResponseBytes(RequestFrame(req), reply))
           IN  Spells(b, req, reply) /\ (CrcHolds(b) <=> ~HasFault(faults, "crc_corrupt"))
<1> DEFINE f == RequestFrame(req)
           r == ResponseBytes(f, reply)
           b == Sealed(r)
           code == CodeOf[req.fc]
<1>1. /\ req.unit \in Byte /\ code \in Byte /\ code < 128 /\ code \in Nat
      /\ req.addr \in Word /\ req.qty \in Word
    BY Codes, IsByte DEF Asks
<1>2. Fields(f, req.unit, code, req.addr, req.qty)
    BY RequestFrameIs
<1>3. f[1] = req.unit /\ f[2] = code /\ f \in Seq(Byte) /\ Len(f) = 8
    BY <1>2 DEF Fields
<1>4. Profile.unit \in Byte
    BY WireAssumption
<1>5. CASE reply.kind = "exception"
    <2> DEFINE e == ExceptionByte[reply.code]
    <2>1. reply.code # "CRC_ERROR" /\ e \in Byte
        BY <1>5, ExceptionBytes DEF Replied
    <2>2. r = ExceptionFrame(req.unit, code, e)
        BY <1>3, <1>5, <2>1 DEF ResponseBytes
    <2> HIDE DEF e, r, code
    <2>3. Refusing(b, code, e) /\ (CrcHolds(b) <=> ~HasFault(faults, "crc_corrupt"))
        BY <1>1, <2>1, <2>2, ExceptionIs
    <2> HIDE DEF b
    <2>4. b \in Seq(Byte) /\ Len(b) = 8
        BY <2>3 DEF Refusing
    <2>5. b # <<>>
        BY ONLY <2>4, NotEmpty
    <2> QED
        BY <1>5, <2>3, <2>4, <2>5 DEF Spells, e, r, code, b
<1>6. CASE reply.kind = "read"
    <2>1. reply.words \in Seq(Word) /\ Len(reply.words) <= MaxRegisters
        BY <1>6 DEF Replied
    <2>2. 2 * Len(reply.words) \in Byte
        BY <2>1, TwiceIsByte
    <2>3. r = ReadResponse(Profile.unit, code, reply.words)
        BY <1>3, <1>6 DEF ResponseBytes
    <2> HIDE DEF r, code
    <2>4. Readings(b, Profile.unit, code, reply.words) /\ (CrcHolds(b) <=> ~HasFault(faults, "crc_corrupt"))
        BY <1>1, <1>4, <2>1, <2>2, <2>3, ReadIs
    <2>5. b \in Seq(Byte) /\ b # <<>> /\ Readings(b, b[1], code, reply.words)
        BY <2>1, <2>4 DEF Readings
    <2> QED
        BY <1>6, <2>4, <2>5 DEF Spells, r, code
<1>7. CASE reply.kind = "write"
    <2>1. SubSeq(f, 1, 8) = f
        BY <1>3, WholePart
    <2>2. r = FrameBytes(req.unit, code, req.addr, req.qty)
        BY <1>7, <2>1 DEF ResponseBytes, RequestFrame
    <2> HIDE DEF r, code, f
    <2>3. /\ Fields(b, req.unit, code, req.addr, req.qty)
          /\ IsFrame(b) <=> ~HasFault(faults, "crc_corrupt")
        BY <1>1, <2>2, FrameIs
    <2> HIDE DEF b
    <2>4. b \in Seq(Byte) /\ Len(b) = 8
        BY <2>3 DEF Fields
    <2>5. b # <<>>
        BY ONLY <2>4, NotEmpty
    <2>7. Fields(b, b[1], code, req.addr, req.qty)
        BY <2>3 DEF Fields
    <2>6. CrcHolds(b) <=> ~HasFault(faults, "crc_corrupt")
        BY <2>3, <2>4 DEF IsFrame
    <2> QED
        BY <1>7, <2>4, <2>5, <2>6, <2>7 DEF Spells, r, code, b, f
<1> QED
    BY <1>5, <1>6, <1>7 DEF Replied

(***************************************************************************)
(* What a client makes of the bytes of a reply.                            *)
(***************************************************************************)
\* The echo of a write, returned as registers.
Misread(out, req) == out.what = "values" /\ Len(out.words) = 2 /\ req.addr \in 768 .. 1023

Means(out, asking, req, reply, intact) ==
    /\ reply.kind = "exception" =>
          out = [Raised("ModbusException") EXCEPT !.code = IF intact THEN reply.code ELSE "CRC_ERROR"]
    /\ reply.kind = "read" =>
          out = IF intact /\ asking.fc \in ReadCodes THEN [Raised("values") EXCEPT !.words = reply.words]
                ELSE Raised("DeviceError")
    /\ reply.kind = "write" =>
          \/ asking.fc \in ReadCodes /\ Misread(out, req)
          \/ out = Raised(IF intact /\ asking.fc \notin ReadCodes THEN "written" ELSE "DeviceError")

LEMMA InterpretedIs ==
    ASSUME NEW req, Asks(req), NEW reply, Replied(reply, req), NEW asking,
           NEW b, Spells(b, req, reply)
    PROVE  Means(Interpreted(asking, b), asking, req, reply, CrcHolds(b))
<1> DEFINE code == CodeOf[req.fc]
           out  == Interpreted(asking, b)
<1>1. code \in Nat /\ code < 128 /\ code \in Byte
    BY Codes, IsByte DEF Asks
<1>2. b \in Seq(Byte)
    BY DEF Spells
<1>3. CASE reply.kind = "exception"
    <2> DEFINE e == ExceptionByte[reply.code]
    <2>1. Refusing(b, code, e)
        BY <1>3 DEF Spells
    <2>2. e \in 1 .. 5 /\ ExceptionName(e) = reply.code
        BY <1>3, ExceptionBytes DEF Replied
    <2>3. IsExceptionFrame(b) /\ b[3] = e
        BY <2>1 DEF Refusing
    <2> HIDE DEF e
    <2>4. b[3] \in 1 .. 5 /\ ExceptionName(b[3]) = reply.code
        BY <2>2, <2>3
    <2>5. out = IF ~CrcHolds(b) THEN [Raised("ModbusException") EXCEPT !.code = "CRC_ERROR"]
                ELSE [Raised("ModbusException") EXCEPT !.code = reply.code]
        BY <2>3, <2>4 DEF Interpreted
    <2>6. out = [Raised("ModbusException") EXCEPT !.code = IF CrcHolds(b) THEN reply.code ELSE "CRC_ERROR"]
        BY <2>5
    <2> QED
        BY <1>3, <2>6 DEF Means
<1>4. CASE reply.kind = "read"
    <2>1. Readings(b, b[1], code, reply.words)
        BY <1>4 DEF Spells
    <2>2. reply.words \in Seq(Word) /\ Len(reply.words) \in Nat /\ b[1] \in Byte
        BY <1>2, <1>4 DEF Replied, Spells
    <2>3. b[2] = code /\ Len(b) = 2 * Len(reply.words) + 5
        BY <2>1 DEF Readings
    <2>4. ~IsExceptionFrame(b)
        BY <1>1, <2>3 DEF IsExceptionFrame
    <2>5. Len(b) # 8
        BY <2>2, <2>3
    <2>6. ~IsFrame(b)
        BY <2>5 DEF IsFrame
    <2>7. CASE CrcHolds(b)
        <3>1. IsReadResponse(b) /\ ReadResponseWords(b) = reply.words
            BY <1>1, <2>1, <2>2, <2>7, ReadingsRead
        <3>2. out = IF asking.fc \in ReadCodes THEN [Raised("values") EXCEPT !.words = reply.words]
                    ELSE Raised("DeviceError")
            BY <2>4, <2>6, <3>1 DEF Interpreted
        <3> QED
            BY <1>4, <2>7, <3>2 DEF Means
    <2>8. CASE ~CrcHolds(b)
        <3>1. ~IsReadResponse(b)
            BY <2>8 DEF IsReadResponse
        <3>2. out = Raised("DeviceError")
            BY <2>4, <2>6, <3>1 DEF Interpreted
        <3> QED
            BY <1>4, <2>8, <3>2 DEF Means
    <2> QED
        BY <2>7, <2>8
<1>5. CASE reply.kind = "write"
    <2>1. Fields(b, b[1], code, req.addr, req.qty)
        BY <1>5 DEF Spells
    <2>2. b[2] = code /\ Len(b) = 8 /\ b[3] = req.addr \div 256
        BY <2>1 DEF Fields
    <2>3. ~IsExceptionFrame(b)
        BY <1>1, <2>2 DEF IsExceptionFrame
    <2>4. IsFrame(b) <=> CrcHolds(b)
        BY <2>2 DEF IsFrame
    <2>5. CASE asking.fc \notin ReadCodes
        <3>1. out = Raised(IF CrcHolds(b) THEN "written" ELSE "DeviceError")
            BY <2>3, <2>4, <2>5 DEF Interpreted
        <3> QED
            BY <1>5, <2>5, <3>1 DEF Means
    <2>6. CASE asking.fc \in ReadCodes /\ ~IsReadResponse(b)
        <3>1. out = Raised("DeviceError")
            BY <2>3, <2>6 DEF Interpreted
        <3> QED
            BY <1>5, <2>6, <3>1 DEF Means
    <2>7. CASE asking.fc \in ReadCodes /\ IsReadResponse(b)
        <3>1. out = [Raised("values") EXCEPT !.words = ReadResponseWords(b)]
            BY <2>3, <2>7 DEF Interpreted
        <3>2. Len(ReadResponseWords(b)) = (b[3] + 1) \div 2
            BY <1>2, <2>7, ResponseWordsType
        <3>3. req.addr \in Int /\ req.addr >= 0
            BY IsWord DEF Asks
        <3>4. Len(b) = 3 + b[3] + 2
            BY <2>7 DEF IsReadResponse
        <3>5. b[3] = 3 /\ req.addr \in 768 .. 1023
            <4>1. 3 \in 1 .. Len(b)
                BY ONLY <2>2
            <4>2. b[3] \in Byte
                BY <1>2, <4>1
            <4>3. b[3] \in Int
                BY <4>2, IsByte
            <4>4. b[3] = 3
                BY ONLY <2>2, <3>4, <4>3
            <4>5. req.addr \div 256 = 3
                BY ONLY <2>2, <4>4
            <4>6. 768 <= req.addr /\ req.addr <= 1023
                BY ONLY <3>3, <4>5
            <4> QED
                BY <3>3, <4>4, <4>6
        <3>6. out.what = "values" /\ out.words = ReadResponseWords(b)
            BY <3>1 DEF Raised, NoResult
        <3> QED
            BY <1>5, <2>7, <3>2, <3>5, <3>6 DEF Means, Misread
    <2> QED
        BY <2>5, <2>6, <2>7
<1> QED
    BY <1>3, <1>4, <1>5 DEF Replied

\* The PDU of the bytes of a reply, and what the client rebuilds of it.
Answers(pdu, req, reply) ==
    /\ pdu \in Seq(Byte) /\ pdu # <<>> /\ 1 + Len(pdu) \in Word
    /\ IsResponsePdu(pdu) /\ (pdu[1] >= 128 => pdu[2] \in 1 .. 5)
    /\ \A unit \in Byte : /\ Spells(ResponseOfPdu(unit, pdu), req, reply)
                          /\ CrcHolds(ResponseOfPdu(unit, pdu))

\* k bytes of b from the second on.
FromSecond(pdu, b, k) ==
    /\ pdu \in Seq(Byte) /\ Len(pdu) = k
    /\ \A i \in 1 .. k : pdu[i] = b[1 + i]
    /\ pdu # <<>> /\ 1 + Len(pdu) \in Word

LEMMA BytesFromSecond ==
    ASSUME NEW b \in Seq(Byte), NEW k \in Nat, k + 1 <= Len(b), k >= 1, k <= 300
    PROVE  FromSecond(Bytes(b, 2, k), b, k)
<1> DEFINE p == 2
           s == Bytes(b, p, k)
<1>1. p \in Int /\ 1 <= p /\ p + k <= Len(b) + 1 /\ \A i \in 1 .. k : p + i - 1 = 1 + i
    OBVIOUS
<1>2. Bytes(b, 2, k) = s
    OBVIOUS
<1> HIDE DEF p
<1>3. s \in Seq(Byte) /\ Len(s) = k /\ \A i \in 1 .. k : s[i] = b[p + i - 1]
    BY <1>1, BytesAre
<1> HIDE DEF s
<1>4. \A i \in 1 .. k : s[i] = b[1 + i]
    BY <1>1, <1>3
<1>5. s # <<>>
    BY <1>3, NotEmpty
<1>6. 1 + Len(s) \in Word
    <2> DEFINE n == 1 + Len(s)
    <2>1. n \in Int /\ 0 <= n /\ n <= 65535
        BY <1>3
    <2> HIDE DEF n
    <2>2. n \in Word
        BY <2>1, IsWord
    <2> QED
        BY <2>2 DEF n
<1> QED
    BY <1>2, <1>3, <1>4, <1>5, <1>6 DEF FromSecond

LEMMA ExceptionPdu ==
    ASSUME NEW req, Asks(req), NEW reply, Replied(reply, req), reply.kind = "exception",
           NEW b, Spells(b, req, reply)
    PROVE  HasResponsePdu(b) /\ Answers(ResponsePdu(b), req, reply)
<1> DEFINE code == CodeOf[req.fc]
           e    == ExceptionByte[reply.code]
           pdu  == Bytes(b, 2, 2)
<1>1. code \in Nat /\ code < 128
    BY Codes, IsByte DEF Asks
<1>2. e \in 1 .. 5 /\ e \in Byte
    BY ExceptionBytes DEF Replied
<1>3. Refusing(b, code, e)
    BY DEF Spells
<1>4. b \in Seq(Byte) /\ Len(b) = 8 /\ b[2] = code + 128 /\ b[3] = e /\ IsExceptionFrame(b)
    BY <1>3 DEF Refusing
<1>5. HasResponsePdu(b) /\ ResponsePdu(b) = pdu
    BY <1>4 DEF HasResponsePdu, ResponsePdu
<1>6. FromSecond(pdu, b, 2)
    <2> DEFINE k == 2
    <2>1. k \in Nat /\ k + 1 <= Len(b) /\ k >= 1 /\ k <= 300
        BY <1>4
    <2>2. pdu = Bytes(b, 2, k) /\ k = 2
        OBVIOUS
    <2> HIDE DEF pdu, k
    <2>3. FromSecond(Bytes(b, 2, k), b, k)
        BY <1>4, <2>1, BytesFromSecond
    <2> QED
        BY ONLY <2>2, <2>3
<1> HIDE DEF pdu
<1>7. pdu[1] = b[1 + 1] /\ pdu[2] = b[1 + 2] /\ pdu \in Seq(Byte) /\ Len(pdu) = 2
    BY <1>6 DEF FromSecond
<1>8. pdu[1] = code + 128 /\ pdu[2] = e
    BY ONLY <1>4, <1>7
<1> HIDE DEF code, e
<1>9. pdu[1] >= 128 /\ pdu[1] - 128 = code /\ pdu[2] \in 1 .. 5
    BY <1>1, <1>2, <1>8
<1>10. IsResponsePdu(pdu)
    BY ONLY <1>7, <1>9 DEF IsResponsePdu
<1>11. ASSUME NEW unit \in Byte
       PROVE  Spells(ResponseOfPdu(unit, pdu), req, reply) /\ CrcHolds(ResponseOfPdu(unit, pdu))
    <2> DEFINE r == ResponseOfPdu(unit, pdu)
    <2>1. r = ExceptionFrame(unit, code, e)
        BY ONLY <1>8, <1>9 DEF ResponseOfPdu
    <2>2. Refusing(ExceptionFrame(unit, code, e), code, e) /\ CrcHolds(ExceptionFrame(unit, code, e))
        BY <1>1, <1>2, ExceptionIs
    <2> HIDE DEF r
    <2>3. Refusing(r, code, e) /\ CrcHolds(r)
        BY ONLY <2>1, <2>2
    <2>4. r \in Seq(Byte) /\ Len(r) >= 1
        BY <2>3 DEF Refusing
    <2>5. r # <<>>
        BY <2>4, NotEmpty
    <2> QED
        BY <2>3, <2>4, <2>5 DEF Spells, r, code, e
<1> QED
    BY <1>5, <1>6, <1>9, <1>10, <1>11 DEF Answers, FromSecond

LEMMA ReadPdu ==
    ASSUME NEW req, Asks(req), NEW reply, Replied(reply, req), reply.kind = "read",
           NEW b, Spells(b, req, reply)
    PROVE  HasResponsePdu(b) /\ Answers(ResponsePdu(b), req, reply)
<1> DEFINE code  == CodeOf[req.fc]
           words == reply.words
           n     == Len(words)
           k     == 2 + 2 * n
           pdu   == Bytes(b, 2, k)
<1>1. code \in Byte /\ code \in Nat /\ code < 128 /\ code \in ReadBytes
    BY Codes, IsByte DEF Asks, Replied
<1>2. words \in Seq(Word) /\ n \in Nat /\ n <= MaxRegisters
    BY DEF Replied
<1>3. 2 * n \in Byte
    BY <1>2, TwiceIsByte
<1>4. Readings(b, b[1], code, words) /\ b \in Seq(Byte)
    BY DEF Spells
<1>5. Len(b) = 2 * n + 5 /\ b[2] = code /\ b[3] = 2 * n /\ Holds(b, 3, words)
    BY <1>4 DEF Readings
<1> HIDE DEF code, words, n
<1>6. HasResponsePdu(b) /\ ResponsePdu(b) = pdu
    <2>1. ~IsExceptionFrame(b)
        BY <1>1, <1>5 DEF IsExceptionFrame
    <2> QED
        BY <1>1, <1>5, <2>1 DEF HasResponsePdu, ResponsePdu
<1>7. k \in Nat /\ k + 1 <= Len(b) /\ k >= 2 /\ k <= 300 /\ 2 + 2 * n = k
    BY <1>2, <1>3, <1>5, IsByte
<1> HIDE DEF k
<1>8. /\ pdu \in Seq(Byte) /\ Len(pdu) = k /\ \A i \in 1 .. k : pdu[i] = b[1 + i]
      /\ pdu # <<>> /\ 1 + Len(pdu) \in Word
    BY <1>4, <1>7, BytesFromSecond DEF FromSecond
<1> HIDE DEF pdu
<1>9. pdu[1] = code /\ pdu[2] = 2 * n
    <2>1. pdu[1] = b[1 + 1] /\ pdu[2] = b[1 + 2]
        BY <1>7, <1>8
    <2> QED
        BY ONLY <1>5, <2>1
<1>10. IsResponsePdu(pdu) /\ ~(pdu[1] >= 128)
    <2>1. /\ ~(pdu[1] >= 128) /\ pdu[1] \in ReadBytes
          /\ Len(pdu) >= 2 /\ Len(pdu) >= 2 + pdu[2] /\ pdu[2] % 2 = 0 /\ pdu[2] \div 2 <= MaxRegisters
        BY <1>1, <1>2, <1>7, <1>8, <1>9
    <2> QED
        BY ONLY <2>1 DEF IsResponsePdu
<1> DEFINE block == Bytes(pdu, 3, pdu[2])
<1>11. DecodeRegisterBlock(block) = words
    <2> DEFINE p == 3
               m == pdu[2]
    <2>1. p \in Int /\ m \in Nat /\ 1 <= p /\ p + m <= Len(pdu) + 1 /\ m = 2 * n
        BY <1>2, <1>7, <1>8, <1>9
    <2>2. block = Bytes(pdu, p, m) /\ p = 3
        OBVIOUS
    <2> HIDE DEF p, m, block
    <2>3. /\ Bytes(pdu, p, m) \in Seq(Byte) /\ Len(Bytes(pdu, p, m)) = m
          /\ \A i \in 1 .. m : Bytes(pdu, p, m)[i] = pdu[p + i - 1]
        BY <1>8, <2>1, BytesAre
    <2>4. block \in Seq(Byte) /\ Len(block) = 2 * Len(words)
        BY <2>1, <2>2, <2>3 DEF n
    <2>5. \A i \in 1 .. m : block[i] = b[3 + i]
        <3> SUFFICES ASSUME NEW i \in 1 .. m PROVE block[i] = b[3 + i]
            OBVIOUS
        <3>1. p + i - 1 \in 1 .. k /\ 1 + (p + i - 1) = 3 + i
            BY <1>7, <1>8, <2>1, <2>2
        <3> QED
            BY <1>8, <2>2, <2>3, <3>1
    <2>6. Holds(block, 0, words)
        <3> SUFFICES ASSUME NEW j \in 1 .. Len(words)
                     PROVE  block[0 + 2 * j - 1] = words[j] \div 256 /\ block[0 + 2 * j] = words[j] % 256
            BY DEF Holds
        <3>1. b[3 + 2 * j - 1] = words[j] \div 256 /\ b[3 + 2 * j] = words[j] % 256
            BY <1>5 DEF Holds
        <3>2. 2 * j - 1 \in 1 .. m /\ 2 * j \in 1 .. m
            BY <1>2, <2>1 DEF n
        <3>3. block[2 * j - 1] = b[3 + (2 * j - 1)] /\ block[2 * j] = b[3 + 2 * j]
            BY <2>5, <3>2
        <3> QED
            BY <3>1, <3>3
    <2> QED
        BY <1>2, <2>4, <2>6, BlockDecoded
<1> HIDE DEF block
<1>12. ASSUME NEW unit \in Byte
       PROVE  Spells(ResponseOfPdu(unit, pdu), req, reply) /\ CrcHolds(ResponseOfPdu(unit, pdu))
    <2> DEFINE r == ResponseOfPdu(unit, pdu)
    <2>1. DecodeRegisterBlock(Bytes(pdu, 3, pdu[2])) = words
        BY <1>11 DEF block
    <2>2. ~(pdu[1] >= 128) /\ pdu[1] \in ReadBytes
        BY <1>1, <1>9, <1>10
    <2>3. r = ReadResponse(unit, code, words)
        BY ONLY <1>9, <2>1, <2>2 DEF ResponseOfPdu
    <2>4. 2 * Len(words) \in Byte
        BY <1>3 DEF n
    <2>5. Readings(ReadResponse(unit, code, words), unit, code, words) /\ CrcHolds(ReadResponse(unit, code, words))
        BY <1>1, <1>2, <2>4, ReadIs
    <2> HIDE DEF r
    <2>6. Readings(r, unit, code, words) /\ CrcHolds(r)
        BY ONLY <2>3, <2>5
    <2>7. r \in Seq(Byte) /\ Len(r) = 2 * Len(words) + 5 /\ r[1] = unit
        BY <2>6 DEF Readings
    <2>8. r # <<>>
        BY <1>2, <2>7, NotEmpty DEF n
    <2> QED
        BY <2>6, <2>7, <2>8 DEF Spells, r, code, words
<1> QED
    BY <1>6, <1>8, <1>10, <1>12 DEF Answers

LEMMA WritePdu ==
    ASSUME NEW req, Asks(req), NEW reply, Replied(reply, req), reply.kind = "write",
           NEW b, Spells(b, req, reply)
    PROVE  /\ HasResponsePdu(b) <=> CrcHolds(b)
           /\ CrcHolds(b) => Answers(ResponsePdu(b), req, reply)
<1> DEFINE code == CodeOf[req.fc]
           pdu  == Bytes(b, 2, 5)
<1>1. code \in Byte /\ code \in Nat /\ code < 128 /\ code \notin ReadBytes
    BY Codes, IsByte DEF Asks, Replied
<1>2. req.addr \in Word /\ req.qty \in Word
    BY DEF Asks
<1>3. Fields(b, b[1], code, req.addr, req.qty)
    BY DEF Spells
<1>4. b \in Seq(Byte) /\ Len(b) = 8 /\ b[2] = code
    BY <1>3 DEF Fields
<1> HIDE DEF code
<1>5. ~IsExceptionFrame(b)
    BY <1>1, <1>4 DEF IsExceptionFrame
<1>6. (HasResponsePdu(b) <=> CrcHolds(b)) /\ ResponsePdu(b) = pdu
    BY <1>1, <1>4, <1>5 DEF HasResponsePdu, ResponsePdu, IsFrame
<1>7. FromSecond(pdu, b, 5)
    <2> DEFINE k == 5
    <2>1. k \in Nat /\ k + 1 <= Len(b) /\ k >= 1 /\ k <= 300
        BY <1>4
    <2>2. pdu = Bytes(b, 2, k) /\ k = 5
        OBVIOUS
    <2> HIDE DEF pdu, k
    <2>3. FromSecond(Bytes(b, 2, k), b, k)
        BY <1>4, <2>1, BytesFromSecond
    <2> QED
        BY ONLY <2>2, <2>3
<1> HIDE DEF pdu
<1>12. pdu \in Seq(Byte) /\ Len(pdu) = 5 /\ Len(pdu) >= 5 /\ \A i \in 1 .. 5 : pdu[i] = b[1 + i]
    BY <1>7 DEF FromSecond
<1>8. /\ pdu[1] = code
      /\ Int16(Bytes(pdu, 2, 2)) = req.addr /\ Int16(Bytes(pdu, 4, 2)) = req.qty
    BY <1>2, <1>3, <1>12, PduNames, SMTT(60)
<1>9. ~(pdu[1] >= 128) /\ pdu[1] \notin ReadBytes
    BY <1>1, <1>8
<1>10. IsResponsePdu(pdu)
    BY ONLY <1>9, <1>12 DEF IsResponsePdu
<1>11. ASSUME NEW unit \in Byte
       PROVE  Spells(ResponseOfPdu(unit, pdu), req, reply) /\ CrcHolds(ResponseOfPdu(unit, pdu))
    <2> DEFINE r == ResponseOfPdu(unit, pdu)
               f == FrameBytes(unit, code, req.addr, req.qty)
    <2>1. r = f
        BY ONLY <1>8, <1>9 DEF ResponseOfPdu
    <2>2. Fields(f, unit, code, req.addr, req.qty) /\ IsFrame(f)
        BY <1>1, <1>2, FrameIs
    <2> HIDE DEF r, f
    <2>3. Fields(r, unit, code, req.addr, req.qty) /\ IsFrame(r)
        BY ONLY <2>1, <2>2
    <2>4. r \in Seq(Byte) /\ Len(r) = 8 /\ r[1] = unit /\ CrcHolds(r)
        BY <2>3 DEF Fields, IsFrame
    <2>5. r # <<>>
        BY <2>4, NotEmpty
    <2> QED
        BY <2>3, <2>4, <2>5 DEF Spells, r, code
<1> QED
    BY <1>6, <1>7, <1>9, <1>10, <1>11 DEF Answers, FromSecond

\* A reply as a client is to see it: Modbus TCP carries no CRC, and no corrupted echo.
Fits(reply, req) ==
    /\ Replied(reply, req)
    /\ reply.crcOk = (Tcp \/ ~HasFault(faults, "crc_corrupt"))
    /\ Tcp /\ reply.kind = "write" => ~HasFault(faults, "crc_corrupt")

ReplyWire(req, number, reply) ==
    WrapResponse(Sealed(ResponseBytes(RequestFrame(req), reply)), WrapRequest(req, number))

LEMMA SpellsShort ==
    ASSUME NEW req, NEW reply, Replied(reply, req), NEW b, Spells(b, req, reply)
    PROVE  b \in Seq(Byte) /\ Len(b) \in Word
<1>1. b \in Seq(Byte) /\ Len(b) \in Nat
    BY DEF Spells
<1>2. CASE reply.kind = "read"
    <2>1. Len(reply.words) \in Nat /\ Len(reply.words) <= MaxRegisters
        BY <1>2 DEF Replied
    <2>2. 2 * Len(reply.words) \in Byte
        BY <2>1, TwiceIsByte
    <2>3. Len(b) = 2 * Len(reply.words) + 5
        BY <1>2 DEF Spells, Readings
    <2>4. 2 * Len(reply.words) <= 255
        BY <2>2, IsByte
    <2>5. 0 <= Len(b) /\ Len(b) <= 65535 /\ Len(b) \in Int
        BY ONLY <2>1, <2>3, <2>4
    <2> QED
        BY <1>1, <2>5, IsWord
<1>3. CASE reply.kind # "read"
    <2>1. Len(b) = 8
        BY <1>3 DEF Replied, Spells, Refusing, Fields
    <2>2. 0 <= Len(b) /\ Len(b) <= 65535 /\ Len(b) \in Int
        BY ONLY <2>1
    <2> QED
        BY <1>1, <2>2, IsWord
<1> QED
    BY <1>2, <1>3

LEMMA ReplyWireIs ==
    ASSUME framing \in {"custom", "modbus-tcp"}, NEW req, Sendable(req), NEW number \in Nat,
           NEW reply, Fits(reply, req)
    PROVE  /\ Carried(ReplyWire(req, number, reply))
           /\ \A asking : Means(Outcome(asking, ReplyWire(req, number, reply)), asking, req, reply, reply.crcOk)
<1> DEFINE b == Sealed(ResponseBytes(RequestFrame(req), reply))
           q == WrapRequest(req, number)
           w == ReplyWire(req, number, reply)
<1>1. Asks(req) /\ Replied(reply, req)
    BY AsksIs DEF Fits
<1>2. Spells(b, req, reply) /\ (CrcHolds(b) <=> ~HasFault(faults, "crc_corrupt"))
    BY <1>1, ResponseIs
<1>3. Understood(q, req)
    BY RequestIs
<1>4. w = WrapResponse(b, q)
    BY DEF ReplyWire
<1> HIDE DEF b, q, w
<1>5. CASE ~Tcp
    <2>1. w = b
        BY <1>4, <1>5 DEF WrapResponse
    <2>2. Carried(b)
        BY <1>1, <1>2, <1>5, SpellsShort DEF Carried
    <2>3. ASSUME NEW asking PROVE Means(Outcome(asking, b), asking, req, reply, reply.crcOk)
        <3>1. Outcome(asking, b) = Interpreted(asking, b)
            BY <1>5 DEF Outcome
        <3>2. CrcHolds(b) <=> reply.crcOk
            BY <1>2, <1>5 DEF Fits
        <3>3. Means(Interpreted(asking, b), asking, req, reply, CrcHolds(b))
            BY <1>1, <1>2, InterpretedIs
        <3> QED
            BY <3>1, <3>2, <3>3 DEF Means
    <2> QED
        BY <2>1, <2>2, <2>3 DEF w
<1>6. CASE Tcp
    <2> DEFINE pdu == ResponsePdu(b)
    <2>1. Answers(pdu, req, reply)
        BY <1>1, <1>2, <1>6, ExceptionPdu, ReadPdu, WritePdu DEF Fits, Replied
    <2>2. req.unit \in Byte
        BY <1>1 DEF Asks
    <2>3. MbapTxid(q) \in Word /\ MbapUnit(q) = req.unit
        BY <1>3, <1>6 DEF Understood
    <2> DEFINE txid == MbapTxid(q)
    <2>4. w = Mbap(txid, req.unit, pdu)
        BY <1>4, <1>6, <2>3 DEF WrapResponse
    <2> HIDE DEF txid, pdu
    <2>5. txid \in Word /\ pdu \in Seq(Byte) /\ pdu # <<>> /\ 1 + Len(pdu) \in Word
        BY <2>1, <2>3 DEF Answers, txid
    <2>6. MbapSays(w, txid, req.unit, pdu)
        BY <2>2, <2>4, <2>5, MbapIs
    <2>7. /\ w \in Seq(Byte) /\ Len(w) = 7 + Len(pdu) /\ 256 * w[5] + w[6] = Len(w) - 6
          /\ IsMbap(w) /\ MbapPdu(w) = pdu /\ MbapUnit(w) = req.unit
        BY <2>6 DEF MbapSays
    <2>8. Carried(w)
        BY <1>6, <2>5, <2>7 DEF Carried
    <2>9. ASSUME NEW asking PROVE Means(Outcome(asking, w), asking, req, reply, reply.crcOk)
        <3> DEFINE r == ResponseOfPdu(req.unit, pdu)
        <3>1. /\ IsResponsePdu(pdu) /\ (pdu[1] >= 128 => pdu[2] \in 1 .. 5)
              /\ Spells(r, req, reply) /\ CrcHolds(r)
            BY <2>1, <2>2 DEF Answers
        <3>2. Outcome(asking, w) = Interpreted(asking, r)
            BY <1>6, <2>7, <3>1 DEF Outcome
        <3> HIDE DEF r
        <3>3. reply.crcOk
            BY <1>6 DEF Fits
        <3>4. Means(Interpreted(asking, r), asking, req, reply, CrcHolds(r))
            BY <1>1, <3>1, InterpretedIs
        <3> QED
            BY <3>1, <3>2, <3>3, <3>4 DEF Means
    <2> QED
        BY <2>8, <2>9 DEF w
<1> QED
    BY <1>5, <1>6

(***************************************************************************)
(* That is what DeviceLink makes of the reply, but for a misread echo.     *)
(***************************************************************************)
\* How a call ends, field by field.
Ending(what, words, code, id) == [what |-> what, words |-> words, code |-> code, id |-> id]

LEMMA Renamed ==
    ASSUME NEW what, NEW words, NEW code, NEW id, NEW new, NEW out, out = Ending(what, words, code, id)
    PROVE  [out EXCEPT !.id = new] = Ending(what, words, code, new)
BY DEF Ending

LEMMA SameCodes == Link!ReadCodes = ReadCodes /\ Link!WriteCodes = WriteCodes
BY DEF Link!ReadCodes, ReadCodes, Link!WriteCodes, WriteCodes

LEMMA DecodeIs ==
    ASSUME NEW asking, NEW reply, NEW id, reply.crcOk \in BOOLEAN
    PROVE  LET told == Link!Decode(asking, [id |-> id, reply |-> reply])
           IN  /\ reply.kind = "exception" =>
                     told = Ending("ModbusException", <<>>, IF reply.crcOk THEN reply.code ELSE "CRC_ERROR", id)
               /\ reply.kind = "read" =>
                     told = IF reply.crcOk /\ asking.fc \in ReadCodes THEN Ending("values", reply.words, "-", id)
                            ELSE Ending("DeviceError", <<>>, "-", id)
               /\ reply.kind = "write" =>
                     told = Ending(IF reply.crcOk /\ asking.fc \notin ReadCodes THEN "written"
                                   ELSE "DeviceError", <<>>, "-", id)
<1> DEFINE reads == reply.kind = "read"
           asks  == asking.fc \in ReadCodes
           what  == IF reply.kind = "exception" THEN "ModbusException"
                    ELSE IF ~reply.crcOk \/ reads # asks THEN "DeviceError"
                    ELSE IF reads THEN "values" ELSE "written"
           msg   == [id |-> id, reply |-> reply]
           told  == Link!Decode(asking, msg)
<1>1. told = Ending(what, IF what = "values" THEN reply.words ELSE <<>>,
                    IF what # "ModbusException" THEN "-"
                    ELSE IF reply.crcOk THEN reply.code ELSE "CRC_ERROR", id)
    <2>1. msg.reply = reply /\ msg.id = id
        OBVIOUS
    <2> HIDE DEF msg
    <2>2. told = LET r == msg.reply
                     v == IF r.kind = "exception" THEN "ModbusException"
                          ELSE IF ~r.crcOk \/ (r.kind = "read") # (asking.fc \in ReadCodes) THEN "DeviceError"
                          ELSE IF r.kind = "read" THEN "values" ELSE "written"
                 IN  [what |-> v, words |-> IF v = "values" THEN r.words ELSE <<>>,
                      code |-> IF v # "ModbusException" THEN "-"
                               ELSE IF r.crcOk THEN r.code ELSE "CRC_ERROR", id |-> msg.id]
        BY SameCodes DEF Link!Decode
    <2> QED
        BY <2>1, <2>2 DEF Ending
<1>2. reads \in BOOLEAN /\ asks \in BOOLEAN
    OBVIOUS
<1>3. reply.kind = "exception" => what = "ModbusException"
    OBVIOUS
<1>4. reply.kind = "read" => what = IF reply.crcOk /\ asks THEN "values" ELSE "DeviceError"
    <2> SUFFICES ASSUME reads PROVE what = IF reply.crcOk /\ asks THEN "values" ELSE "DeviceError"
        OBVIOUS
    <2> HIDE DEF asks
    <2> QED
        BY <1>2
<1>5. reply.kind = "write" => what = IF reply.crcOk /\ ~asks THEN "written" ELSE "DeviceError"
    <2> SUFFICES ASSUME reply.kind = "write", ~reads
                 PROVE  what = IF reply.crcOk /\ ~asks THEN "written" ELSE "DeviceError"
        OBVIOUS
    <2> HIDE DEF asks, reads
    <2> QED
        BY <1>2
<1> HIDE DEF what, told
<1>6. reply.kind = "exception" =>
          told = Ending("ModbusException", <<>>, IF reply.crcOk THEN reply.code ELSE "CRC_ERROR", id)
    BY <1>1, <1>3
<1>7. reply.kind = "read" =>
          told = IF reply.crcOk /\ asks THEN Ending("values", reply.words, "-", id)
                 ELSE Ending("DeviceError", <<>>, "-", id)
    BY <1>1, <1>4
<1>8. reply.kind = "write" =>
          told = Ending(IF reply.crcOk /\ ~asks THEN "written" ELSE "DeviceError", <<>>, "-", id)
    BY <1>1, <1>5
<1> QED
    BY <1>6, <1>7, <1>8 DEF told

LEMMA MeansDecode ==
    ASSUME NEW req, NEW reply, Replied(reply, req), NEW asking, NEW out, NEW id,
           reply.crcOk \in BOOLEAN,
           Means(out, asking, req, reply, reply.crcOk),
           ~(reply.kind = "write" /\ out.what = "values")
    PROVE  [out EXCEPT !.id = id] = Link!Decode(asking, [id |-> id, reply |-> reply])
<1> DEFINE told == Link!Decode(asking, [id |-> id, reply |-> reply])
<1>0. /\ reply.kind = "exception" =>
            told = Ending("ModbusException", <<>>, IF reply.crcOk THEN reply.code ELSE "CRC_ERROR", id)
      /\ reply.kind = "read" =>
            told = IF reply.crcOk /\ asking.fc \in ReadCodes THEN Ending("values", reply.words, "-", id)
                   ELSE Ending("DeviceError", <<>>, "-", id)
      /\ reply.kind = "write" =>
            told = Ending(IF reply.crcOk /\ asking.fc \notin ReadCodes THEN "written"
                          ELSE "DeviceError", <<>>, "-", id)
    BY DecodeIs
<1> HIDE DEF told
<1> SUFFICES [out EXCEPT !.id = id] = told
    BY DEF told
<1>1. CASE reply.kind = "exception"
    <2> DEFINE c == IF reply.crcOk THEN reply.code ELSE "CRC_ERROR"
    <2>1. out = [Raised("ModbusException") EXCEPT !.code = c]
        BY <1>1 DEF Means
    <2>2. told = Ending("ModbusException", <<>>, c, id)
        BY <1>0, <1>1
    <2> HIDE DEF c
    <2>3. out = Ending("ModbusException", <<>>, c, 0)
        BY <2>1 DEF Raised, NoResult, Ending
    <2>4. [out EXCEPT !.id = id] = Ending("ModbusException", <<>>, c, id)
        BY ONLY <2>3, Renamed
    <2> QED
        BY ONLY <2>2, <2>4
<1>2. CASE reply.kind = "read"
    <2>1. out = IF reply.crcOk /\ asking.fc \in ReadCodes THEN [Raised("values") EXCEPT !.words = reply.words]
                ELSE Raised("DeviceError")
        BY <1>2 DEF Means
    <2>2. CASE reply.crcOk /\ asking.fc \in ReadCodes
        <3>1. out = Ending("values", reply.words, "-", 0)
            BY <2>1, <2>2 DEF Raised, NoResult, Ending
        <3>2. [out EXCEPT !.id = id] = Ending("values", reply.words, "-", id)
            BY ONLY <3>1, Renamed
        <3>3. told = Ending("values", reply.words, "-", id)
            BY <1>0, <1>2, <2>2
        <3> QED
            BY ONLY <3>2, <3>3
    <2>3. CASE ~(reply.crcOk /\ asking.fc \in ReadCodes)
        <3>1. out = Ending("DeviceError", <<>>, "-", 0)
            BY <2>1, <2>3 DEF Raised, NoResult, Ending
        <3>2. [out EXCEPT !.id = id] = Ending("DeviceError", <<>>, "-", id)
            BY ONLY <3>1, Renamed
        <3>3. told = Ending("DeviceError", <<>>, "-", id)
            BY <1>0, <1>2, <2>3
        <3> QED
            BY ONLY <3>2, <3>3
    <2> QED
        BY <2>2, <2>3
<1>3. CASE reply.kind = "write"
    <2> DEFINE w == IF reply.crcOk /\ asking.fc \notin ReadCodes THEN "written" ELSE "DeviceError"
    <2>1. out = Raised(w)
        BY <1>3 DEF Means, Misread
    <2>2. told = Ending(w, <<>>, "-", id)
        BY <1>0, <1>3
    <2> HIDE DEF w
    <2>3. out = Ending(w, <<>>, "-", 0)
        BY <2>1 DEF Raised, NoResult, Ending
    <2>4. [out EXCEPT !.id = id] = Ending(w, <<>>, "-", id)
        BY ONLY <2>3, Renamed
    <2> QED
        BY ONLY <2>2, <2>4
<1> QED
    BY <1>1, <1>2, <1>3 DEF Replied

(***************************************************************************)
(* The device's replies to requests: intact, so never a CRC_ERROR.         *)
(***************************************************************************)
LEMMA DeviceReplies ==
    ASSUME NEW req, Asks(req), NEW n \in Nat, faults \in Seq(FaultConfig),
           holding \in [DOMAIN holding -> Word]
    PROVE  LET out == HandleFrame(Profile, faults, holding, n, req)
           IN  /\ out.holding \in [DOMAIN holding -> Word]
               /\ out.reply.kind \in {"none", "raise"} \/ Replied(out.reply, req)
               /\ out.reply.crcOk /\ out.reply \in ReplyType
<1> DEFINE out == HandleFrame(Profile, faults, holding, n, req)
           words == ReadOut(Profile, faults, holding, n, req)
<1>1. req \in RequestType /\ req.qty \in Word /\ req.intact /\ req.fc \in DOMAIN CodeOf
    BY DEF Asks
<1>2. IsProfile(Profile)
    BY WireAssumption
<1>3. /\ out.holding \in [DOMAIN holding -> Word]
      /\ out.reply \in ReplyType /\ out.reply.crcOk
    BY <1>1, <1>2, HandleFrameType
<1>4. Refusal(Profile, holding, req) # "-" => Refusal(Profile, holding, req) \in ExceptionCode \ {"CRC_ERROR"}
    BY <1>1 DEF Refusal, ExceptionCode
<1>5. \/ out.reply = NoReply
      \/ out.reply = Exception(Refusal(Profile, holding, req)) /\ Refusal(Profile, holding, req) # "-"
      \/ out.reply = ReadReply(words) /\ req.fc \in ReadCodes
      \/ out.reply = Echo /\ req.fc \notin ReadCodes
    BY DEF HandleFrame
<1>6. req.fc \in ReadCodes \/ req.fc \in WriteCodes
    BY <1>1, Codes
<1> HIDE DEF out
<1> DEFINE Done == out.reply.kind \in {"none", "raise"} \/ Replied(out.reply, req)
<1>7. ASSUME out.reply = NoReply PROVE Done
    BY <1>7 DEF NoReply, Reply
<1>8. ASSUME out.reply = Exception(Refusal(Profile, holding, req)), Refusal(Profile, holding, req) # "-"
      PROVE  Done
    BY <1>4, <1>8 DEF Exception, Reply, Replied
<1>9. ASSUME out.reply = ReadReply(words), req.fc \in ReadCodes PROVE Done
    <2>1. out.reply.words \in Seq(Word)
        BY <1>3 DEF ReplyType
    <2>3. ASSUME out.reply = Reply("read", words, "-"), ~(Len(words) > MaxRegisters)
          PROVE  Replied(out.reply, req)
        <3>1. out.reply.words = words
            BY <2>3 DEF Reply
        <3>2. Len(words) \in Nat
            BY <2>1, <3>1
        <3>3. Len(words) <= MaxRegisters
            BY <2>3, <3>2, MaxRegistersAssumption
        <3> QED
            BY <1>9, <2>1, <2>3, <3>1, <3>3 DEF Reply, Replied
    <2>4. out.reply.kind = "raise" \/ (out.reply = Reply("read", words, "-") /\ ~(Len(words) > MaxRegisters))
        BY <1>9 DEF ReadReply, Raises, Reply
    <2> QED
        BY <2>3, <2>4
<1>10. ASSUME out.reply = Echo, req.fc \notin ReadCodes PROVE Done
    BY <1>6, <1>10 DEF Echo, Reply, Replied
<1>11. Done
    BY <1>5, <1>7, <1>8, <1>9, <1>10
<1> QED
    BY <1>3, <1>11 DEF out

(***************************************************************************)
(* The server's step on the message of a request.                          *)
(***************************************************************************)
\* The reply that goes on the wire, as its reader is to see it.
Owed(reply) == IF Tcp THEN [CorruptCrc(faults, reply) EXCEPT !.crcOk = TRUE] ELSE CorruptCrc(faults, reply)

\* No reply is sent.
Unanswered(reply) ==
    \/ reply.kind \in {"none", "raise"}
    \/ Tcp /\ reply.kind = "write" /\ HasFault(faults, "crc_corrupt")

LEMMA OwedIs ==
    ASSUME NEW reply \in ReplyType
    PROVE  /\ Owed(reply) \in ReplyType
           /\ Owed(reply).kind = reply.kind /\ Owed(reply).words = reply.words
           /\ Owed(reply).code = reply.code
           /\ Owed(reply).crcOk = (Tcp \/ ~HasFault(faults, "crc_corrupt"))
<1>1. /\ CorruptCrc(faults, reply) \in ReplyType
      /\ CorruptCrc(faults, reply).kind = reply.kind /\ CorruptCrc(faults, reply).words = reply.words
      /\ CorruptCrc(faults, reply).code = reply.code
      /\ CorruptCrc(faults, reply).crcOk = ~HasFault(faults, "crc_corrupt")
    BY DEF CorruptCrc, ReplyType, HasFault
<1> DEFINE c == CorruptCrc(faults, reply)
<1> HIDE DEF c
<1>2. CASE Tcp
    <2>1. Owed(reply) = [c EXCEPT !.crcOk = TRUE]
        BY <1>2 DEF Owed, c
    <2>2. c \in ReplyType
        BY <1>1 DEF c
    <2>3. /\ [c EXCEPT !.crcOk = TRUE] \in ReplyType
          /\ [c EXCEPT !.crcOk = TRUE].kind = c.kind /\ [c EXCEPT !.crcOk = TRUE].words = c.words
          /\ [c EXCEPT !.crcOk = TRUE].code = c.code
          /\ [c EXCEPT !.crcOk = TRUE].crcOk = TRUE
        BY <2>2 DEF ReplyType
    <2> QED
        BY <1>1, <1>2, <2>1, <2>3 DEF c
<1>3. CASE ~Tcp
    BY <1>1, <1>3 DEF Owed
<1> QED
    BY <1>2, <1>3

LEMMA ServedIs ==
    ASSUME framing \in {"custom", "modbus-tcp"}, NEW req, Sendable(req), NEW number \in Nat,
           NEW w, w = WrapRequest(req, number),
           faults \in Seq(FaultConfig), holding \in [DOMAIN holding -> Word], count \in Nat
    PROVE  LET out == HandleFrame(Profile, faults, holding, count + 1, req)
           IN  /\ Parses(w) /\ Handled(w) = out
               /\ out.holding \in [DOMAIN holding -> Word] /\ out.reply \in ReplyType
               /\ out.reply.crcOk
               /\ Ends(w) <=> Unanswered(out.reply)
               /\ ~Ends(w) => /\ Fits(Owed(out.reply), req)
                              /\ WrapResponse(Response(w), w) = ReplyWire(req, number, Owed(out.reply))
<1> DEFINE out == HandleFrame(Profile, faults, holding, count + 1, req)
           owes == Owed(out.reply)
           b == Sealed(ResponseBytes(RequestFrame(req), out.reply))
<1>1. Understood(w, req) /\ Asks(req)
    BY RequestIs, AsksIs
<1>2. Parses(w) /\ Request(w) = RequestFrame(req) /\ Decoded(Request(w), Payload(w)) = req
    BY <1>1 DEF Understood
<1>3. Handled(w) = out
    BY <1>2 DEF Handled
<1>4. count + 1 \in Nat
    OBVIOUS
<1>5. /\ out.holding \in [DOMAIN holding -> Word]
      /\ out.reply.kind \in {"none", "raise"} \/ Replied(out.reply, req)
      /\ out.reply.crcOk /\ out.reply \in ReplyType
    BY <1>1, <1>4, DeviceReplies
<1>6. Response(w) = b
    BY <1>2, <1>3 DEF Response, Sealed
<1> HIDE DEF out
<1>7. /\ owes.kind = out.reply.kind /\ owes.words = out.reply.words /\ owes.code = out.reply.code
      /\ owes.crcOk = (Tcp \/ ~HasFault(faults, "crc_corrupt"))
    BY <1>5, OwedIs
<1> HIDE DEF owes
<1>8. ASSUME Replied(out.reply, req)
      PROVE  HasResponsePdu(b) <=> ~(out.reply.kind = "write" /\ HasFault(faults, "crc_corrupt"))
    <2>1. Spells(b, req, out.reply) /\ (CrcHolds(b) <=> ~HasFault(faults, "crc_corrupt"))
        BY <1>1, <1>8, ResponseIs
    <2> HIDE DEF b
    <2> QED
        BY <1>1, <1>8, <2>1, ExceptionPdu, ReadPdu, WritePdu DEF Replied
<1>9. Replied(out.reply, req) => out.reply.kind \notin {"none", "raise"}
    BY DEF Replied
<1>10. Ends(w) <=> Unanswered(out.reply)
    BY <1>2, <1>3, <1>5, <1>6, <1>8, <1>9 DEF Ends, Unanswered
<1>11. ASSUME ~Unanswered(out.reply)
       PROVE  Fits(owes, req) /\ WrapResponse(Response(w), w) = ReplyWire(req, number, owes)
    <2>1. Replied(out.reply, req)
        BY <1>5, <1>11 DEF Unanswered
    <2>2. Replied(owes, req)
        BY <1>7, <2>1 DEF Replied
    <2>3. Tcp /\ owes.kind = "write" => ~HasFault(faults, "crc_corrupt")
        BY <1>7, <1>11 DEF Unanswered
    <2>4. ResponseBytes(RequestFrame(req), owes) = ResponseBytes(RequestFrame(req), out.reply)
        BY <1>7 DEF ResponseBytes
    <2> QED
        BY <1>6, <1>7, <2>2, <2>3, <2>4 DEF Fits, ReplyWire
<1> QED
    BY <1>2, <1>3, <1>5, <1>10, <1>11 DEF out, owes

(***************************************************************************)
(* Streams.  s sits in t after the first `at` elements.                    *)
(***************************************************************************)
Sits(s, t, at) == at \in Nat /\ at + Len(s) <= Len(t) /\ \A k \in 1 .. Len(s) : t[at + k] = s[k]

LEMMA SitsSame ==
    ASSUME NEW S, NEW s \in Seq(S), NEW u \in Seq(S), NEW t \in Seq(S), NEW at,
           Sits(s, t, at), Sits(u, t, at), Len(s) = Len(u)
    PROVE  s = u
<1>1. \A k \in 1 .. Len(s) : s[k] = u[k]
    BY DEF Sits
<1> QED
    BY <1>1, SeqEqual

\* A part of what sits somewhere sits there too.
LEMMA SitsPart ==
    ASSUME NEW S, NEW s \in Seq(S), NEW t \in Seq(S), NEW at, Sits(s, t, at),
           NEW m \in Int, NEW n \in Int, 1 <= m, m <= n + 1, n <= Len(s)
    PROVE  /\ SubSeq(s, m, n) \in Seq(S) /\ Len(SubSeq(s, m, n)) = n - m + 1
           /\ Sits(SubSeq(s, m, n), t, at + m - 1)
<1> DEFINE u == SubSeq(s, m, n)
<1>1. u \in Seq(S) /\ Len(u) = n - m + 1 /\ \A i \in 1 .. n - m + 1 : u[i] = s[m + i - 1]
    BY PartIs
<1> HIDE DEF u
<1>2. at \in Nat /\ at + Len(s) <= Len(t) /\ \A k \in 1 .. Len(s) : t[at + k] = s[k]
    BY DEF Sits
<1>3. Len(s) \in Nat /\ Len(t) \in Nat
    OBVIOUS
<1>4. at + m - 1 \in Nat /\ (at + m - 1) + Len(u) <= Len(t)
    BY <1>1, <1>2, <1>3
<1>5. ASSUME NEW k \in 1 .. Len(u) PROVE t[(at + m - 1) + k] = u[k]
    <2>1. m + k - 1 \in 1 .. Len(s) /\ (at + m - 1) + k = at + (m + k - 1)
        BY <1>1, <1>2, <1>3
    <2>2. t[at + (m + k - 1)] = s[m + k - 1]
        BY <1>2, <2>1
    <2> QED
        BY <1>1, <2>1, <2>2
<1> QED
    BY <1>1, <1>4, <1>5 DEF Sits, u

LEMMA SitsJoined ==
    ASSUME NEW S, NEW s \in Seq(S), NEW u \in Seq(S), NEW t \in Seq(S), NEW at,
           Sits(s, t, at), Sits(u, t, at + Len(s))
    PROVE  s \o u \in Seq(S) /\ Len(s \o u) = Len(s) + Len(u) /\ Sits(s \o u, t, at)
<1> DEFINE w == s \o u
<1>1. w \in Seq(S) /\ Joins(w, s, u)
    BY Joined
<1> HIDE DEF w
<1>2. /\ Len(w) = Len(s) + Len(u)
      /\ \A i \in 1 .. Len(s) : w[i] = s[i]
      /\ \A i \in 1 .. Len(u) : w[Len(s) + i] = u[i]
    BY <1>1 DEF Joins
<1>3. Len(s) \in Nat /\ Len(u) \in Nat /\ Len(t) \in Nat /\ at \in Nat
    BY DEF Sits
<1>4. at + Len(w) <= Len(t)
    BY <1>2, <1>3 DEF Sits
<1>5. ASSUME NEW k \in 1 .. Len(w) PROVE t[at + k] = w[k]
    <2>1. CASE k <= Len(s)
        BY <1>2, <1>3, <2>1 DEF Sits
    <2>2. CASE ~(k <= Len(s))
        <3>1. k - Len(s) \in 1 .. Len(u) /\ Len(s) + (k - Len(s)) = k /\ (at + Len(s)) + (k - Len(s)) = at + k
            BY <1>2, <1>3, <2>2
        <3>2. w[k] = u[k - Len(s)]
            BY <1>2, <3>1
        <3>3. t[(at + Len(s)) + (k - Len(s))] = u[k - Len(s)]
            BY <3>1 DEF Sits
        <3> QED
            BY <3>1, <3>2, <3>3
    <2> QED
        BY <2>1, <2>2
<1> QED
    BY <1>1, <1>2, <1>3, <1>4, <1>5 DEF Sits, w

\* The parts of a concatenation sit in it, and nothing else does.
LEMMA JoinedSits ==
    ASSUME NEW S, NEW s \in Seq(S), NEW u \in Seq(S)
    PROVE  /\ s \o u \in Seq(S) /\ Len(s \o u) = Len(s) + Len(u)
           /\ Sits(s, s \o u, 0) /\ Sits(u, s \o u, Len(s))
<1> DEFINE w == s \o u
<1>1. w \in Seq(S) /\ Joins(w, s, u)
    BY Joined
<1> HIDE DEF w
<1>2. Len(s) \in Nat /\ Len(u) \in Nat
    OBVIOUS
<1>3. Sits(s, w, 0) /\ Sits(u, w, Len(s))
    BY <1>1, <1>2 DEF Sits, Joins
<1> QED
    BY <1>1, <1>3 DEF w, Joins

\* What sits in s sits in anything s sits in.
LEMMA SitsIn ==
    ASSUME NEW S, NEW u \in Seq(S), NEW s \in Seq(S), NEW t \in Seq(S), NEW a, NEW b,
           Sits(u, s, a), Sits(s, t, b)
    PROVE  Sits(u, t, b + a)
<1>1. /\ a \in Nat /\ a + Len(u) <= Len(s) /\ \A k \in 1 .. Len(u) : s[a + k] = u[k]
      /\ b \in Nat /\ b + Len(s) <= Len(t) /\ \A k \in 1 .. Len(s) : t[b + k] = s[k]
    BY DEF Sits
<1>2. Len(s) \in Nat /\ Len(t) \in Nat /\ Len(u) \in Nat
    OBVIOUS
<1>3. b + a \in Nat /\ (b + a) + Len(u) <= Len(t)
    BY <1>1, <1>2
<1>4. ASSUME NEW k \in 1 .. Len(u) PROVE t[(b + a) + k] = u[k]
    <2>1. a + k \in 1 .. Len(s) /\ (b + a) + k = b + (a + k)
        BY <1>1, <1>2
    <2> QED
        BY <1>1, <2>1
<1> QED
    BY <1>3, <1>4 DEF Sits

LEMMA WholeSits ==
    ASSUME NEW S, NEW s \in Seq(S)
    PROVE  Sits(s, s, 0)
BY DEF Sits

(***************************************************************************)
(* t is cut into the messages ms, which end at `ends`.                     *)
(***************************************************************************)
Cuts(t, ms, ends) ==
    /\ ms \in Seq(Seq(Byte))
    /\ ends \in [0 .. Len(ms) -> Nat] /\ ends[0] = 0 /\ ends[Len(ms)] = Len(t)
    /\ \A i \in 1 .. Len(ms) : ends[i] = ends[i-1] + Len(ms[i]) /\ Sits(ms[i], t, ends[i-1])
    /\ \A i, j \in 0 .. Len(ms) : i <= j => ends[i] <= ends[j]

LEMMA CutsNone == Cuts(<<>>, <<>>, [i \in 0 .. 0 |-> 0])
<1> DEFINE e == [i \in 0 .. 0 |-> 0]
<1>1. <<>> \in Seq(Seq(Byte)) /\ Len(<<>>) = 0
    OBVIOUS
<1>2. e \in [0 .. 0 -> Nat] /\ e[0] = 0 /\ \A i \in 0 .. 0 : e[i] = 0
    OBVIOUS
<1> HIDE DEF e
<1>3. \A i \in 1 .. 0 : FALSE
    OBVIOUS
<1>4. \A i, j \in 0 .. 0 : e[i] <= e[j]
    BY <1>2
<1> QED
    BY <1>1, <1>2, <1>3, <1>4 DEF Cuts, e

LEMMA CutsAppend ==
    ASSUME NEW t \in Seq(Byte), NEW ms, NEW ends, Cuts(t, ms, ends), NEW m \in Seq(Byte)
    PROVE  Cuts(t \o m, Append(ms, m),
                [i \in 0 .. Len(ms) + 1 |-> IF i <= Len(ms) THEN ends[i] ELSE Len(t) + Len(m)])
<1> DEFINE n  == Len(ms)
           t2 == t \o m
           m2 == Append(ms, m)
           e2 == [i \in 0 .. n + 1 |-> IF i <= n THEN ends[i] ELSE Len(t) + Len(m)]
<1>1. /\ ms \in Seq(Seq(Byte)) /\ n \in Nat
      /\ ends \in [0 .. n -> Nat] /\ ends[0] = 0 /\ ends[n] = Len(t)
      /\ \A i \in 1 .. n : ends[i] = ends[i-1] + Len(ms[i]) /\ Sits(ms[i], t, ends[i-1])
      /\ \A i, j \in 0 .. n : i <= j => ends[i] <= ends[j]
    BY DEF Cuts
<1>2. t2 \in Seq(Byte) /\ Len(t2) = Len(t) + Len(m) /\ Sits(t, t2, 0) /\ Sits(m, t2, Len(t))
    BY JoinedSits
<1>3. /\ m2 \in Seq(Seq(Byte)) /\ Len(m2) = n + 1 /\ m2[n+1] = m
      /\ \A i \in 1 .. n : m2[i] = ms[i]
    BY <1>1
<1>4. Len(t) \in Nat /\ Len(m) \in Nat
    OBVIOUS
<1>5. /\ e2 \in [0 .. n + 1 -> Nat] /\ e2[n+1] = Len(t) + Len(m)
      /\ \A i \in 0 .. n : e2[i] = ends[i]
    BY <1>1, <1>4
<1> HIDE DEF n, t2, m2, e2
<1>6. ASSUME NEW i \in 1 .. n + 1
      PROVE  e2[i] = e2[i-1] + Len(m2[i]) /\ Sits(m2[i], t2, e2[i-1])
    <2>1. CASE i = n + 1
        <3>1. i - 1 = n /\ n \in 0 .. n
            BY <1>1, <2>1
        <3>2. e2[i-1] = Len(t)
            BY <1>1, <1>5, <3>1
        <3> QED
            BY <1>2, <1>3, <1>5, <2>1, <3>2
    <2>2. CASE i # n + 1
        <3>1. i \in 1 .. n /\ i \in 0 .. n /\ i - 1 \in 0 .. n
            BY <1>1, <2>2
        <3>2. e2[i] = ends[i] /\ e2[i-1] = ends[i-1] /\ m2[i] = ms[i]
            BY <1>3, <1>5, <3>1
        <3>3. ms[i] \in Seq(Byte) /\ Sits(ms[i], t, ends[i-1]) /\ ends[i] = ends[i-1] + Len(ms[i])
            BY <1>1, <3>1 DEF n
        <3>4. Sits(ms[i], t2, 0 + ends[i-1])
            BY <1>2, <3>3, SitsIn
        <3>5. 0 + ends[i-1] = ends[i-1]
            BY <1>1, <3>1
        <3> QED
            BY <3>2, <3>3, <3>4, <3>5
    <2> QED
        BY <2>1, <2>2
<1>7. ASSUME NEW i \in 0 .. n + 1, NEW j \in 0 .. n + 1, i <= j PROVE e2[i] <= e2[j]
    <2>1. CASE j = n + 1
        <3>1. CASE i = n + 1
            BY <1>5, <2>1, <3>1
        <3>2. CASE i # n + 1
            <4>1. i \in 0 .. n /\ n \in 0 .. n /\ i <= n
                BY <1>1, <3>2
            <4>2. e2[i] <= Len(t) /\ e2[i] \in Nat
                BY <1>1, <1>5, <4>1
            <4> QED
                BY <1>4, <1>5, <2>1, <4>2
        <3> QED
            BY <3>1, <3>2
    <2>2. CASE j # n + 1
        <3>1. i \in 0 .. n /\ j \in 0 .. n
            BY <1>1, <1>7, <2>2
        <3> QED
            BY <1>1, <1>5, <1>7, <3>1
    <2> QED
        BY <2>1, <2>2
<1>8. e2[0] = 0 /\ e2[n+1] = Len(t2)
    <2>1. 0 \in 0 .. n
        BY <1>1
    <2> QED
        BY <1>1, <1>2, <1>5, <2>1
<1>9. Cuts(t2, m2, e2)
    <2> DEFINE l == Len(m2)
    <2>1. l = n + 1
        BY <1>3
    <2> QED
        BY <1>3, <1>5, <1>6, <1>7, <1>8, <2>1 DEF Cuts
<1> QED
    BY <1>9 DEF t2, m2, e2, n

LEMMA CutsFirst ==
    ASSUME NEW t \in Seq(Byte), NEW ms, NEW ends, Cuts(t, ms, ends), ms # <<>>
    PROVE  ms[1] \in Seq(Byte) /\ Sits(ms[1], t, 0) /\ ends[1] = Len(ms[1])
<1>1. ms \in Seq(Seq(Byte)) /\ 1 \in 1 .. Len(ms) /\ 1 - 1 = 0
    BY DEF Cuts
<1>2. ms[1] \in Seq(Byte) /\ Len(ms[1]) \in Nat
    BY <1>1
<1>3. ends[0] = 0 /\ ends[1] = ends[1-1] + Len(ms[1]) /\ Sits(ms[1], t, ends[1-1])
    BY <1>1 DEF Cuts
<1> QED
    BY <1>2, <1>3

LEMMA CutsEmpty ==
    ASSUME NEW t \in Seq(Byte), NEW ends, Cuts(t, <<>>, ends)
    PROVE  t = <<>>
<1>1. Len(<<>>) = 0 /\ ends[0] = 0 /\ ends[Len(<<>>)] = Len(t)
    BY DEF Cuts
<1> QED
    BY <1>1

LEMMA CutsTail ==
    ASSUME NEW t \in Seq(Byte), NEW ms, NEW ends, Cuts(t, ms, ends), ms # <<>>
    PROVE  /\ SubSeq(t, Len(ms[1]) + 1, Len(t)) \in Seq(Byte)
           /\ Cuts(SubSeq(t, Len(ms[1]) + 1, Len(t)), Tail(ms),
                   [i \in 0 .. Len(ms) - 1 |-> ends[i+1] - Len(ms[1])])
<1> DEFINE n  == Len(ms)
           l  == Len(ms[1])
           t2 == SubSeq(t, l + 1, Len(t))
           m2 == Tail(ms)
           e2 == [i \in 0 .. n - 1 |-> ends[i+1] - l]
<1>1. /\ ms \in Seq(Seq(Byte)) /\ n \in Nat /\ n >= 1
      /\ ends \in [0 .. n -> Nat] /\ ends[0] = 0 /\ ends[n] = Len(t)
      /\ \A i \in 1 .. n : ends[i] = ends[i-1] + Len(ms[i]) /\ Sits(ms[i], t, ends[i-1])
      /\ \A i, j \in 0 .. n : i <= j => ends[i] <= ends[j]
    BY DEF Cuts
<1>2. ms[1] \in Seq(Byte) /\ Sits(ms[1], t, 0) /\ ends[1] = l
    BY CutsFirst
<1>3. l \in Nat /\ Len(t) \in Nat /\ l <= Len(t)
    BY <1>2 DEF Sits
<1>4. t2 \in Seq(Byte) /\ Len(t2) = Len(t) - l /\ \A i \in 1 .. Len(t) - l : t2[i] = t[l + i]
    <2> DEFINE p == l + 1
               q == Len(t)
    <2>1. p \in Int /\ q \in Int /\ 1 <= p /\ p <= q + 1 /\ q <= Len(t) /\ q - p + 1 = Len(t) - l
        BY <1>3
    <2>2. t2 = SubSeq(t, p, q)
        OBVIOUS
    <2>3. \A i \in 1 .. Len(t) - l : p + i - 1 = l + i
        BY <1>3
    <2> HIDE DEF p, q, t2
    <2>4. /\ SubSeq(t, p, q) \in Seq(Byte) /\ Len(SubSeq(t, p, q)) = q - p + 1
          /\ \A i \in 1 .. q - p + 1 : SubSeq(t, p, q)[i] = t[p + i - 1]
        BY <2>1, PartIs
    <2> QED
        BY <2>1, <2>2, <2>3, <2>4
<1>5. /\ m2 \in Seq(Seq(Byte)) /\ Len(m2) = n - 1
      /\ \A i \in 1 .. n - 1 : m2[i] = ms[i+1]
    BY <1>1
<1>6. \A i \in 0 .. n - 1 : e2[i] = ends[i+1] - l /\ i + 1 \in 0 .. n /\ 1 <= i + 1
    BY <1>1
<1>7. e2 \in [0 .. n - 1 -> Nat]
    <2> SUFFICES ASSUME NEW i \in 0 .. n - 1 PROVE ends[i+1] - l \in Nat
        OBVIOUS
    <2>1. i + 1 \in 0 .. n /\ 1 \in 0 .. n /\ 1 <= i + 1
        BY <1>1
    <2>2. ends[1] <= ends[i+1] /\ ends[i+1] \in Nat
        BY <1>1, <2>1
    <2> QED
        BY <1>2, <1>3, <2>2
<1> HIDE DEF n, l, t2, m2, e2
<1>8. ASSUME NEW i \in 1 .. n - 1
      PROVE  e2[i] = e2[i-1] + Len(m2[i]) /\ Sits(m2[i], t2, e2[i-1])
    <2>1. i \in 0 .. n - 1 /\ i - 1 \in 0 .. n - 1 /\ i + 1 \in 1 .. n /\ (i - 1) + 1 = i /\ (i + 1) - 1 = i
          /\ i \in 0 .. n /\ i + 1 \in 0 .. n
        BY <1>1
    <2>2. e2[i] = ends[i+1] - l /\ e2[i-1] = ends[i] - l /\ m2[i] = ms[i+1]
        BY <1>5, <1>6, <2>1
    <2>3. ends[i+1] = ends[(i+1)-1] + Len(ms[i+1]) /\ Sits(ms[i+1], t, ends[(i+1)-1])
        BY <1>1, <2>1
    <2>4. ms[i+1] \in Seq(Byte) /\ Len(ms[i+1]) \in Nat
        BY <1>1, <2>1 DEF n
    <2>5. ends[i] \in Nat /\ ends[i+1] \in Nat /\ e2[i-1] \in Nat
        BY <1>1, <1>7, <2>1
    <2>6. e2[i] = e2[i-1] + Len(m2[i])
        BY <1>3, <2>1, <2>2, <2>3, <2>4, <2>5
    <2>7. ends[i] + Len(ms[i+1]) <= Len(t) /\ \A k \in 1 .. Len(ms[i+1]) : t[ends[i] + k] = ms[i+1][k]
        BY <2>1, <2>3 DEF Sits
    <2>8. e2[i-1] + Len(ms[i+1]) <= Len(t2)
        <3>1. ASSUME NEW a \in Nat, NEW c \in Nat, NEW T \in Nat, NEW d \in Nat, a + c <= T
              PROVE  (a - d) + c <= T - d
            BY <3>1
        <3>2. (ends[i] - l) + Len(ms[i+1]) <= Len(t) - l
            <4>1. ends[i] + Len(ms[i+1]) <= Len(t)
                BY <2>7
            <4> QED
                BY ONLY <1>3, <2>4, <2>5, <3>1, <4>1
        <3>3. e2[i-1] = ends[i] - l /\ Len(t2) = Len(t) - l
            BY <1>4, <2>2
        <3> QED
            BY ONLY <3>2, <3>3
    <2>9. ASSUME NEW k \in 1 .. Len(ms[i+1]) PROVE t2[e2[i-1] + k] = ms[i+1][k]
        <3> DEFINE a == e2[i-1]
                   b == ends[i]
                   c == Len(ms[i+1])
                   T == Len(t)
        <3>0. /\ a \in Nat /\ b \in Nat /\ c \in Nat /\ T \in Nat /\ l \in Nat /\ k \in 1 .. c
              /\ a + c <= T - l /\ a = b - l
            BY <1>3, <1>4, <2>2, <2>4, <2>5, <2>8
        <3> HIDE DEF a, b, c, T
        <3>1. a + k \in 1 .. T - l /\ l + (a + k) = b + k
            BY ONLY <3>0
        <3>2. t2[a + k] = t[l + (a + k)] /\ t[b + k] = ms[i+1][k]
            BY <1>4, <2>7, <3>1 DEF a, b, c, T
        <3>3. t2[a + k] = ms[i+1][k]
            BY ONLY <3>1, <3>2
        <3> QED
            BY <3>3 DEF a
    <2>10. Sits(ms[i+1], t2, e2[i-1])
        BY <2>5, <2>8, <2>9 DEF Sits
    <2> QED
        BY <2>2, <2>6, <2>10
<1>9. ASSUME NEW i \in 0 .. n - 1, NEW j \in 0 .. n - 1, i <= j PROVE e2[i] <= e2[j]
    <2>1. i + 1 \in 0 .. n /\ j + 1 \in 0 .. n /\ i + 1 <= j + 1
        BY <1>1, <1>9
    <2>2. ends[i+1] <= ends[j+1] /\ ends[i+1] \in Nat /\ ends[j+1] \in Nat
        BY <1>1, <2>1
    <2> QED
        BY <1>3, <1>6, <2>2
<1>10. e2[0] = 0 /\ e2[n-1] = Len(t2)
    <2>1. 0 \in 0 .. n - 1 /\ n - 1 \in 0 .. n - 1 /\ (n - 1) + 1 = n /\ 0 + 1 = 1
        BY <1>1
    <2>2. e2[0] = ends[0+1] - l /\ e2[n-1] = ends[(n-1)+1] - l
        BY <1>6, <2>1
    <2>3. Len(t2) = Len(t) - l
        BY <1>4
    <2>4. ends[0+1] = l /\ ends[(n-1)+1] = Len(t)
        BY <1>1, <1>2, <2>1
    <2> QED
        BY ONLY <1>3, <2>2, <2>3, <2>4
<1>11. Cuts(t2, m2, e2)
    <2>1. Len(m2) = n - 1
        BY <1>5
    <2> QED
        BY <1>5, <1>7, <1>8, <1>9, <1>10, <2>1 DEF Cuts
<1> QED
    BY <1>4, <1>11 DEF t2, m2, e2, n, l

(***************************************************************************)
(* What the reader of a stream takes for a message.                        *)
(***************************************************************************)
\* A message whose header says how long it is.
Framed(m) ==
    /\ m \in Seq(Byte) /\ Len(m) >= HeaderLen
    /\ IF Tcp THEN 256 * m[5] + m[6] = Len(m) - 6 ELSE 256 * m[1] + m[2] = Len(m) - 2

\* The wire message in it.
Inside(m) == IF Tcp THEN m ELSE SubSeq(m, 3, Len(m))

LEMMA HeaderLenIs == HeaderLen \in Nat /\ HeaderLen >= 1
BY DEF HeaderLen

LEMMA HeaderSays ==
    ASSUME NEW m, Framed(m), NEW h \in Seq(Byte), Len(h) = HeaderLen, NEW t,
           Sits(h, t, 0), Sits(m, t, 0)
    PROVE  BodyLen(h) = Len(m) - HeaderLen
<1>1. Len(m) \in Nat /\ m \in Seq(Byte) /\ Len(m) >= HeaderLen
    BY DEF Framed
<1>2. ASSUME NEW k \in 1 .. HeaderLen PROVE h[k] = m[k]
    <2>1. k \in 1 .. Len(h) /\ k \in 1 .. Len(m) /\ 0 + k = k
        BY <1>1, HeaderLenIs
    <2> QED
        BY <2>1 DEF Sits
<1>3. CASE Tcp
    <2>1. HeaderLen = 7 /\ 5 \in 1 .. HeaderLen /\ 6 \in 1 .. HeaderLen /\ 5 \in 1 .. Len(h) - 1
        BY <1>3 DEF HeaderLen
    <2>2. Int16(Bytes(h, 5, 2)) = 256 * h[5] + h[5+1]
        <3> DEFINE p == 5
        <3>1. p \in 1 .. Len(h) - 1
            BY <2>1
        <3> HIDE DEF p
        <3>2. Int16(Bytes(h, p, 2)) = 256 * h[p] + h[p+1]
            BY ONLY h \in Seq(Byte), <3>1, PairAt
        <3> QED
            BY <3>2 DEF p
    <2>3. h[5] = m[5] /\ h[6] = m[6]
        BY <1>2, <2>1
    <2>4. 256 * m[5] + m[6] = Len(m) - 6 /\ BodyLen(h) = Int16(Bytes(h, 5, 2)) - 1
        BY <1>3 DEF Framed, BodyLen
    <2>5. BodyLen(h) = (Len(m) - 6) - 1
        BY ONLY <2>2, <2>3, <2>4
    <2> QED
        BY ONLY <1>1, <2>1, <2>5
<1>4. CASE ~Tcp
    <2>1. HeaderLen = 2 /\ 1 \in 1 .. HeaderLen /\ 2 \in 1 .. HeaderLen
        BY <1>4 DEF HeaderLen
    <2>2. h[1] = m[1] /\ h[2] = m[2]
        BY <1>2, <2>1
    <2>3. 256 * m[1] + m[2] = Len(m) - 2 /\ BodyLen(h) = 256 * h[1] + h[2]
        BY <1>4 DEF Framed, BodyLen, Int16
    <2> QED
        BY <2>1, <2>2, <2>3
<1> QED
    BY <1>3, <1>4

LEMMA TransportIs ==
    ASSUME NEW w, Carried(w)
    PROVE  Framed(Transport(w)) /\ Inside(Transport(w)) = w
<1>1. w \in Seq(Byte) /\ Len(w) \in Nat
    BY DEF Carried
<1>2. CASE Tcp
    BY <1>1, <1>2 DEF Carried, Framed, Transport, HeaderLen, Inside
<1>3. CASE ~Tcp
    <2> DEFINE n == Len(w)
               h == U16(n)
               m == h \o w
    <2>1. n \in Word
        BY <1>3 DEF Carried
    <2> HIDE DEF n
    <2>2. h \in Seq(Byte) /\ Len(h) = 2 /\ Int16(h) = n
        BY <2>1, TwoBytes
    <2> HIDE DEF h
    <2>3. m \in Seq(Byte) /\ Joins(m, h, w)
        BY <1>1, <2>2, Joined
    <2>4. SubSeq(m, Len(h) + 1, Len(m)) = w
        BY <1>1, <2>2, Parted
    <2> HIDE DEF m
    <2>5. Len(m) = 2 + n /\ m[1] = h[1] /\ m[2] = h[2]
        <3>1. 1 \in 1 .. Len(h) /\ 2 \in 1 .. Len(h)
            BY <2>2
        <3> QED
            BY <2>2, <2>3, <3>1 DEF Joins, n
    <2>6. 256 * m[1] + m[2] = Len(m) - 2
        <3>1. 256 * h[1] + h[2] = n /\ n \in Nat
            BY <1>1, <2>2 DEF Int16, n
        <3> QED
            BY <2>5, <3>1
    <2>7. Framed(m)
        <3>1. Len(m) >= 2
            BY <1>1, <2>5 DEF n
        <3> QED
            BY <1>3, <2>3, <2>6, <3>1 DEF Framed, HeaderLen
    <2>8. Inside(m) = w
        <3>1. Len(h) + 1 = 3
            BY <2>2
        <3> QED
            BY <1>3, <2>4, <3>1 DEF Inside
    <2>9. Transport(w) = m
        BY <1>3 DEF Transport, m, h, n
    <2> QED
        BY <2>7, <2>8, <2>9
<1> QED
    BY <1>2, <1>3

(***************************************************************************)
(* The bytes of a stream, and where its parts sit among them.              *)
(***************************************************************************)
Stream(s)   == s.header \o s.buffer \o s.flying
HeaderOk(s) == s.header = <<>> \/ Len(s.header) = HeaderLen
Taken(s)    == Len(s.header) + Len(s.buffer)

Laid(s, t) ==
    /\ Sits(s.header, t, 0) /\ Sits(s.buffer, t, Len(s.header)) /\ Sits(s.flying, t, Taken(s))
    /\ Len(t) = Taken(s) + Len(s.flying)

LEMMA PartsAre ==
    ASSUME NEW s \in StreamType
    PROVE  /\ s.header \in Seq(Byte) /\ s.buffer \in Seq(Byte) /\ s.flying \in Seq(Byte)
           /\ Len(s.header) \in Nat /\ Len(s.buffer) \in Nat /\ Len(s.flying) \in Nat
           /\ Taken(s) \in Nat
BY DEF StreamType, Taken

LEMMA StreamIs ==
    ASSUME NEW s \in StreamType
    PROVE  Stream(s) \in Seq(Byte) /\ Laid(s, Stream(s))
<1> DEFINE h == s.header
           b == s.buffer
           f == s.flying
           u == h \o b
           t == u \o f
<1>1. h \in Seq(Byte) /\ b \in Seq(Byte) /\ f \in Seq(Byte)
    BY PartsAre
<1>2. t = Stream(s) /\ Taken(s) = Len(h) + Len(b)
    BY DEF Stream, Taken
<1> HIDE DEF h, b, f
<1>3. u \in Seq(Byte) /\ Len(u) = Len(h) + Len(b) /\ Sits(h, u, 0) /\ Sits(b, u, Len(h))
    BY ONLY <1>1, JoinedSits
<1> HIDE DEF u
<1>4. t \in Seq(Byte) /\ Len(t) = Len(u) + Len(f) /\ Sits(u, t, 0) /\ Sits(f, t, Len(u))
    BY ONLY <1>1, <1>3, JoinedSits
<1> HIDE DEF t
<1>5. Sits(h, t, 0 + 0) /\ Sits(b, t, 0 + Len(h))
    BY <1>1, <1>3, <1>4, SitsIn
<1>6. 0 + 0 = 0 /\ 0 + Len(h) = Len(h)
    BY <1>1
<1>7. Sits(h, t, 0) /\ Sits(b, t, Len(h)) /\ Sits(f, t, Taken(s)) /\ Len(t) = Taken(s) + Len(f)
    BY <1>2, <1>3, <1>4, <1>5, <1>6
<1> QED
    BY <1>2, <1>4, <1>7 DEF Laid, h, b, f

\* A stream laid out in t has the bytes of t.
LEMMA LaidIs ==
    ASSUME NEW s \in StreamType, NEW t \in Seq(Byte), Laid(s, t)
    PROVE  Stream(s) = t
<1> DEFINE h == s.header
           b == s.buffer
           f == s.flying
           u == h \o b
           v == u \o f
<1>1. h \in Seq(Byte) /\ b \in Seq(Byte) /\ f \in Seq(Byte)
    BY PartsAre
<1>2. v = Stream(s) /\ Taken(s) = Len(h) + Len(b)
    BY DEF Stream, Taken
<1>3. Sits(h, t, 0) /\ Sits(b, t, Len(h)) /\ Sits(f, t, Len(h) + Len(b)) /\ Len(t) = Len(h) + Len(b) + Len(f)
    BY DEF Laid, Taken
<1> HIDE DEF h, b, f
<1>4. 0 + Len(h) = Len(h) /\ 0 + (Len(h) + Len(b)) = Len(h) + Len(b)
    BY <1>1
<1>5. Sits(b, t, 0 + Len(h))
    BY <1>3, <1>4
<1>6. u \in Seq(Byte) /\ Len(u) = Len(h) + Len(b) /\ Sits(u, t, 0)
    BY ONLY <1>1, <1>3, <1>5, SitsJoined, t \in Seq(Byte)
<1> HIDE DEF u
<1>7. Sits(f, t, 0 + Len(u))
    BY <1>3, <1>4, <1>6
<1>8. v \in Seq(Byte) /\ Len(v) = Len(u) + Len(f) /\ Sits(v, t, 0)
    BY ONLY <1>1, <1>6, <1>7, SitsJoined, t \in Seq(Byte)
<1> HIDE DEF v
<1>9. Len(v) = Len(t)
    BY <1>3, <1>6, <1>8
<1>10. v = t
    BY <1>8, <1>9, WholeSits, SitsSame
<1> QED
    BY <1>2, <1>10

(***************************************************************************)
(* What the operations of a stream do to its bytes.                        *)
(***************************************************************************)
StreamOf(f, b, h) == [flying |-> f, buffer |-> b, header |-> h]
LEMMA StreamMade ==
    ASSUME NEW s \in StreamType
    PROVE  s = StreamOf(s.flying, s.buffer, s.header)
BY DEF StreamType, StreamOf

LEMMA StreamChanged ==
    ASSUME NEW s \in StreamType, NEW new
    PROVE  /\ [s EXCEPT !.flying = new] = StreamOf(new, s.buffer, s.header)
           /\ [s EXCEPT !.buffer = new] = StreamOf(s.flying, new, s.header)
           /\ [s EXCEPT !.header = new] = StreamOf(s.flying, s.buffer, new)
BY StreamMade DEF StreamOf
LEMMA ArrivedWith ==
    ASSUME NEW s \in StreamType, NEW f \in Seq(Byte), NEW b
    PROVE  [s EXCEPT !.flying = f, !.buffer = b] = StreamOf(f, b, s.header)
<1> DEFINE r == [s EXCEPT !.flying = f]
<1>1. [s EXCEPT !.flying = f, !.buffer = b] = [r EXCEPT !.buffer = b]
    OBVIOUS
<1>2. r = StreamOf(f, s.buffer, s.header)
    BY StreamChanged
<1> HIDE DEF r
<1>3. r \in StreamType /\ r.flying = f /\ r.header = s.header
    BY <1>2 DEF StreamType, StreamOf
<1>4. [r EXCEPT !.buffer = b] = StreamOf(r.flying, b, r.header)
    BY <1>3, StreamChanged
<1> QED
    BY <1>1, <1>3, <1>4

LEMMA TakenWith ==
    ASSUME NEW s \in StreamType, NEW h \in Seq(Byte), NEW b
    PROVE  [s EXCEPT !.header = h, !.buffer = b] = StreamOf(s.flying, b, h)
<1> DEFINE r == [s EXCEPT !.header = h]
<1>1. [s EXCEPT !.header = h, !.buffer = b] = [r EXCEPT !.buffer = b]
    OBVIOUS
<1>2. r = StreamOf(s.flying, s.buffer, h)
    BY StreamChanged
<1> HIDE DEF r
<1>3. r \in StreamType /\ r.flying = s.flying /\ r.header = h
    BY <1>2 DEF StreamType, StreamOf
<1>4. [r EXCEPT !.buffer = b] = StreamOf(r.flying, b, r.header)
    BY <1>3, StreamChanged
<1> QED
    BY <1>1, <1>3, <1>4

LEMMA ArrivedIs ==
    ASSUME NEW s \in StreamType, NEW n \in 0 .. Len(s.flying)
    PROVE  LET s2 == Arrived(s, n)
           IN  /\ s2 \in StreamType /\ Stream(s2) = Stream(s)
               /\ s2.header = s.header /\ Len(s2.buffer) = Len(s.buffer) + n
<1> DEFINE s2 == Arrived(s, n)
           t  == Stream(s)
           f  == s.flying
           b  == s.buffer
           a  == SubSeq(f, 1, n)
           r  == SubSeq(f, n + 1, Len(f))
           at == Taken(s)
           l  == Len(s.header)
<1>1. /\ s.header \in Seq(Byte) /\ b \in Seq(Byte) /\ f \in Seq(Byte)
      /\ l \in Nat /\ Len(b) \in Nat /\ Len(f) \in Nat /\ at \in Nat /\ at = l + Len(b)
      /\ n \in Nat /\ n <= Len(f)
    <2>1. Len(f) \in Nat /\ n \in 0 .. Len(f)
        BY PartsAre
    <2>2. n \in Nat /\ n <= Len(f)
        BY ONLY <2>1
    <2>3. at = l + Len(b)
        BY DEF Taken
    <2> QED
        BY <2>2, <2>3, PartsAre
<1>2. t \in Seq(Byte) /\ Laid(s, t)
    BY StreamIs
<1>3. /\ Sits(s.header, t, 0) /\ Sits(b, t, l) /\ Sits(f, t, at) /\ Len(t) = at + Len(f)
    BY <1>2 DEF Laid
<1>a. s2 = [s EXCEPT !.flying = r, !.buffer = b \o a]
    BY DEF Arrived
<1> HIDE DEF s2, t, f, b, at, l
<1>5. a \in Seq(Byte) /\ Len(a) = n - 1 + 1 /\ Sits(a, t, at + 1 - 1)
    <2>1. 1 \in Int /\ n \in Int /\ 1 <= 1 /\ 1 <= n + 1 /\ n <= Len(f)
        BY <1>1
    <2> QED
        BY ONLY <1>1, <1>2, <1>3, <2>1, SitsPart
<1>6. r \in Seq(Byte) /\ Len(r) = Len(f) - (n + 1) + 1 /\ Sits(r, t, at + (n + 1) - 1)
    <2> DEFINE p == n + 1
               q == Len(f)
    <2>1. p \in Int /\ q \in Int /\ 1 <= p /\ p <= q + 1 /\ q <= Len(f)
        BY <1>1
    <2>2. r = SubSeq(f, p, q)
        OBVIOUS
    <2> HIDE DEF p, q, r
    <2>3. /\ SubSeq(f, p, q) \in Seq(Byte) /\ Len(SubSeq(f, p, q)) = q - p + 1
          /\ Sits(SubSeq(f, p, q), t, at + p - 1)
        <3>1. f \in Seq(Byte) /\ t \in Seq(Byte) /\ Sits(f, t, at)
            BY <1>1, <1>2, <1>3
        <3> QED
            BY ONLY <2>1, <3>1, SitsPart
    <2> QED
        BY <2>2, <2>3 DEF p, q
<1> HIDE DEF a, r
<1>4. s2.flying = r /\ s2.buffer = b \o a /\ s2.header = s.header /\ s2 = StreamOf(r, b \o a, s.header)
    <2>1. s2 = StreamOf(r, b \o a, s.header)
        <3> DEFINE ba == b \o a
        <3> HIDE DEF ba
        <3>1. [s EXCEPT !.flying = r, !.buffer = ba] = StreamOf(r, ba, s.header)
            BY <1>1, <1>6, ArrivedWith
        <3> QED
            BY <1>a, <3>1 DEF ba
    <2> QED
        BY <2>1 DEF StreamOf
<1>7. Len(a) = n /\ at + 1 - 1 = l + Len(b) /\ Len(r) = Len(f) - n /\ at + (n + 1) - 1 = l + (Len(b) + n)
    BY <1>1, <1>5, <1>6
<1>8. b \o a \in Seq(Byte) /\ Len(b \o a) = Len(b) + Len(a) /\ Sits(b \o a, t, l)
    BY ONLY <1>1, <1>2, <1>3, <1>5, <1>7, SitsJoined
<1>9. s2 \in StreamType
    BY <1>1, <1>4, <1>6, <1>8 DEF StreamType, StreamOf
<1>10. Laid(s2, t)
    <2>1. s2.header = s.header /\ s2.buffer = b \o a /\ s2.flying = r
        BY <1>4
    <2>2. Taken(s2) = l + (Len(b) + n)
        BY <1>7, <1>8, <2>1 DEF Taken, l
    <2>3. Len(t) = Taken(s2) + Len(r)
        BY <1>1, <1>3, <1>7, <2>2
    <2>4. Sits(r, t, Taken(s2))
        BY <1>6, <1>7, <2>2
    <2> QED
        BY <1>3, <1>8, <2>1, <2>3, <2>4 DEF Laid, l
<1>11. Stream(s2) = t
    BY <1>2, <1>9, <1>10, LaidIs
<1> QED
    BY <1>4, <1>7, <1>8, <1>9, <1>11 DEF s2, t, b

\* The header in front, and what has arrived behind it.
LEMMA HeaderIs ==
    ASSUME NEW s \in StreamType, HeaderOk(s), HasHeader(s)
    PROVE  /\ Header(s) \in Seq(Byte) /\ Len(Header(s)) = HeaderLen /\ Sits(Header(s), Stream(s), 0)
           /\ Unread(s) \in Seq(Byte) /\ Len(Unread(s)) = Taken(s) - HeaderLen
           /\ Sits(Unread(s), Stream(s), HeaderLen)
<1> DEFINE t == Stream(s)
<1>1. /\ s.header \in Seq(Byte) /\ s.buffer \in Seq(Byte)
      /\ Len(s.header) \in Nat /\ Len(s.buffer) \in Nat /\ Taken(s) = Len(s.header) + Len(s.buffer)
    BY PartsAre DEF Taken
<1>2. t \in Seq(Byte) /\ Sits(s.header, t, 0) /\ Sits(s.buffer, t, Len(s.header))
    BY StreamIs DEF Laid
<1>3. HeaderLen \in Nat /\ HeaderLen >= 1
    BY HeaderLenIs
<1> HIDE DEF t
<1>4. CASE s.header # <<>>
    <2>1. Len(s.header) = HeaderLen /\ Header(s) = s.header /\ Unread(s) = s.buffer
        BY <1>4 DEF HeaderOk, Header, Unread
    <2>2. Len(s.buffer) = Taken(s) - HeaderLen
        BY <1>1, <1>3, <2>1
    <2> QED
        BY <1>1, <1>2, <2>1, <2>2 DEF t
<1>5. CASE s.header = <<>>
    <2>1. Len(s.header) = 0 /\ Len(s.buffer) >= HeaderLen
        BY <1>5 DEF HasHeader
    <2>2. Sits(s.buffer, t, 0) /\ Taken(s) = Len(s.buffer)
        BY <1>1, <1>2, <2>1
    <2> DEFINE b == s.buffer
               n == HeaderLen
    <2>3. b \in Seq(Byte) /\ n \in Nat /\ n >= 1 /\ n <= Len(b) /\ Len(b) \in Nat /\ Sits(b, t, 0)
        BY <1>1, <1>3, <2>1, <2>2
    <2>4. Header(s) = SubSeq(b, 1, n) /\ Unread(s) = SubSeq(b, n + 1, Len(b))
        BY <1>5 DEF Header, Unread
    <2> HIDE DEF b, n
    <2>5. /\ SubSeq(b, 1, n) \in Seq(Byte) /\ Len(SubSeq(b, 1, n)) = n - 1 + 1
          /\ Sits(SubSeq(b, 1, n), t, 0 + 1 - 1)
        <3>1. 1 \in Int /\ n \in Int /\ 1 <= 1 /\ 1 <= n + 1 /\ n <= Len(b)
            BY <2>3
        <3> QED
            BY ONLY <1>2, <2>3, <3>1, SitsPart
    <2>6. /\ SubSeq(b, n + 1, Len(b)) \in Seq(Byte) /\ Len(SubSeq(b, n + 1, Len(b))) = Len(b) - (n + 1) + 1
          /\ Sits(SubSeq(b, n + 1, Len(b)), t, 0 + (n + 1) - 1)
        <3>1. n + 1 \in Int /\ Len(b) \in Int /\ 1 <= n + 1 /\ n + 1 <= Len(b) + 1 /\ Len(b) <= Len(b)
            BY <2>3
        <3> QED
            BY ONLY <1>2, <2>3, <3>1, SitsPart
    <2>7. n - 1 + 1 = n /\ 0 + 1 - 1 = 0 /\ Len(b) - (n + 1) + 1 = Len(b) - n /\ 0 + (n + 1) - 1 = n
        BY <2>3
    <2> QED
        BY <2>2, <2>4, <2>5, <2>6, <2>7 DEF b, n, t
<1> QED
    BY <1>4, <1>5

LEMMA HeaderTakenIs ==
    ASSUME NEW s \in StreamType, HeaderOk(s), MustWait(s)
    PROVE  /\ HeaderTaken(s) \in StreamType /\ HeaderOk(HeaderTaken(s))
           /\ Stream(HeaderTaken(s)) = Stream(s)
<1> DEFINE s2 == HeaderTaken(s)
           t  == Stream(s)
<1>1. HasHeader(s) /\ s.header = <<>>
    BY DEF MustWait
<1>2. /\ Header(s) \in Seq(Byte) /\ Len(Header(s)) = HeaderLen /\ Sits(Header(s), t, 0)
      /\ Unread(s) \in Seq(Byte) /\ Len(Unread(s)) = Taken(s) - HeaderLen
      /\ Sits(Unread(s), t, HeaderLen)
    BY <1>1, HeaderIs
<1>3. s2 = StreamOf(s.flying, Unread(s), Header(s))
    <2> DEFINE h == Header(s)
               b == Unread(s)
    <2>1. s2 = [s EXCEPT !.header = h, !.buffer = b] /\ h \in Seq(Byte)
        BY <1>2 DEF HeaderTaken
    <2> HIDE DEF h, b, s2
    <2>2. [s EXCEPT !.header = h, !.buffer = b] = StreamOf(s.flying, b, h)
        BY ONLY <2>1, TakenWith, s \in StreamType
    <2> QED
        BY <2>1, <2>2 DEF h, b
<1>4. t \in Seq(Byte) /\ Sits(s.flying, t, Taken(s)) /\ Len(t) = Taken(s) + Len(s.flying)
    BY StreamIs DEF Laid
<1>5. s.flying \in Seq(Byte) /\ Taken(s) \in Nat
    BY PartsAre
<1> HIDE DEF s2, t
<1>6. s2 \in StreamType
    BY <1>2, <1>3, <1>5 DEF StreamType, StreamOf
<1>7. Taken(s2) = Taken(s)
    <2>1. s2.header = Header(s) /\ s2.buffer = Unread(s)
        BY <1>3 DEF StreamOf
    <2>2. Taken(s2) = HeaderLen + (Taken(s) - HeaderLen)
        BY <1>2, <2>1 DEF Taken
    <2> QED
        BY <1>5, <2>2, HeaderLenIs
<1>8. Laid(s2, t)
    BY <1>2, <1>3, <1>4, <1>7 DEF Laid, StreamOf
<1>9. Stream(s2) = t /\ HeaderOk(s2)
    BY <1>2, <1>3, <1>4, <1>6, <1>8, LaidIs DEF HeaderOk, StreamOf
<1> QED
    BY <1>6, <1>9 DEF s2, t

\* A message whose bytes are next.
LEMMA NextIs ==
    ASSUME NEW s \in StreamType, HeaderOk(s), NEW m, Framed(m), Sits(m, Stream(s), 0)
    PROVE  /\ HasHeader(s) => BodyLen(Header(s)) = Len(m) - HeaderLen
           /\ ~NegativeBody(s)
           /\ HasMessage(s) <=> Len(m) <= Taken(s)
<1>1. Len(m) \in Nat /\ Len(m) >= HeaderLen
    BY DEF Framed
<1>2. /\ s.header \in Seq(Byte) /\ s.buffer \in Seq(Byte)
      /\ Len(s.header) \in Nat /\ Len(s.buffer) \in Nat /\ Taken(s) = Len(s.header) + Len(s.buffer)
    BY PartsAre DEF Taken
<1>3. ASSUME HasHeader(s)
      PROVE  BodyLen(Header(s)) = Len(m) - HeaderLen /\ Len(Unread(s)) = Taken(s) - HeaderLen
    BY <1>3, HeaderIs, HeaderSays
<1>4. ~NegativeBody(s)
    BY <1>1, <1>3, HeaderLenIs DEF NegativeBody
<1>5. ASSUME HasMessage(s) PROVE Len(m) <= Taken(s)
    <2>1. HasHeader(s) /\ BodyLen(Header(s)) \in 0 .. Len(Unread(s))
        BY <1>5 DEF HasMessage
    <2>2. Len(m) - HeaderLen \in 0 .. Taken(s) - HeaderLen
        BY <1>3, <2>1
    <2>3. Len(m) \in Nat /\ HeaderLen \in Nat /\ Taken(s) \in Nat
        BY <1>1, HeaderLenIs, PartsAre
    <2> QED
        BY ONLY <2>2, <2>3
<1>6. ASSUME Len(m) <= Taken(s) PROVE HasMessage(s)
    <2>1. HasHeader(s)
        <3>1. CASE s.header = <<>>
            <4>1. Len(s.header) = 0
                BY <3>1
            <4> QED
                BY <1>1, <1>2, <1>6, <4>1, HeaderLenIs DEF HasHeader
        <3> QED
            BY <3>1 DEF HasHeader
    <2>2. Len(m) - HeaderLen \in 0 .. Taken(s) - HeaderLen
        <3>1. Len(m) \in Nat /\ HeaderLen \in Nat /\ Taken(s) \in Nat
            BY <1>1, HeaderLenIs, PartsAre
        <3> QED
            BY ONLY <1>1, <1>6, <3>1
    <2> QED
        BY <1>3, <2>1, <2>2 DEF HasMessage
<1> QED
    BY <1>3, <1>4, <1>5, <1>6

(***************************************************************************)
(* A message read.                                                         *)
(***************************************************************************)
\* The message and the rest of what has arrived, as parts of the stream.
LEMMA MessageParts ==
    ASSUME NEW s \in StreamType, HeaderOk(s), HasMessage(s)
    PROVE  LET h == Header(s)
               b == BodyLen(h)
               x == SubSeq(Unread(s), 1, b)
               y == SubSeq(Unread(s), b + 1, Len(Unread(s)))
           IN  /\ HasHeader(s) /\ b \in Nat
               /\ x \in Seq(Byte) /\ Len(x) = b /\ Sits(x, Stream(s), HeaderLen)
               /\ y \in Seq(Byte) /\ Len(y) = Taken(s) - HeaderLen - b
               /\ Sits(y, Stream(s), HeaderLen + b)
<1> DEFINE b == BodyLen(Header(s))
           u == Unread(s)
           t == Stream(s)
           l == HeaderLen
<1>1. HasHeader(s) /\ b \in 0 .. Len(u)
    BY DEF HasMessage
<1>2. u \in Seq(Byte) /\ Len(u) = Taken(s) - l /\ Sits(u, t, l)
    BY <1>1, HeaderIs
<1>3. t \in Seq(Byte) /\ l \in Nat
    BY StreamIs, HeaderLenIs
<1> HIDE DEF b, u, t, l
<1>4. Len(u) \in Nat /\ b \in Nat /\ b <= Len(u)
    BY ONLY <1>1, <1>2
<1>5. SubSeq(u, 1, b) \in Seq(Byte) /\ Len(SubSeq(u, 1, b)) = b - 1 + 1 /\ Sits(SubSeq(u, 1, b), t, l + 1 - 1)
    <2>1. 1 \in Int /\ b \in Int /\ 1 <= 1 /\ 1 <= b + 1 /\ b <= Len(u)
        BY ONLY <1>4
    <2> QED
        BY ONLY <1>2, <1>3, <2>1, SitsPart
<1>6. /\ SubSeq(u, b + 1, Len(u)) \in Seq(Byte) /\ Len(SubSeq(u, b + 1, Len(u))) = Len(u) - (b + 1) + 1
      /\ Sits(SubSeq(u, b + 1, Len(u)), t, l + (b + 1) - 1)
    <2> DEFINE p == b + 1
               q == Len(u)
    <2>1. p \in Int /\ q \in Int /\ 1 <= p /\ p <= q + 1 /\ q <= Len(u)
        BY ONLY <1>4
    <2> HIDE DEF p, q
    <2>2. /\ SubSeq(u, p, q) \in Seq(Byte) /\ Len(SubSeq(u, p, q)) = q - p + 1
          /\ Sits(SubSeq(u, p, q), t, l + p - 1)
        BY ONLY <1>2, <1>3, <2>1, SitsPart
    <2> QED
        BY <2>2 DEF p, q
<1>7. /\ b - 1 + 1 = b /\ l + 1 - 1 = l
      /\ Len(u) - (b + 1) + 1 = Len(u) - b /\ l + (b + 1) - 1 = l + b
    BY ONLY <1>3, <1>4
<1>8. Len(SubSeq(u, b + 1, Len(u))) = Taken(s) - l - b
    BY <1>2, <1>6, <1>7
<1> QED
    BY <1>1, <1>4, <1>5, <1>6, <1>7, <1>8 DEF b, u, t, l

LEMMA AfterIs ==
    ASSUME NEW s \in StreamType, HeaderOk(s), HasMessage(s)
    PROVE  /\ AfterMessage(s) \in StreamType /\ HeaderOk(AfterMessage(s))
           /\ AfterMessage(s).header = <<>> /\ AfterMessage(s).flying = s.flying
           /\ AfterMessage(s).buffer = SubSeq(Unread(s), BodyLen(Header(s)) + 1, Len(Unread(s)))
<1> DEFINE y == SubSeq(Unread(s), BodyLen(Header(s)) + 1, Len(Unread(s)))
           e == <<>>
<1>1. y \in Seq(Byte) /\ e \in Seq(Byte)
    BY MessageParts
<1>2. AfterMessage(s) = [s EXCEPT !.header = e, !.buffer = y]
    BY DEF AfterMessage
<1>3. s.flying \in Seq(Byte) /\ e = <<>>
    BY PartsAre
<1> HIDE DEF y, e
<1>4. [s EXCEPT !.header = e, !.buffer = y] = StreamOf(s.flying, y, e)
    BY <1>1, TakenWith
<1>5. AfterMessage(s) = [flying |-> s.flying, buffer |-> y, header |-> e]
    BY <1>2, <1>4 DEF StreamOf
<1> QED
    BY <1>1, <1>3, <1>5, SMTT(60) DEF StreamType, HeaderOk, y

LEMMA MessageType ==
    ASSUME NEW s \in StreamType, HeaderOk(s), HasMessage(s)
    PROVE  Message(s) \in Seq(Byte)
<1>1. SubSeq(Unread(s), 1, BodyLen(Header(s))) \in Seq(Byte) /\ HasHeader(s)
    BY MessageParts
<1>2. Header(s) \in Seq(Byte)
    BY <1>1, HeaderIs
<1> QED
    BY <1>1, <1>2 DEF Message

LEMMA MessageIs ==
    ASSUME NEW s \in StreamType, HeaderOk(s), HasMessage(s),
           NEW m, Framed(m), Sits(m, Stream(s), 0)
    PROVE  /\ Message(s) = Inside(m)
           /\ Stream(AfterMessage(s)) = SubSeq(Stream(s), Len(m) + 1, Len(Stream(s)))
           /\ Len(AfterMessage(s).buffer) = Taken(s) - Len(m)
           /\ Len(m) <= Taken(s)
<1> DEFINE h == Header(s)
           b == BodyLen(h)
           x == SubSeq(Unread(s), 1, b)
           y == SubSeq(Unread(s), b + 1, Len(Unread(s)))
           t == Stream(s)
           l == HeaderLen
           n == Len(m)
           s2 == AfterMessage(s)
<1>1. /\ HasHeader(s) /\ b \in Nat
      /\ x \in Seq(Byte) /\ Len(x) = b /\ Sits(x, t, l)
      /\ y \in Seq(Byte) /\ Len(y) = Taken(s) - l - b /\ Sits(y, t, l + b)
    BY MessageParts
<1>2. h \in Seq(Byte) /\ Len(h) = l /\ Sits(h, t, 0)
    BY <1>1, HeaderIs
<1>3. b = n - l /\ n <= Taken(s)
    BY <1>1, NextIs
<1>4. t \in Seq(Byte) /\ l \in Nat /\ l >= 1 /\ m \in Seq(Byte) /\ n \in Nat /\ n >= l /\ Taken(s) \in Nat
    BY StreamIs, HeaderLenIs, PartsAre DEF Framed
<1>5. /\ s2 \in StreamType /\ s2.header = <<>> /\ s2.flying = s.flying /\ s2.buffer = y
    BY AfterIs
<1>6. s.flying \in Seq(Byte) /\ Sits(s.flying, t, Taken(s)) /\ Len(t) = Taken(s) + Len(s.flying)
    BY StreamIs, PartsAre DEF Laid
<1>7. Message(s) = (IF Tcp THEN h ELSE <<>>) \o x /\ Inside(m) = (IF Tcp THEN m ELSE SubSeq(m, 3, n))
    BY DEF Message, Inside
<1> HIDE DEF x, y, t, h, b, s2
<1>8. l + b = n /\ Len(y) = Taken(s) - n
    BY ONLY <1>1, <1>3, <1>4
<1> HIDE DEF l, n
<1>9. Message(s) = Inside(m)
    <2>1. CASE Tcp
        <3>1. Sits(x, t, 0 + Len(h)) /\ Len(h) + Len(x) = n
            <4>1. 0 + Len(h) = l
                BY <1>2, <1>4
            <4> QED
                BY <1>1, <1>2, <1>8, <4>1
        <3>2. h \o x \in Seq(Byte) /\ Len(h \o x) = Len(h) + Len(x) /\ Sits(h \o x, t, 0)
            BY ONLY <1>1, <1>2, <1>4, <3>1, SitsJoined
        <3> DEFINE w == h \o x
        <3>3. w \in Seq(Byte) /\ Sits(w, t, 0) /\ Len(w) = Len(m)
            BY <3>1, <3>2 DEF n
        <3> HIDE DEF w
        <3>4. Sits(m, t, 0)
            BY DEF t
        <3>5. w = m
            BY ONLY <1>4, <3>3, <3>4, SitsSame
        <3> QED
            BY <1>7, <2>1, <3>5 DEF w
    <2>2. CASE ~Tcp
        <3>1. l = 2
            BY <2>2 DEF l, HeaderLen
        <3> DEFINE k == 3
                   v == SubSeq(m, k, n)
        <3>2. k \in Int /\ n \in Int /\ 1 <= k /\ k <= n + 1 /\ n <= Len(m)
            BY <1>4, <3>1 DEF n
        <3>3. Sits(m, t, 0)
            BY DEF t
        <3>4. 0 + k - 1 = l /\ n - k + 1 = b
            BY <1>4, <1>8, <1>1, <3>1
        <3> HIDE DEF k
        <3>5. v \in Seq(Byte) /\ Len(v) = n - k + 1 /\ Sits(v, t, 0 + k - 1)
            BY ONLY <1>4, <3>2, <3>3, SitsPart
        <3>6. v = SubSeq(m, 3, n)
            BY DEF k
        <3> HIDE DEF v
        <3>7. Sits(v, t, l) /\ Len(v) = Len(x)
            BY <1>1, <3>4, <3>5
        <3>8. v = x
            BY ONLY <1>1, <1>4, <3>5, <3>7, SitsSame
        <3>9. <<>> \o x = x
            BY <1>1
        <3> QED
            BY <1>7, <2>2, <3>6, <3>8, <3>9
    <2> QED
        BY <2>1, <2>2
<1>10. Stream(s2) = SubSeq(t, n + 1, Len(t))
    <2> DEFINE p == n + 1
               q == Len(t)
               r == SubSeq(t, p, q)
    <2>1. p \in Int /\ q \in Int /\ 1 <= p /\ p <= q + 1 /\ q <= Len(t) /\ 0 + p - 1 = n /\ q - p + 1 = Len(t) - n
        BY <1>3, <1>4, <1>6
    <2>2. r = SubSeq(t, n + 1, Len(t))
        OBVIOUS
    <2>3. Sits(t, t, 0)
        BY <1>4, WholeSits
    <2> HIDE DEF p, q
    <2>4. r \in Seq(Byte) /\ Len(r) = q - p + 1 /\ Sits(r, t, 0 + p - 1)
        BY ONLY <1>4, <2>1, <2>3, SitsPart
    <2> HIDE DEF r
    <2> DEFINE v == y \o s.flying
    <2>5. Taken(s) = n + Len(y)
        BY ONLY <1>3, <1>4, <1>8
    <2>6. Sits(y, t, n) /\ Sits(s.flying, t, n + Len(y))
        BY <1>1, <1>6, <1>8, <2>5
    <2>7. v \in Seq(Byte) /\ Len(v) = Len(y) + Len(s.flying) /\ Sits(v, t, n)
        BY <1>1, <1>4, <1>6, <2>6, SitsJoined
    <2>8. Stream(s2) = v
        <3>1. <<>> \o y = y
            BY <1>1
        <3> QED
            BY <1>5, <3>1 DEF Stream
    <2> HIDE DEF v
    <2>9. Len(v) = Len(t) - n /\ Len(r) = Len(t) - n /\ Sits(r, t, n)
        <3>1. Len(y) \in Nat /\ Len(s.flying) \in Nat
            BY <1>1, <1>6
        <3>2. /\ Len(v) = Len(y) + Len(s.flying) /\ Taken(s) = n + Len(y)
              /\ Len(t) = Taken(s) + Len(s.flying) /\ n \in Nat
            BY <1>4, <1>6, <2>5, <2>7
        <3> DEFINE a == Len(y)
                   c == Len(s.flying)
        <3>5. a \in Nat /\ c \in Nat /\ n \in Nat
            BY <3>1, <3>2
        <3>6. Len(v) = a + c /\ Len(t) = (n + a) + c
            BY <3>2
        <3> HIDE DEF a, c
        <3>3. Len(v) = Len(t) - n
            BY ONLY <3>5, <3>6
        <3> QED
            BY <2>1, <2>4, <3>3
    <2>10. v = r
        <3>1. Len(v) = Len(r)
            BY <2>9
        <3> QED
            BY ONLY <1>4, <2>4, <2>7, <2>9, <3>1, SitsSame
    <2> QED
        BY <2>2, <2>8, <2>10
<1> QED
    BY <1>3, <1>5, <1>8, <1>9, <1>10 DEF t, s2, n

LEMMA WrittenIs ==
    ASSUME NEW s \in StreamType, HeaderOk(s), NEW w, Transport(w) \in Seq(Byte)
    PROVE  LET s2 == WrittenTo(s, w)
           IN  /\ s2 \in StreamType /\ HeaderOk(s2) /\ Stream(s2) = Stream(s) \o Transport(w)
               /\ s2.header = s.header /\ s2.buffer = s.buffer
<1> DEFINE s2 == WrittenTo(s, w)
           m  == Transport(w)
           h  == s.header
           b  == s.buffer
           f  == s.flying
           g  == f \o m
<1>1. h \in Seq(Byte) /\ b \in Seq(Byte) /\ f \in Seq(Byte) /\ m \in Seq(Byte)
    BY PartsAre
<1>2. s2 = [s EXCEPT !.flying = g]
    BY DEF WrittenTo
<1>3. Stream(s) = (h \o b) \o f
    BY DEF Stream
<1>4. g \in Seq(Byte)
    BY <1>1
<1> HIDE DEF g, s2
<1>5. s2 = StreamOf(g, b, h)
    BY <1>2, StreamChanged
<1>6. s2 \in StreamType /\ s2.flying = g /\ s2.buffer = b /\ s2.header = h
    BY <1>1, <1>4, <1>5 DEF StreamOf, StreamType
<1>7. Stream(s2) = (h \o b) \o g
    BY <1>6 DEF Stream
<1> HIDE DEF m, h, b, f
<1>8. (h \o b) \o (f \o m) = ((h \o b) \o f) \o m
    <2> DEFINE u == h \o b
    <2>1. u \in Seq(Byte)
        BY <1>1
    <2> HIDE DEF u
    <2>2. (u \o f) \o m = u \o (f \o m)
        BY ONLY <1>1, <2>1, ConcatAssociative, SMTT(60)
    <2> QED
        BY <2>2 DEF u
<1> QED
    BY <1>3, <1>6, <1>7, <1>8 DEF g, s2, m, h, b, HeaderOk

\* A header thrown away when none was taken.
LEMMA DroppedIs ==
    ASSUME NEW s \in StreamType
    PROVE  /\ [s EXCEPT !.header = <<>>] \in StreamType /\ HeaderOk([s EXCEPT !.header = <<>>])
           /\ s.header = <<>> => [s EXCEPT !.header = <<>>] = s
           /\ \A b \in Seq(Byte) : LET s2 == [s EXCEPT !.header = <<>>, !.buffer = b]
                                   IN  s2 \in StreamType /\ HeaderOk(s2)
<1> DEFINE e == <<>>
<1>1. e \in Seq(Byte) /\ e = <<>>
    OBVIOUS
<1> HIDE DEF e
<1>2. [s EXCEPT !.header = e] = StreamOf(s.flying, s.buffer, e)
    BY StreamChanged
<1>3. s.flying \in Seq(Byte) /\ s.buffer \in Seq(Byte)
    BY PartsAre
<1>4. StreamOf(s.flying, s.buffer, e) \in StreamType /\ HeaderOk(StreamOf(s.flying, s.buffer, e))
    BY <1>1, <1>3 DEF StreamOf, StreamType, HeaderOk
<1>5. s.header = e => StreamOf(s.flying, s.buffer, e) = s
    BY StreamMade
<1>6. ASSUME NEW b \in Seq(Byte)
      PROVE  /\ [s EXCEPT !.header = e, !.buffer = b] \in StreamType
             /\ HeaderOk([s EXCEPT !.header = e, !.buffer = b])
    <2>1. [s EXCEPT !.header = e, !.buffer = b] = StreamOf(s.flying, b, e)
        BY <1>1, TakenWith
    <2>2. StreamOf(s.flying, b, e) \in StreamType /\ HeaderOk(StreamOf(s.flying, b, e))
        BY <1>1, <1>3 DEF StreamOf, StreamType, HeaderOk
    <2> QED
        BY <2>1, <2>2
<1> QED
    BY <1>1, <1>2, <1>4, <1>5, <1>6

(***************************************************************************)
(* A stream that carries the messages ms, and nothing else.                *)
(***************************************************************************)
Carries(s, ms, ends) ==
    /\ s \in StreamType /\ HeaderOk(s)
    /\ Cuts(Stream(s), ms, ends)
    /\ \A i \in 1 .. Len(ms) : Framed(ms[i])

LEMMA NoBytesCarry == NoBytes \in StreamType /\ HeaderOk(NoBytes) /\ Carries(NoBytes, <<>>, [i \in 0 .. 0 |-> 0])
<1>1. NoBytes \in StreamType /\ HeaderOk(NoBytes)
    BY DEF NoBytes, StreamType, HeaderOk
<1>2. Stream(NoBytes) = <<>>
    BY DEF NoBytes, Stream
<1>3. \A i \in 1 .. Len(<<>>) : FALSE
    OBVIOUS
<1> QED
    BY <1>1, <1>2, <1>3, CutsNone DEF Carries

LEMMA CarriesType ==
    ASSUME NEW s, NEW ms, NEW ends, Carries(s, ms, ends)
    PROVE  /\ s \in StreamType /\ HeaderOk(s) /\ Stream(s) \in Seq(Byte)
           /\ ms \in Seq(Seq(Byte)) /\ Len(ms) \in Nat /\ Taken(s) \in Nat
<1>1. s \in StreamType /\ HeaderOk(s) /\ Cuts(Stream(s), ms, ends)
    BY DEF Carries
<1>2. ms \in Seq(Seq(Byte))
    BY <1>1 DEF Cuts
<1> QED
    BY <1>1, <1>2, StreamIs, PartsAre

LEMMA CarriesFirst ==
    ASSUME NEW s, NEW ms, NEW ends, Carries(s, ms, ends), Len(ms) >= 1
    PROVE  /\ Framed(ms[1]) /\ Sits(ms[1], Stream(s), 0) /\ ends[1] = Len(ms[1])
           /\ ms # <<>>
<1>1. ms \in Seq(Seq(Byte)) /\ ms # <<>>
    BY CarriesType, NotEmpty
<1>2. Sits(ms[1], Stream(s), 0) /\ ends[1] = Len(ms[1])
    BY <1>1, CarriesType, CutsFirst DEF Carries
<1>3. 1 \in 1 .. Len(ms)
    BY <1>1
<1> QED
    BY <1>1, <1>2, <1>3 DEF Carries

\* Without a message there is nothing to read.
LEMMA CarriesNone ==
    ASSUME NEW s, NEW ms, NEW ends, Carries(s, ms, ends), Len(ms) = 0
    PROVE  ~HasHeader(s)
<1>1. ms = <<>> /\ s \in StreamType /\ Stream(s) \in Seq(Byte)
    BY CarriesType
<1>2. Stream(s) = <<>>
    BY <1>1, CutsEmpty DEF Carries
<1>3. Len(Stream(s)) = 0
    BY <1>2
<1>4. Len(Stream(s)) = (Len(s.header) + Len(s.buffer)) + Len(s.flying)
    BY <1>1, StreamIs DEF Laid, Taken
<1>5. /\ s.header \in Seq(Byte) /\ Len(s.header) \in Nat /\ Len(s.buffer) \in Nat /\ Len(s.flying) \in Nat
    BY <1>1, PartsAre
<1>6. Len(s.header) = 0 /\ Len(s.buffer) = 0
    <2> DEFINE a == Len(s.header)
               b == Len(s.buffer)
               c == Len(s.flying)
    <2>1. a \in Nat /\ b \in Nat /\ c \in Nat /\ (a + b) + c = 0
        BY <1>3, <1>4, <1>5
    <2> HIDE DEF a, b, c
    <2>2. a = 0 /\ b = 0
        BY ONLY <2>1
    <2> QED
        BY <2>2 DEF a, b
<1>7. s.header = <<>>
    BY <1>5, <1>6
<1> QED
    BY <1>6, <1>7, HeaderLenIs DEF HasHeader

\* What is next to read is the first message.
LEMMA CarriesRead ==
    ASSUME NEW s, NEW ms, NEW ends, Carries(s, ms, ends)
    PROVE  /\ ~NegativeBody(s)
           /\ HasMessage(s) => Len(ms) >= 1 /\ Message(s) = Inside(ms[1])
           /\ Len(ms) >= 1 /\ s.flying = <<>> => HasMessage(s)
<1>1. s \in StreamType /\ HeaderOk(s) /\ Len(ms) \in Nat
    BY CarriesType
<1>2. CASE Len(ms) = 0
    <2>1. ~HasHeader(s)
        BY <1>2, CarriesNone
    <2> QED
        BY <1>2, <2>1 DEF NegativeBody, HasMessage
<1>3. CASE Len(ms) >= 1
    <2>1. Framed(ms[1]) /\ Sits(ms[1], Stream(s), 0)
        BY <1>3, CarriesFirst
    <2>2. ~NegativeBody(s) /\ (HasMessage(s) <=> Len(ms[1]) <= Taken(s))
        BY <1>1, <2>1, NextIs
    <2>3. HasMessage(s) => Message(s) = Inside(ms[1])
        BY <1>1, <2>1, MessageIs
    <2>4. ASSUME s.flying = <<>> PROVE HasMessage(s)
        <3>1. Len(s.flying) = 0
            BY <2>4
        <3>2. Len(Stream(s)) = Taken(s) + Len(s.flying) /\ Taken(s) \in Nat
            BY <1>1, StreamIs, PartsAre DEF Laid
        <3>3. 0 + Len(ms[1]) <= Len(Stream(s)) /\ Len(ms[1]) \in Nat
            BY <2>1 DEF Sits, Framed
        <3>4. Len(ms[1]) <= Taken(s)
            BY ONLY <3>1, <3>2, <3>3
        <3> QED
            BY <2>2, <3>4
    <2> QED
        BY <1>3, <2>2, <2>3, <2>4
<1> QED
    BY <1>1, <1>2, <1>3

LEMMA CarriesAfter ==
    ASSUME NEW s, NEW ms, NEW ends, Carries(s, ms, ends), HasMessage(s)
    PROVE  /\ Carries(AfterMessage(s), Tail(ms), [i \in 0 .. Len(ms) - 1 |-> ends[i+1] - Len(ms[1])])
           /\ AfterMessage(s).header = <<>>
           /\ Len(AfterMessage(s).buffer) = Taken(s) - Len(ms[1])
<1>1. s \in StreamType /\ HeaderOk(s) /\ Stream(s) \in Seq(Byte) /\ ms \in Seq(Seq(Byte)) /\ Len(ms) \in Nat
    BY CarriesType
<1>2. Len(ms) >= 1
    BY CarriesRead
<1>3. ms # <<>> /\ Framed(ms[1]) /\ Sits(ms[1], Stream(s), 0)
    BY <1>2, CarriesFirst
<1>4. /\ Stream(AfterMessage(s)) = SubSeq(Stream(s), Len(ms[1]) + 1, Len(Stream(s)))
      /\ Len(AfterMessage(s).buffer) = Taken(s) - Len(ms[1])
    BY <1>1, <1>3, MessageIs
<1>5. /\ AfterMessage(s) \in StreamType /\ HeaderOk(AfterMessage(s)) /\ AfterMessage(s).header = <<>>
    BY <1>1, AfterIs
<1>6. Cuts(SubSeq(Stream(s), Len(ms[1]) + 1, Len(Stream(s))), Tail(ms),
           [i \in 0 .. Len(ms) - 1 |-> ends[i+1] - Len(ms[1])])
    BY <1>1, <1>3, CutsTail DEF Carries
<1>7. ASSUME NEW i \in 1 .. Len(Tail(ms)) PROVE Framed(Tail(ms)[i])
    <2>1. Tail(ms)[i] = ms[i+1] /\ i + 1 \in 1 .. Len(ms)
        BY <1>1, <1>2, <1>3
    <2> QED
        BY <2>1 DEF Carries
<1> QED
    BY <1>4, <1>5, <1>6, <1>7 DEF Carries

LEMMA CarriesWritten ==
    ASSUME NEW s, NEW ms, NEW ends, Carries(s, ms, ends), NEW w, Carried(w)
    PROVE  /\ Carries(WrittenTo(s, w), Append(ms, Transport(w)),
                      [i \in 0 .. Len(ms) + 1 |-> IF i <= Len(ms) THEN ends[i]
                                                  ELSE Len(Stream(s)) + Len(Transport(w))])
           /\ WrittenTo(s, w).header = s.header /\ WrittenTo(s, w).buffer = s.buffer
<1>1. s \in StreamType /\ HeaderOk(s) /\ Stream(s) \in Seq(Byte) /\ ms \in Seq(Seq(Byte)) /\ Len(ms) \in Nat
    BY CarriesType
<1> DEFINE m == Transport(w)
<1>2. Framed(m) /\ m \in Seq(Byte)
    BY TransportIs DEF Framed
<1>3. /\ WrittenTo(s, w) \in StreamType /\ HeaderOk(WrittenTo(s, w))
      /\ Stream(WrittenTo(s, w)) = Stream(s) \o m
      /\ WrittenTo(s, w).header = s.header /\ WrittenTo(s, w).buffer = s.buffer
    BY <1>1, <1>2, WrittenIs
<1> HIDE DEF m
<1>4. Cuts(Stream(s) \o m, Append(ms, m),
           [i \in 0 .. Len(ms) + 1 |-> IF i <= Len(ms) THEN ends[i] ELSE Len(Stream(s)) + Len(m)])
    BY <1>1, <1>2, CutsAppend DEF Carries
<1>5. ASSUME NEW i \in 1 .. Len(Append(ms, m)) PROVE Framed(Append(ms, m)[i])
    <2>1. CASE i = Len(ms) + 1
        BY <1>1, <1>2, <2>1
    <2>2. CASE i # Len(ms) + 1
        <3>1. i \in 1 .. Len(ms) /\ Append(ms, m)[i] = ms[i]
            BY <1>1, <1>2, <2>2
        <3> QED
            BY <3>1 DEF Carries
    <2> QED
        BY <2>1, <2>2
<1> QED
    BY <1>3, <1>4, <1>5 DEF Carries, m

\* The bytes move on; the messages stay.
LEMMA CarriesOn ==
    ASSUME NEW s, NEW ms, NEW ends, Carries(s, ms, ends),
           NEW s2 \in StreamType, HeaderOk(s2), Stream(s2) = Stream(s)
    PROVE  Carries(s2, ms, ends)
BY DEF Carries

(***************************************************************************)
(* The inductive invariant: all a stream holds, read or flying, is cut     *)
(* into the messages of the requests asked, or the replies owed, the ones  *)
(* the ghosts name and in their order.  That fails for the replies once a  *)
(* timeout has thrown a header away.  While no call was given up only the  *)
(* call in progress is under way, so no reply is read by another call.     *)
(***************************************************************************)
Settled == \E s \in Setups : framing = s.framing /\ faults = s.faults /\ pieces = s.pieces

\* The stream to the server spells the requests asked, and nothing else.
Asking == [id : Nat \ {0}, req : {req \in Requests[framing] : Sendable(req)}]

Requested(ms, requests) ==
    /\ Len(ms) = Len(requests)
    /\ \A i \in 1 .. Len(requests) :
          ms[i] = Transport(WrapRequest(requests[i].req, requests[i].id - 1))

UpOk ==
    /\ up \in StreamType /\ HeaderOk(up) /\ asked \in Seq(Asking)
    /\ \E ms, ends : Carries(up, ms, ends) /\ Requested(ms, asked)

\* The stream to the client spells the replies owed, until bytes of it are thrown away.
Owing == [id : Nat, reply : ReplyType]

Brings(m, reply) ==
    \E req, number : /\ Sendable(req) /\ number \in Nat /\ Fits(reply, req)
                     /\ m = Transport(ReplyWire(req, number, reply))

Replies(ms, replies) ==
    /\ Len(ms) = Len(replies)
    /\ \A i \in 1 .. Len(replies) : Brings(ms[i], replies[i].reply)

\* What has arrived are whole messages.
Whole(s, ms, ends) == s.header = <<>> /\ \E i \in 0 .. Len(ms) : Len(s.buffer) = ends[i]

DownOk ==
    /\ down \in StreamType /\ HeaderOk(down) /\ owed \in Seq(Owing)
    /\ ~garbled => \E ms, ends : /\ Carries(down, ms, ends) /\ Replies(ms, owed)
                                 /\ pieces = "up" => Whole(down, ms, ends)
    /\ WholeRepliesKeepStep

DeviceOk == holding \in [DOMAIN Profile.holding -> Word] /\ count \in Nat

CallOk ==
    /\ call = [waiting |-> call.waiting, req |-> call.req] /\ call.waiting \in BOOLEAN
    /\ call.waiting => Sendable(call.req)
    /\ result.words \in Seq(Word)

\* While no call was given up, only the call in progress is under way.
Alone ==
    /\ Len(asked) + Len(owed) <= (IF call.waiting THEN 1 ELSE 0)
    /\ asked # <<>> => asked[1].req = call.req
    /\ owed # <<>> /\ owed[1].reply.kind = "write" => call.req.fc \in WriteCodes

Turns ==
    /\ sent \in Nat /\ lost \in Nat
    /\ garbled => lost > 0
    /\ lost = 0 => Alone
    /\ misread \in BOOLEAN /\ garbled \in BOOLEAN
    /\ misread => ~call.waiting

IInv == Settled /\ UpOk /\ DownOk /\ DeviceOk /\ CallOk /\ Turns /\ MisreadIsLateEcho

LEMMA SettledIs ==
    ASSUME Settled
    PROVE  framing \in {"custom", "modbus-tcp"} /\ faults \in Seq(FaultConfig) /\ ~HasFault(faults, "delay")
BY WireAssumption DEF Settled

\* The configuration does not change, and neither do the operators on it.
LEMMA Steady ==
    ASSUME framing' = framing, faults' = faults
    PROVE  /\ \A s, ms, ends : Carries(s, ms, ends)' <=> Carries(s, ms, ends)
           /\ \A s : HeaderOk(s)' <=> HeaderOk(s)
           /\ \A req : Sendable(req)' <=> Sendable(req)
           /\ \A w : Transport(w)' = Transport(w)
           /\ \A req, number : WrapRequest(req, number)' = WrapRequest(req, number)
           /\ \A ms, requests : Requested(ms, requests)' <=> Requested(ms, requests)
           /\ \A m, reply : Brings(m, reply)' <=> Brings(m, reply)
           /\ \A ms, replies : Replies(ms, replies)' <=> Replies(ms, replies)
           /\ Asking' = Asking
<1>1. Tcp' <=> Tcp
    BY DEF Tcp
<1>2. \A s, ms, ends : Carries(s, ms, ends)' <=> Carries(s, ms, ends)
    BY <1>1 DEF Carries, HeaderOk, Framed, HeaderLen
<1>3. \A s : HeaderOk(s)' <=> HeaderOk(s)
    BY <1>1 DEF HeaderOk, HeaderLen
<1>4. \A req : Sendable(req)' <=> Sendable(req)
    BY <1>1 DEF Sendable, Packable
<1>5. \A w : Transport(w)' = Transport(w)
    BY <1>1 DEF Transport
<1>6. \A req, number : WrapRequest(req, number)' = WrapRequest(req, number)
    BY <1>1 DEF WrapRequest
<1>7. \A ms, requests : Requested(ms, requests)' <=> Requested(ms, requests)
    <2> SUFFICES ASSUME NEW ms, NEW requests
                 PROVE  Requested(ms, requests)' <=> Requested(ms, requests)
        OBVIOUS
    <2>1. \A i : Transport(WrapRequest(requests[i].req, requests[i].id - 1))'
                   = Transport(WrapRequest(requests[i].req, requests[i].id - 1))
        BY <1>1 DEF Transport, WrapRequest
    <2> QED
        BY <2>1 DEF Requested
<1>8. \A reply, req : Fits(reply, req)' <=> Fits(reply, req)
    BY <1>1 DEF Fits
<1>9. \A req, number, reply : ReplyWire(req, number, reply)' = ReplyWire(req, number, reply)
    BY <1>1 DEF ReplyWire, WrapResponse, WrapRequest, Sealed
<1>10. \A m, reply : Brings(m, reply)' <=> Brings(m, reply)
    BY <1>4, <1>5, <1>8, <1>9 DEF Brings
<1>11. \A ms, replies : Replies(ms, replies)' <=> Replies(ms, replies)
    BY <1>10 DEF Replies
<1>12. Asking' = Asking
    BY <1>4 DEF Asking
<1> QED
    BY <1>2, <1>3, <1>4, <1>5, <1>6, <1>7, <1>10, <1>11, <1>12

LEMMA Initially ==
    ASSUME Init
    PROVE  IInv
<1>1. Settled
    BY DEF Init, Settled
<1>2. UpOk
    <2>1. asked = <<>> /\ up = NoBytes
        BY DEF Init
    <2>2. Requested(<<>>, <<>>)
        BY DEF Requested
    <2> QED
        BY <2>1, <2>2, NoBytesCarry DEF UpOk
<1>3. DownOk
    <2>1. owed = <<>> /\ down = NoBytes /\ garbled = FALSE
        BY DEF Init
    <2>2. Replies(<<>>, <<>>)
        BY DEF Replies
    <2>3. Whole(NoBytes, <<>>, [i \in 0 .. 0 |-> 0])
        <3>1. 0 \in 0 .. Len(<<>>) /\ [i \in 0 .. 0 |-> 0][0] = 0
            OBVIOUS
        <3> QED
            BY <3>1 DEF Whole, NoBytes
    <2> QED
        BY <2>1, <2>2, <2>3, NoBytesCarry DEF DownOk, WholeRepliesKeepStep
<1>4. DeviceOk
    BY WireAssumption DEF Init, DeviceOk, IsProfile
<1>5. CallOk
    BY DEF Init, CallOk, NoResult
<1>6. Turns
    <2>1. /\ asked = <<>> /\ owed = <<>> /\ call.waiting = FALSE /\ sent = 0 /\ lost = 0
          /\ garbled = FALSE /\ misread = FALSE
        BY DEF Init
    <2>2. Len(asked) + Len(owed) <= 0
        BY <2>1
    <2>3. Alone
        BY <2>1, <2>2 DEF Alone
    <2> QED
        BY <2>1, <2>3 DEF Turns
<1>7. MisreadIsLateEcho
    BY DEF Init, MisreadIsLateEcho
<1> QED
    BY <1>1, <1>2, <1>3, <1>4, <1>5, <1>6, <1>7 DEF IInv

(***************************************************************************)
(* The stream to the server.                                               *)
(***************************************************************************)
LEMMA UpSame ==
    ASSUME UpOk, framing' = framing, faults' = faults, up' = up, asked' = asked
    PROVE  UpOk'
BY Steady DEF UpOk

LEMMA UpOn ==
    ASSUME UpOk, framing' = framing, faults' = faults, asked' = asked,
           up' \in StreamType, HeaderOk(up'), Stream(up') = Stream(up)
    PROVE  UpOk'
<1>1. PICK ms, ends : Carries(up, ms, ends) /\ Requested(ms, asked)
    BY DEF UpOk
<1>2. Carries(up', ms, ends)
    BY <1>1, CarriesOn
<1>3. Carries(up, ms, ends)' /\ Requested(ms, asked)' /\ HeaderOk(up)' /\ (asked \in Seq(Asking))'
    BY <1>1, <1>2, Steady DEF UpOk
<1> QED
    BY <1>3 DEF UpOk

LEMMA UpGone ==
    ASSUME framing' = framing, faults' = faults, asked' = <<>>, up' = NoBytes
    PROVE  UpOk'
<1>1. Requested(<<>>, <<>>)
    BY DEF Requested
<1>2. NoBytes' = NoBytes
    BY DEF NoBytes
<1> QED
    BY <1>1, <1>2, NoBytesCarry, Steady DEF UpOk

LEMMA UpSent ==
    ASSUME UpOk, Settled, framing' = framing, faults' = faults, NEW req, Sendable(req), sent \in Nat,
           up' = WrittenTo(up, WrapRequest(req, sent)),
           asked' = Append(asked, [id |-> sent + 1, req |-> req])
    PROVE  UpOk'
<1> DEFINE w  == WrapRequest(req, sent)
           m  == Transport(w)
           it == [id |-> sent + 1, req |-> req]
<1>1. PICK ms, ends : Carries(up, ms, ends) /\ Requested(ms, asked)
    BY DEF UpOk
<1>2. asked \in Seq(Asking) /\ it \in Asking
    BY DEF UpOk, Asking, Sendable
<1>3. Carried(w)
    BY SettledIs, RequestIs DEF Understood
<1>4. it.req = req /\ it.id - 1 = sent
    OBVIOUS
<1>5. m = Transport(WrapRequest(it.req, it.id - 1))
    BY <1>4
<1> HIDE DEF w, it
<1>6. PICK ends2 : Carries(WrittenTo(up, w), Append(ms, m), ends2)
    BY <1>1, <1>3, CarriesWritten
<1>7. ms \in Seq(Seq(Byte)) /\ m \in Seq(Byte)
    BY <1>1, <1>3, CarriesType, TransportIs DEF Framed
<1> HIDE DEF m
<1>8. Requested(Append(ms, m), Append(asked, it))
    <2>1. Len(ms) = Len(asked) /\ Len(ms) \in Nat
        BY <1>1, <1>7 DEF Requested
    <2>2. /\ Len(Append(ms, m)) = Len(ms) + 1 /\ Len(Append(asked, it)) = Len(asked) + 1
          /\ Append(ms, m)[Len(ms) + 1] = m /\ Append(asked, it)[Len(asked) + 1] = it
          /\ \A i \in 1 .. Len(ms) : Append(ms, m)[i] = ms[i]
          /\ \A i \in 1 .. Len(asked) : Append(asked, it)[i] = asked[i]
        BY <1>2, <1>7
    <2>3. ASSUME NEW i \in 1 .. Len(Append(asked, it))
          PROVE  Append(ms, m)[i] = Transport(WrapRequest(Append(asked, it)[i].req, Append(asked, it)[i].id - 1))
        <3>1. CASE i = Len(asked) + 1
            BY <1>5, <2>1, <2>2, <3>1
        <3>2. CASE i # Len(asked) + 1
            <4>1. i \in 1 .. Len(asked) /\ i \in 1 .. Len(ms)
                BY <2>1, <2>2, <3>2
            <4> QED
                BY <1>1, <2>2, <4>1 DEF Requested
        <3> QED
            BY <3>1, <3>2
    <2> QED
        BY <2>1, <2>2, <2>3 DEF Requested
<1>9. Append(asked, it) \in Seq(Asking)
    BY <1>2
<1>10. Carries(up', Append(ms, m), ends2) /\ Requested(Append(ms, m), asked') /\ asked' \in Seq(Asking)
    BY <1>6, <1>8, <1>9 DEF w, it
<1>11. up' \in StreamType /\ HeaderOk(up')
    BY <1>10, CarriesType
<1>12. PICK ms2 : Carries(up', ms2, ends2) /\ Requested(ms2, asked')
    BY <1>10
<1>13. Carries(up, ms2, ends2)' /\ Requested(ms2, asked)' /\ HeaderOk(up)' /\ (asked \in Seq(Asking))'
    BY <1>10, <1>11, <1>12, Steady
<1> QED
    BY <1>11, <1>13 DEF UpOk

\* The message the server reads is the first request asked.
LEMMA NextRequest ==
    ASSUME UpOk, HasMessage(up)
    PROVE  /\ Len(asked) >= 1 /\ asked # <<>> /\ asked[1] \in Asking
           /\ Settled => Message(up) = WrapRequest(asked[1].req, asked[1].id - 1)
<1>1. PICK ms, ends : Carries(up, ms, ends) /\ Requested(ms, asked)
    BY DEF UpOk
<1>2. Len(ms) >= 1 /\ Message(up) = Inside(ms[1])
    BY <1>1, CarriesRead
<1>3. asked \in Seq(Asking) /\ Len(asked) >= 1
    BY <1>1, <1>2 DEF UpOk, Requested
<1>4. asked # <<>> /\ asked[1] \in Asking /\ 1 \in 1 .. Len(asked)
    BY <1>3
<1>5. ASSUME Settled PROVE Message(up) = WrapRequest(asked[1].req, asked[1].id - 1)
    <2> DEFINE req    == asked[1].req
               number == asked[1].id - 1
    <2>1. Sendable(req) /\ number \in Nat
        BY <1>4 DEF Asking
    <2>2. ms[1] = Transport(WrapRequest(req, number))
        BY <1>1, <1>4 DEF Requested
    <2> HIDE DEF req, number
    <2>3. Carried(WrapRequest(req, number))
        BY <1>5, <2>1, SettledIs, RequestIs DEF Understood
    <2> QED
        BY <1>2, <2>2, <2>3, TransportIs DEF req, number
<1> QED
    BY <1>3, <1>4, <1>5

LEMMA UpServed ==
    ASSUME UpOk, framing' = framing, faults' = faults, HasMessage(up),
           up' = AfterMessage(up), asked' = Tail(asked)
    PROVE  UpOk'
<1>1. PICK ms, ends : Carries(up, ms, ends) /\ Requested(ms, asked)
    BY DEF UpOk
<1>2. PICK ends2 : Carries(AfterMessage(up), Tail(ms), ends2)
    BY <1>1, CarriesAfter
<1>3. ms \in Seq(Seq(Byte)) /\ Len(ms) >= 1 /\ asked \in Seq(Asking) /\ Len(asked) = Len(ms)
    BY <1>1, CarriesType, CarriesRead DEF UpOk, Requested
<1>4. /\ Tail(asked) \in Seq(Asking) /\ Len(Tail(asked)) = Len(asked) - 1 /\ Len(Tail(ms)) = Len(ms) - 1
      /\ \A i \in 1 .. Len(asked) - 1 : Tail(asked)[i] = asked[i+1] /\ Tail(ms)[i] = ms[i+1] /\ i + 1 \in 1 .. Len(asked)
    BY <1>3
<1> DEFINE ms2 == Tail(ms)
<1>5. Requested(ms2, Tail(asked))
    BY <1>1, <1>3, <1>4 DEF Requested
<1>6. Carries(up', ms2, ends2) /\ Requested(ms2, asked')
    BY <1>2, <1>5
<1> HIDE DEF ms2
<1>7. up' \in StreamType /\ HeaderOk(up')
    BY <1>6, CarriesType
<1>8. Carries(up, ms2, ends2)' /\ Requested(ms2, asked)' /\ HeaderOk(up)' /\ (asked \in Seq(Asking))'
    BY <1>4, <1>6, <1>7, Steady
<1> QED
    BY <1>7, <1>8 DEF UpOk

(***************************************************************************)
(* The stream to the client.                                               *)
(***************************************************************************)
Same == framing' = framing /\ faults' = faults /\ pieces' = pieces

LEMMA DownSame ==
    ASSUME DownOk, Same, down' = down, owed' = owed, garbled' = garbled
    PROVE  DownOk'
<1>1. ASSUME ~garbled'
      PROVE  \E ms, ends : Carries(down, ms, ends)' /\ Replies(ms, owed)' /\ (pieces' = "up" => Whole(down', ms, ends))
    <2>1. PICK ms, ends : Carries(down, ms, ends) /\ Replies(ms, owed) /\ (pieces = "up" => Whole(down, ms, ends))
        BY <1>1 DEF DownOk
    <2>2. Carries(down, ms, ends)' /\ Replies(ms, owed)'
        BY <2>1, Steady DEF Same
    <2>3. pieces' = "up" => Whole(down', ms, ends)
        BY <2>1 DEF Same
    <2> QED
        BY <2>2, <2>3
<1>2. HeaderOk(down)'
    BY Steady DEF DownOk, Same
<1> QED
    BY <1>1, <1>2 DEF DownOk, WholeRepliesKeepStep, Same, Whole

\* What has arrived in whole messages leaves nothing to wait for.
LEMMA WholeReads ==
    ASSUME NEW s, NEW ms, NEW ends, Carries(s, ms, ends), Whole(s, ms, ends), HasHeader(s)
    PROVE  HasMessage(s) /\ Len(ms) >= 1 /\ \E i \in 1 .. Len(ms) : Len(s.buffer) = ends[i]
<1>1. /\ s \in StreamType /\ HeaderOk(s) /\ ms \in Seq(Seq(Byte)) /\ Len(ms) \in Nat
    BY CarriesType
<1>2. Len(ms) >= 1
    <2>1. Len(ms) # 0
        BY CarriesNone
    <2> QED
        BY <1>1, <2>1
<1>3. Framed(ms[1]) /\ Sits(ms[1], Stream(s), 0) /\ ends[1] = Len(ms[1])
    BY <1>2, CarriesFirst
<1>4. PICK i \in 0 .. Len(ms) : Len(s.buffer) = ends[i] /\ s.header = <<>>
    BY DEF Whole
<1>5. ends[0] = 0 /\ \A j, k \in 0 .. Len(ms) : j <= k => ends[j] <= ends[k]
    BY DEF Carries, Cuts
<1>6. i # 0
    <2>1. Len(s.buffer) >= HeaderLen
        BY <1>4 DEF HasHeader
    <2> QED
        BY <1>4, <1>5, <2>1, HeaderLenIs
<1>7. i \in 1 .. Len(ms) /\ 1 \in 0 .. Len(ms) /\ 1 <= i
    BY <1>1, <1>2, <1>6
<1>8. ends[1] <= ends[i]
    BY <1>5, <1>7
<1>9. Len(ms[1]) <= Taken(s)
    <2>1. Taken(s) = Len(s.header) + Len(s.buffer) /\ Len(s.header) = 0 /\ Len(s.buffer) \in Nat
        BY <1>1, <1>4, PartsAre DEF Taken
    <2>2. Taken(s) = Len(s.buffer)
        BY <2>1
    <2> QED
        BY <1>3, <1>4, <1>8, <2>2
<1>10. HasMessage(s)
    BY <1>1, <1>3, <1>9, NextIs
<1> QED
    BY <1>2, <1>4, <1>7, <1>10

LEMMA DownArrived ==
    ASSUME DownOk, Same, owed' = owed, garbled' = garbled,
           NEW n \in Sizes(down, "down"), down' = Arrived(down, n)
    PROVE  DownOk'
<1>1. down \in StreamType /\ HeaderOk(down) /\ Len(down.flying) \in Nat
    BY PartsAre DEF DownOk
<1>2. n \in 0 .. Len(down.flying) /\ (pieces = "up" => n = Len(down.flying))
    BY <1>1 DEF Sizes
<1>3. /\ down' \in StreamType /\ Stream(down') = Stream(down)
      /\ down'.header = down.header /\ Len(down'.buffer) = Len(down.buffer) + n
    BY <1>1, <1>2, ArrivedIs
<1>4. HeaderOk(down')
    BY <1>1, <1>3 DEF HeaderOk
<1>5. ASSUME ~garbled'
      PROVE  \E ms, ends : Carries(down, ms, ends)' /\ Replies(ms, owed)' /\ (pieces' = "up" => Whole(down', ms, ends))
    <2>1. PICK ms, ends : Carries(down, ms, ends) /\ Replies(ms, owed) /\ (pieces = "up" => Whole(down, ms, ends))
        BY <1>5 DEF DownOk
    <2>2. Carries(down', ms, ends)
        BY <1>3, <1>4, <2>1, CarriesOn
    <2>3. Carries(down, ms, ends)' /\ Replies(ms, owed)'
        BY <2>1, <2>2, Steady DEF Same
    <2>4. ASSUME pieces' = "up" PROVE Whole(down', ms, ends)
        <3>1. n = Len(down.flying) /\ down.header = <<>>
            BY <1>2, <2>1, <2>4 DEF Same, Whole
        <3>2. Len(ms) \in Nat /\ ends[Len(ms)] = Len(Stream(down))
            BY <2>1, CarriesType DEF Carries, Cuts
        <3>3. Len(Stream(down)) = Taken(down) + Len(down.flying)
            BY <1>1, StreamIs DEF Laid
        <3>4. Len(down.header) = 0 /\ Len(down.buffer) \in Nat /\ Taken(down) = Len(down.header) + Len(down.buffer)
            BY <1>1, <3>1, PartsAre DEF Taken
        <3>5. Len(down'.buffer) = ends[Len(ms)]
            BY <1>1, <1>3, <3>1, <3>2, <3>3, <3>4
        <3>6. Len(ms) \in 0 .. Len(ms)
            BY <3>2
        <3> QED
            BY <1>3, <3>1, <3>5, <3>6 DEF Whole
    <2> QED
        BY <2>3, <2>4
<1>6. HeaderOk(down)'
    BY <1>4, Steady DEF Same
<1> QED
    BY <1>3, <1>5, <1>6 DEF DownOk, WholeRepliesKeepStep, Same, Whole

LEMMA DownTaken ==
    ASSUME DownOk, Same, owed' = owed, garbled' = garbled, MustWait(down), down' = HeaderTaken(down)
    PROVE  DownOk'
<1>1. down \in StreamType /\ HeaderOk(down)
    BY DEF DownOk
<1>2. down' \in StreamType /\ HeaderOk(down') /\ Stream(down') = Stream(down)
    BY <1>1, HeaderTakenIs
<1>3. ASSUME ~garbled'
      PROVE  \E ms, ends : Carries(down, ms, ends)' /\ Replies(ms, owed)' /\ (pieces' = "up" => Whole(down', ms, ends))
    <2>1. PICK ms, ends : Carries(down, ms, ends) /\ Replies(ms, owed) /\ (pieces = "up" => Whole(down, ms, ends))
        BY <1>3 DEF DownOk
    <2>2. Carries(down', ms, ends)
        BY <1>2, <2>1, CarriesOn
    <2>3. Carries(down, ms, ends)' /\ Replies(ms, owed)'
        BY <2>1, <2>2, Steady DEF Same
    <2>4. pieces' # "up"
        BY <2>1, WholeReads DEF Same, MustWait
    <2> QED
        BY <2>3, <2>4
<1>4. HeaderOk(down)'
    BY <1>2, Steady DEF Same
<1> QED
    BY <1>2, <1>3, <1>4 DEF DownOk, WholeRepliesKeepStep, Same, Whole

LEMMA DownWritten ==
    ASSUME DownOk, Settled, Same, garbled' = garbled,
           NEW req, Sendable(req), NEW number \in Nat, NEW reply \in ReplyType, Fits(reply, req),
           NEW id \in Nat, down' = WrittenTo(down, ReplyWire(req, number, reply)),
           owed' = Append(owed, [id |-> id, reply |-> reply])
    PROVE  DownOk'
<1>1. down \in StreamType /\ HeaderOk(down) /\ owed \in Seq(Owing)
    BY DEF DownOk
<1>2. PICK w : w = ReplyWire(req, number, reply)
    OBVIOUS
<1>3. Carried(w) /\ down' = WrittenTo(down, w)
    BY <1>2, SettledIs, ReplyWireIs
<1>4. PICK m : m = Transport(w)
    OBVIOUS
<1>5. m \in Seq(Byte) /\ Brings(m, reply)
    BY <1>2, <1>3, <1>4, TransportIs DEF Brings, Framed
<1>6. /\ down' \in StreamType /\ HeaderOk(down')
      /\ down'.header = down.header /\ down'.buffer = down.buffer
    BY <1>1, <1>3, <1>4, <1>5, WrittenIs
<1>7. PICK it : it = [id |-> id, reply |-> reply]
    OBVIOUS
<1>8. it \in Owing /\ it.reply = reply /\ owed' = Append(owed, it) /\ owed' \in Seq(Owing)
    BY <1>1, <1>7 DEF Owing
<1>9. ASSUME ~garbled'
      PROVE  \E ms, ends : Carries(down, ms, ends)' /\ Replies(ms, owed)' /\ (pieces' = "up" => Whole(down', ms, ends))
    <2>1. PICK ms, ends : Carries(down, ms, ends) /\ Replies(ms, owed) /\ (pieces = "up" => Whole(down, ms, ends))
        BY <1>9 DEF DownOk
    <2>2. PICK ends2 : /\ Carries(WrittenTo(down, w), Append(ms, Transport(w)), ends2)
                       /\ ends2 = [i \in 0 .. Len(ms) + 1 |-> IF i <= Len(ms) THEN ends[i]
                                                              ELSE Len(Stream(down)) + Len(Transport(w))]
        BY <1>3, <2>1, CarriesWritten
    <2>3. Carries(down', Append(ms, m), ends2)
        BY <1>3, <1>4, <2>2
    <2>4. ms \in Seq(Seq(Byte)) /\ Len(ms) \in Nat /\ Len(ms) = Len(owed)
        BY <2>1, CarriesType DEF Replies
    <2>5. /\ Len(Append(ms, m)) = Len(ms) + 1 /\ Len(Append(owed, it)) = Len(owed) + 1
          /\ Append(ms, m)[Len(ms) + 1] = m /\ Append(owed, it)[Len(owed) + 1] = it
          /\ \A i \in 1 .. Len(ms) : Append(ms, m)[i] = ms[i]
          /\ \A i \in 1 .. Len(owed) : Append(owed, it)[i] = owed[i]
        BY <1>1, <1>5, <1>8, <2>4
    <2>6. ASSUME NEW i \in 1 .. Len(Append(owed, it))
          PROVE  Brings(Append(ms, m)[i], Append(owed, it)[i].reply)
        <3>1. CASE i = Len(owed) + 1
            BY <1>5, <1>8, <2>4, <2>5, <3>1
        <3>2. CASE i # Len(owed) + 1
            <4>1. i \in 1 .. Len(owed) /\ i \in 1 .. Len(ms)
                BY <2>4, <2>5, <3>2
            <4> QED
                BY <2>1, <2>5, <4>1 DEF Replies
        <3> QED
            BY <3>1, <3>2
    <2>7. Replies(Append(ms, m), owed')
        BY <1>8, <2>4, <2>5, <2>6 DEF Replies
    <2>8. ASSUME pieces = "up" PROVE Whole(down', Append(ms, m), ends2)
        <3>1. PICK i \in 0 .. Len(ms) : Len(down.buffer) = ends[i] /\ down.header = <<>>
            BY <2>1, <2>8 DEF Whole
        <3>2. i \in 0 .. Len(ms) + 1 /\ i <= Len(ms)
            BY <2>4, <3>1
        <3>3. ends2[i] = ends[i]
            BY <2>2, <3>2
        <3>4. i \in 0 .. Len(Append(ms, m))
            BY <2>5, <3>2
        <3> QED
            BY <1>6, <3>1, <3>3, <3>4 DEF Whole
    <2>9. PICK ms2 : ms2 = Append(ms, m)
        OBVIOUS
    <2>10. Carries(down, ms2, ends2)' /\ Replies(ms2, owed)'
        BY <2>3, <2>7, <2>9, Steady DEF Same
    <2>11. pieces' = "up" => Whole(down', ms2, ends2)
        BY <2>8, <2>9 DEF Same
    <2> QED
        BY <2>10, <2>11
<1>10. HeaderOk(down)'
    BY <1>6, Steady DEF Same
<1> QED
    BY <1>6, <1>8, <1>9, <1>10 DEF DownOk, WholeRepliesKeepStep, Same, Whole

\* The message the client reads is the first reply owed.
LEMMA NextReply ==
    ASSUME DownOk, Settled, ~garbled, HasMessage(down)
    PROVE  /\ Len(owed) >= 1 /\ owed # <<>> /\ owed[1] \in Owing
           /\ \E req, number : /\ Sendable(req) /\ number \in Nat /\ Fits(owed[1].reply, req)
                               /\ Message(down) = ReplyWire(req, number, owed[1].reply)
<1>1. PICK ms, ends : Carries(down, ms, ends) /\ Replies(ms, owed)
    BY DEF DownOk
<1>2. Len(ms) >= 1 /\ Message(down) = Inside(ms[1])
    BY <1>1, CarriesRead
<1>3. owed \in Seq(Owing) /\ Len(owed) >= 1
    BY <1>1, <1>2 DEF DownOk, Replies
<1>4. owed # <<>> /\ owed[1] \in Owing /\ 1 \in 1 .. Len(owed)
    BY <1>3
<1>5. Brings(ms[1], owed[1].reply)
    BY <1>1, <1>4 DEF Replies
<1>6. PICK req, number : /\ Sendable(req) /\ number \in Nat /\ Fits(owed[1].reply, req)
                         /\ ms[1] = Transport(ReplyWire(req, number, owed[1].reply))
    BY <1>5 DEF Brings
<1>7. PICK reply : reply = owed[1].reply
    OBVIOUS
<1>8. Carried(ReplyWire(req, number, reply))
    BY <1>6, <1>7, SettledIs, ReplyWireIs
<1>9. Inside(Transport(ReplyWire(req, number, reply))) = ReplyWire(req, number, reply)
    BY <1>8, TransportIs
<1>10. Message(down) = ReplyWire(req, number, owed[1].reply)
    BY <1>2, <1>6, <1>7, <1>9
<1> QED
    BY <1>3, <1>4, <1>6, <1>10

LEMMA DownRead ==
    ASSUME DownOk, Same, garbled' = garbled, HasMessage(down), down' = AfterMessage(down),
           owed' = IF InTurn THEN Tail(owed) ELSE owed
    PROVE  DownOk'
<1>1. down \in StreamType /\ HeaderOk(down) /\ owed \in Seq(Owing)
    BY DEF DownOk
<1>2. down' \in StreamType /\ HeaderOk(down')
    BY <1>1, AfterIs
<1>3. owed' \in Seq(Owing)
    BY <1>1 DEF InTurn
<1>4. ASSUME ~garbled'
      PROVE  \E ms, ends : Carries(down, ms, ends)' /\ Replies(ms, owed)' /\ (pieces' = "up" => Whole(down', ms, ends))
    <2>1. PICK ms, ends : Carries(down, ms, ends) /\ Replies(ms, owed) /\ (pieces = "up" => Whole(down, ms, ends))
        BY <1>4 DEF DownOk
    <2>2. PICK ends2 : /\ Carries(AfterMessage(down), Tail(ms), ends2)
                       /\ ends2 = [i \in 0 .. Len(ms) - 1 |-> ends[i+1] - Len(ms[1])]
        BY <2>1, CarriesAfter
    <2>3. down'.header = <<>> /\ Len(down'.buffer) = Taken(down) - Len(ms[1])
        BY <2>1, CarriesAfter
    <2>4. ms \in Seq(Seq(Byte)) /\ Len(ms) \in Nat /\ Len(ms) >= 1 /\ Len(ms) = Len(owed)
        BY <2>1, CarriesType, CarriesRead DEF Replies
    <2>5. owed # <<>>
        BY <1>1, <2>4, NotEmpty
    <2>6. owed' = Tail(owed)
        BY <1>4, <2>5 DEF InTurn
    <2>7. /\ Len(Tail(owed)) = Len(owed) - 1 /\ Len(Tail(ms)) = Len(ms) - 1
          /\ \A i \in 1 .. Len(owed) - 1 : Tail(owed)[i] = owed[i+1] /\ Tail(ms)[i] = ms[i+1] /\ i + 1 \in 1 .. Len(owed)
        BY <1>1, <2>4
    <2>8. Replies(Tail(ms), owed')
        BY <2>1, <2>4, <2>6, <2>7 DEF Replies
    <2>9. ASSUME pieces = "up" PROVE Whole(down', Tail(ms), ends2)
        <3>1. Whole(down, ms, ends) /\ HasHeader(down)
            BY <2>1, <2>9 DEF HasMessage
        <3>2. PICK i \in 1 .. Len(ms) : Len(down.buffer) = ends[i]
            BY <2>1, <3>1, WholeReads
        <3>3. down.header = <<>> /\ Len(down.buffer) \in Nat
            BY <1>1, <3>1, PartsAre DEF Whole
        <3>4. Taken(down) = Len(down.buffer)
            BY <3>3 DEF Taken
        <3>5. i - 1 \in 0 .. Len(ms) - 1 /\ (i - 1) + 1 = i
            BY <2>4
        <3>6. ends2[i-1] = ends[(i-1)+1] - Len(ms[1])
            BY <2>2, <3>5
        <3>7. ends2[i-1] = Len(down'.buffer)
            BY <2>3, <3>2, <3>4, <3>5, <3>6
        <3>8. i - 1 \in 0 .. Len(Tail(ms))
            BY <2>7, <3>5
        <3> QED
            BY <2>3, <3>7, <3>8 DEF Whole
    <2>10. PICK ms2 : ms2 = Tail(ms)
        OBVIOUS
    <2>11. Carries(down, ms2, ends2)' /\ Replies(ms2, owed)'
        BY <2>2, <2>8, <2>10, Steady DEF Same
    <2>12. pieces' = "up" => Whole(down', ms2, ends2)
        BY <2>9, <2>10 DEF Same
    <2> QED
        BY <2>11, <2>12
<1>5. HeaderOk(down)'
    BY <1>2, Steady DEF Same
<1> QED
    BY <1>2, <1>3, <1>4, <1>5 DEF DownOk, WholeRepliesKeepStep, Same, Whole

\* A timeout throws a header away, unless there is none.
LEMMA DownDropped ==
    ASSUME DownOk, Same, owed' = owed, garbled' = (garbled \/ down.header # <<>>),
           down' = [down EXCEPT !.header = <<>>]
    PROVE  DownOk'
<1>1. CASE down.header = <<>>
    <2>1. down' = down /\ (garbled' <=> garbled)
        BY <1>1, DroppedIs DEF DownOk
    <2>2. ASSUME ~garbled'
          PROVE  \E ms, ends : Carries(down, ms, ends)' /\ Replies(ms, owed)' /\ (pieces' = "up" => Whole(down', ms, ends))
        <3>1. PICK ms, ends : Carries(down, ms, ends) /\ Replies(ms, owed) /\ (pieces = "up" => Whole(down, ms, ends))
            BY <2>1, <2>2 DEF DownOk
        <3>2. Carries(down, ms, ends)' /\ Replies(ms, owed)'
            BY <2>1, <3>1, Steady DEF Same
        <3>3. pieces' = "up" => Whole(down', ms, ends)
            BY <2>1, <3>1 DEF Same
        <3> QED
            BY <3>2, <3>3
    <2>3. HeaderOk(down)'
        BY <2>1, Steady DEF DownOk, Same
    <2> QED
        BY <2>1, <2>2, <2>3 DEF DownOk, WholeRepliesKeepStep, Same, Whole
<1>2. CASE down.header # <<>>
    <2>1. down' \in StreamType /\ HeaderOk(down') /\ garbled'
        BY <1>2, DroppedIs DEF DownOk
    <2>2. HeaderOk(down)'
        BY <2>1, Steady DEF Same
    <2>3. pieces # "up"
        <3>1. ASSUME pieces = "up" PROVE FALSE
            <4>1. ~garbled
                BY <3>1 DEF DownOk, WholeRepliesKeepStep
            <4>2. \E ms, ends : Whole(down, ms, ends)
                BY <3>1, <4>1 DEF DownOk
            <4> QED
                BY <1>2, <4>2 DEF Whole
        <3> QED
            BY <3>1
    <2> QED
        BY <2>1, <2>2, <2>3 DEF DownOk, WholeRepliesKeepStep, Same
<1> QED
    BY <1>1, <1>2

\* A body of negative length is only read out of step.
LEMMA DownOutOfStep ==
    ASSUME DownOk, NegativeBody(down)
    PROVE  garbled
<1> SUFFICES ASSUME ~garbled PROVE FALSE
    OBVIOUS
<1>1. PICK ms, ends : Carries(down, ms, ends)
    BY DEF DownOk
<1> QED
    BY <1>1, CarriesRead

LEMMA DownRaised ==
    ASSUME DownOk, Same, owed' = owed, garbled' = garbled, NegativeBody(down),
           down' = [down EXCEPT !.header = <<>>, !.buffer = Unread(down)]
    PROVE  DownOk'
<1>1. garbled /\ HasHeader(down)
    BY DownOutOfStep DEF NegativeBody
<1>2. Unread(down) \in Seq(Byte)
    BY <1>1, HeaderIs DEF DownOk
<1>3. PICK b \in Seq(Byte) : b = Unread(down)
    BY <1>2
<1>4. down' = [down EXCEPT !.header = <<>>, !.buffer = b]
    BY <1>3
<1>5. down' \in StreamType /\ HeaderOk(down')
    BY <1>4, DroppedIs DEF DownOk
<1>6. HeaderOk(down)'
    BY <1>5, Steady DEF Same
<1> QED
    BY <1>1, <1>5, <1>6 DEF DownOk, WholeRepliesKeepStep, Same

\* At the end of a stream in step no reply is owed.
LEMMA EofIs ==
    ASSUME DownOk, ~garbled, AtEof
    PROVE  owed = <<>>
<1>1. PICK ms, ends : Carries(down, ms, ends) /\ Replies(ms, owed)
    BY DEF DownOk
<1>2. ~(Len(ms) >= 1) /\ Len(ms) \in Nat
    BY <1>1, CarriesRead, CarriesType DEF AtEof
<1>3. Len(owed) = 0 /\ owed \in Seq(Owing)
    BY <1>1, <1>2 DEF Replies, DownOk
<1> QED
    BY <1>3

LEMMA DownGone ==
    ASSUME DownOk, Same, garbled' = garbled, down' = NoBytes, owed' \in Seq(Owing),
           ~garbled => owed' = <<>>
    PROVE  DownOk'
<1>1. NoBytes \in StreamType /\ HeaderOk(NoBytes) /\ Carries(NoBytes, <<>>, [i \in 0 .. 0 |-> 0])
    BY NoBytesCarry
<1>2. HeaderOk(down)' /\ down' \in StreamType
    BY <1>1, Steady DEF Same
<1>3. ASSUME ~garbled'
      PROVE  \E ms, ends : Carries(down, ms, ends)' /\ Replies(ms, owed)' /\ (pieces' = "up" => Whole(down', ms, ends))
    <2>1. PICK ms, ends : ms = <<>> /\ ends = [i \in 0 .. 0 |-> 0]
        OBVIOUS
    <2>2. Carries(down', ms, ends)
        BY <1>1, <2>1
    <2>3. Replies(ms, owed')
        <3>1. owed' = <<>>
            BY <1>3
        <3> QED
            BY <2>1, <3>1 DEF Replies
    <2>4. Whole(down', ms, ends)
        <3>1. 0 \in 0 .. Len(ms) /\ ends[0] = 0
            BY <2>1
        <3>2. down'.header = <<>> /\ Len(down'.buffer) = 0
            BY DEF NoBytes
        <3> QED
            BY <3>1, <3>2 DEF Whole
    <2>5. Carries(down, ms, ends)' /\ Replies(ms, owed)'
        BY <2>2, <2>3, Steady DEF Same
    <2> QED
        BY <2>4, <2>5
<1> QED
    BY <1>2, <1>3 DEF DownOk, WholeRepliesKeepStep, Same, Whole

(***************************************************************************)
(* Every step keeps the invariant.                                         *)
(***************************************************************************)
\* Whatever a call ends with has the four fields of a result.
IsEnding(out) == \E what, words, code, id : out = Ending(what, words, code, id)

LEMMA RaisedIsEnding ==
    ASSUME NEW what, NEW words, NEW code
    PROVE  /\ IsEnding(Raised(what)) /\ IsEnding([Raised(what) EXCEPT !.code = code])
           /\ IsEnding([Raised(what) EXCEPT !.words = words])
<1>1. PICK r : r = Raised(what)
    OBVIOUS
<1>2. r = Ending(what, <<>>, "-", 0)
    BY <1>1 DEF Raised, NoResult, Ending
<1>3. [r EXCEPT !.code = code] = Ending(what, <<>>, code, 0)
    BY <1>2 DEF Ending
<1>4. [r EXCEPT !.words = words] = Ending(what, words, "-", 0)
    BY <1>2 DEF Ending
<1> QED
    BY <1>1, <1>2, <1>3, <1>4 DEF IsEnding

LEMMA InterpretedIsEnding ==
    ASSUME NEW req, NEW response
    PROVE  IsEnding(Interpreted(req, response))
BY RaisedIsEnding DEF Interpreted

LEMMA OutcomeIsEnding ==
    ASSUME NEW req, NEW wire
    PROVE  IsEnding(Outcome(req, wire))
BY RaisedIsEnding, InterpretedIsEnding DEF Outcome

LEMMA Renumbered ==
    ASSUME NEW out, IsEnding(out), NEW id
    PROVE  /\ [out EXCEPT !.id = id].what = out.what /\ [out EXCEPT !.id = id].words = out.words
           /\ IsEnding([out EXCEPT !.id = id])
<1>1. PICK what, words, code, old : out = Ending(what, words, code, old)
    BY DEF IsEnding
<1>2. [out EXCEPT !.id = id] = Ending(what, words, code, id)
    BY <1>1, Renamed
<1>3. out.what = what /\ out.words = words
    BY <1>1 DEF Ending
<1>4. PICK new : new = [out EXCEPT !.id = id]
    OBVIOUS
<1>5. new = Ending(what, words, code, id)
    BY <1>2, <1>4
<1>6. new.what = what /\ new.words = words /\ IsEnding(new)
    BY <1>5 DEF Ending, IsEnding
<1> QED
    BY <1>3, <1>4, <1>6

LEMMA RaisedWords == \A what : Raised(what).words = <<>> /\ Raised(what).what = what
BY DEF Raised, NoResult

(***************************************************************************)
(* The call.                                                               *)
(***************************************************************************)
LEMMA CallSame ==
    ASSUME CallOk, Same, call' = call, result' = result
    PROVE  CallOk'
BY Steady DEF CallOk, Same

LEMMA CallReturns ==
    ASSUME CallOk, Same, call' = [call EXCEPT !.waiting = FALSE], result'.words \in Seq(Word)
    PROVE  CallOk' /\ call'.waiting = FALSE /\ call'.req = call.req
<1>1. PICK b, req : call = [waiting |-> b, req |-> req] /\ req = call.req
    BY DEF CallOk
<1>2. call' = [waiting |-> FALSE, req |-> req]
    BY <1>1
<1> QED
    BY <1>1, <1>2 DEF CallOk

\* A call that gives up.
LEMMA GivenUp ==
    ASSUME CallOk, Turns, Same, call.waiting, call' = [call EXCEPT !.waiting = FALSE],
           NEW what, result' = Raised(what), lost' = lost + 1, sent' = sent,
           garbled' \in BOOLEAN, misread' = misread
    PROVE  CallOk' /\ Turns' /\ MisreadIsLateEcho'
<1>1. result'.words \in Seq(Word)
    <2>1. <<>> \in Seq(Word)
        OBVIOUS
    <2>2. Raised(what).words = <<>>
        BY RaisedWords
    <2> QED
        BY <2>1, <2>2
<1>2. CallOk' /\ call'.waiting = FALSE
    BY <1>1, CallReturns
<1>3. lost \in Nat /\ ~misread /\ sent \in Nat
    BY DEF Turns
<1>4. lost' \in Nat /\ lost' > 0 /\ lost' # 0
    BY <1>3
<1>5. Turns'
    BY <1>2, <1>3, <1>4 DEF Turns
<1>6. MisreadIsLateEcho'
    BY <1>3 DEF MisreadIsLateEcho
<1> QED
    BY <1>2, <1>5, <1>6

LEMMA TurnsSame ==
    ASSUME Turns, asked' = asked, owed' = owed, call' = call, sent' = sent, lost' = lost,
           garbled' = garbled, misread' = misread
    PROVE  Turns'
BY DEF Turns, Alone

LEMMA LateSame ==
    ASSUME MisreadIsLateEcho, framing' = framing, lost' = lost, result' = result, misread' = misread
    PROVE  MisreadIsLateEcho'
BY DEF MisreadIsLateEcho

LEMMA ConfigSame ==
    ASSUME Settled, Same
    PROVE  Settled'
BY DEF Settled, Same

LEMMA DeviceSame ==
    ASSUME DeviceOk, holding' = holding, count' = count
    PROVE  DeviceOk'
BY DEF DeviceOk

(***************************************************************************)
(* Bytes that move.                                                        *)
(***************************************************************************)
LEMMA UpMovesStep ==
    ASSUME IInv, UpMoves
    PROVE  IInv'
<1>1. Settled /\ UpOk /\ DownOk /\ DeviceOk /\ CallOk /\ Turns /\ MisreadIsLateEcho
    BY DEF IInv
<1>2. /\ Same /\ holding' = holding /\ count' = count /\ down' = down /\ call' = call /\ result' = result
      /\ sent' = sent /\ lost' = lost /\ asked' = asked /\ owed' = owed /\ garbled' = garbled /\ misread' = misread
    BY DEF UpMoves, config, device, ghosts, Same
<1>3. up \in StreamType /\ HeaderOk(up)
    BY <1>1 DEF UpOk
<1>4. CASE \E n \in Sizes(up, "up") : up' = Arrived(up, n)
    <2>1. PICK n \in Sizes(up, "up") : up' = Arrived(up, n)
        BY <1>4
    <2>2. Len(up.flying) \in Nat
        BY <1>3, PartsAre
    <2>3. n \in 0 .. Len(up.flying)
        BY <2>2 DEF Sizes
    <2>4. up' \in StreamType /\ Stream(up') = Stream(up) /\ up'.header = up.header
        BY <1>3, <2>1, <2>3, ArrivedIs
    <2>5. HeaderOk(up')
        BY <1>3, <2>4 DEF HeaderOk
    <2> QED
        BY <1>1, <1>2, <2>4, <2>5, UpOn, DownSame, ConfigSame, DeviceSame, CallSame, TurnsSame, LateSame DEF IInv, Same
<1>5. CASE MustWait(up) /\ up' = HeaderTaken(up)
    <2>1. up' \in StreamType /\ HeaderOk(up') /\ Stream(up') = Stream(up)
        BY <1>3, <1>5, HeaderTakenIs
    <2> QED
        BY <1>1, <1>2, <2>1, UpOn, DownSame, ConfigSame, DeviceSame, CallSame, TurnsSame, LateSame DEF IInv, Same
<1> QED
    BY <1>4, <1>5 DEF UpMoves

LEMMA DownMovesStep ==
    ASSUME IInv, DownMoves
    PROVE  IInv'
<1>1. Settled /\ UpOk /\ DownOk /\ DeviceOk /\ CallOk /\ Turns /\ MisreadIsLateEcho
    BY DEF IInv
<1>2. /\ Same /\ holding' = holding /\ count' = count /\ up' = up /\ call' = call /\ result' = result
      /\ sent' = sent /\ lost' = lost /\ asked' = asked /\ owed' = owed /\ garbled' = garbled /\ misread' = misread
    BY DEF DownMoves, config, device, ghosts, Same
<1>3. DownOk'
    <2>1. CASE \E n \in Sizes(down, "down") : down' = Arrived(down, n)
        BY <1>1, <1>2, <2>1, DownArrived
    <2>2. CASE MustWait(down) /\ down' = HeaderTaken(down)
        BY <1>1, <1>2, <2>2, DownTaken
    <2> QED
        BY <2>1, <2>2 DEF DownMoves
<1> QED
    BY <1>1, <1>2, <1>3, UpSame, ConfigSame, DeviceSame, CallSame, TurnsSame, LateSame DEF IInv, Same

(***************************************************************************)
(* The client.                                                             *)
(***************************************************************************)
LEMMA ConnectStep ==
    ASSUME IInv, Connect
    PROVE  IInv'
<1>1. Settled /\ UpOk /\ DownOk /\ DeviceOk /\ CallOk /\ Turns /\ MisreadIsLateEcho
    BY DEF IInv
<1>2. /\ Same /\ holding' = holding /\ count' = count /\ up' = up /\ down' = down /\ call' = call /\ result' = result
      /\ sent' = sent /\ lost' = lost /\ asked' = asked /\ owed' = owed /\ garbled' = garbled /\ misread' = misread
    BY DEF Connect, config, device, ghosts, Same
<1> QED
    BY <1>1, <1>2, UpSame, DownSame, ConfigSame, DeviceSame, CallSame, TurnsSame, LateSame DEF IInv, Same

LEMMA CloseStep ==
    ASSUME IInv, Close
    PROVE  IInv'
<1>1. Settled /\ UpOk /\ DownOk /\ DeviceOk /\ CallOk /\ Turns /\ MisreadIsLateEcho
    BY DEF IInv
<1>2. /\ Same /\ holding' = holding /\ count' = count /\ up' = up /\ call' = call /\ result' = result
      /\ sent' = sent /\ lost' = lost /\ asked' = asked /\ garbled' = garbled /\ misread' = misread
      /\ down' = NoBytes /\ owed' = <<>> /\ ~call.waiting
    BY DEF Close, config, device, ghosts, Same
<1>3. DownOk'
    <2>1. owed' \in Seq(Owing)
        BY <1>2
    <2> QED
        BY <1>1, <1>2, <2>1, DownGone
<1>4. Turns'
    <2>1. ASSUME lost' = 0 PROVE Alone'
        <3>1. Alone /\ asked \in Seq(Asking) /\ owed \in Seq(Owing)
            BY <1>1, <1>2, <2>1 DEF Turns, UpOk, DownOk
        <3>2. Len(asked) + Len(owed) <= 0 /\ Len(asked) \in Nat /\ Len(owed) \in Nat
            BY <1>2, <3>1 DEF Alone
        <3>3. Len(asked') + Len(owed') <= 0
            BY <1>2, <3>2
        <3>4. call'.waiting = call.waiting /\ ~call'.waiting
            BY <1>2
        <3> QED
            BY <1>2, <3>1, <3>3, <3>4 DEF Alone
    <2> QED
        BY <1>1, <1>2, <2>1 DEF Turns
<1> QED
    BY <1>1, <1>2, <1>3, <1>4, UpSame, ConfigSame, DeviceSame, CallSame, LateSame DEF IInv, Same

LEMMA RefuseStep ==
    ASSUME IInv, NEW req \in Requests[framing], Refuse(req)
    PROVE  IInv'
<1>1. Settled /\ UpOk /\ DownOk /\ DeviceOk /\ CallOk /\ Turns /\ MisreadIsLateEcho
    BY DEF IInv
<1>2. /\ Same /\ holding' = holding /\ count' = count /\ up' = up /\ down' = down
      /\ sent' = sent /\ lost' = lost /\ asked' = asked /\ owed' = owed /\ garbled' = garbled
      /\ misread' = FALSE /\ ~call.waiting /\ call' = [call EXCEPT !.req = req]
    BY DEF Refuse, config, device, Same
<1>3. \E what : result' = Raised(what)
    BY DEF Refuse
<1>4. result'.words \in Seq(Word)
    <2>1. <<>> \in Seq(Word)
        OBVIOUS
    <2>2. PICK what : result' = Raised(what)
        BY <1>3
    <2>3. Raised(what).words = <<>>
        BY RaisedWords
    <2> QED
        BY <2>1, <2>2, <2>3
<1>5. call' = [waiting |-> FALSE, req |-> req]
    <2>1. PICK b, old : call = [waiting |-> b, req |-> old] /\ b = call.waiting /\ b \in BOOLEAN
        BY <1>1 DEF CallOk
    <2>2. b = FALSE
        BY <1>2, <2>1
    <2> QED
        BY <1>2, <2>1, <2>2
<1>6. CallOk'
    BY <1>4, <1>5 DEF CallOk
<1>7. Turns'
    <2>1. ASSUME lost' = 0 PROVE Alone'
        <3>1. Alone /\ asked \in Seq(Asking) /\ owed \in Seq(Owing)
            BY <1>1, <1>2, <2>1 DEF Turns, UpOk, DownOk
        <3>2. Len(asked) + Len(owed) <= 0 /\ Len(asked) \in Nat /\ Len(owed) \in Nat
            BY <1>2, <3>1 DEF Alone
        <3>3. Len(asked) = 0 /\ Len(owed) = 0
            BY ONLY <3>2
        <3>4. asked' = <<>> /\ owed' = <<>> /\ call'.waiting = FALSE
            BY <1>2, <1>5, <3>1, <3>3
        <3>5. Len(asked') + Len(owed') <= 0
            BY <3>4
        <3> QED
            BY <3>4, <3>5 DEF Alone
    <2> QED
        BY <1>1, <1>2, <2>1 DEF Turns
<1>8. MisreadIsLateEcho'
    BY <1>2 DEF MisreadIsLateEcho
<1> QED
    BY <1>1, <1>2, <1>6, <1>7, <1>8, UpSame, DownSame, ConfigSame, DeviceSame DEF IInv, Same

LEMMA SendStep ==
    ASSUME IInv, NEW req \in Requests[framing], Send(req)
    PROVE  IInv'
<1>1. Settled /\ UpOk /\ DownOk /\ DeviceOk /\ CallOk /\ Turns /\ MisreadIsLateEcho
    BY DEF IInv
<1>2. /\ Same /\ holding' = holding /\ count' = count /\ down' = down
      /\ sent' = sent + 1 /\ lost' = lost /\ owed' = owed /\ garbled' = garbled
      /\ misread' = FALSE /\ ~call.waiting /\ call' = [waiting |-> TRUE, req |-> req] /\ result' = NoResult
    BY DEF Send, config, device, Same
<1>3. Sendable(req)
    BY DEF Send, Sendable
<1>4. sent \in Nat
    BY <1>1 DEF Turns
<1>7. UpOk'
    <2>1. CASE link = "open"
        BY <1>1, <1>2, <1>3, <1>4, <2>1, UpSent DEF Same, Send
    <2>2. CASE link # "open"
        BY <1>1, <1>2, <2>2, UpSame DEF Same, Send
    <2> QED
        BY <2>1, <2>2
<1>8. CallOk'
    <2>1. <<>> \in Seq(Word) /\ NoResult.words = <<>>
        BY DEF NoResult
    <2>2. Sendable(req)'
        BY <1>2, <1>3, Steady DEF Same
    <2> QED
        BY <1>2, <2>1, <2>2 DEF CallOk
<1>9. Turns'
    <2>1. ASSUME lost' = 0 PROVE Alone'
        <3>1. Alone /\ asked \in Seq(Asking) /\ owed \in Seq(Owing)
            BY <1>1, <1>2, <2>1 DEF Turns, UpOk, DownOk
        <3>2. Len(asked) + Len(owed) <= 0 /\ Len(asked) \in Nat /\ Len(owed) \in Nat
            BY <1>2, <3>1 DEF Alone
        <3>3. Len(asked) = 0 /\ Len(owed) = 0
            BY ONLY <3>2
        <3>4. asked = <<>> /\ owed' = <<>> /\ call'.waiting = TRUE /\ call'.req = req
            BY <1>2, <3>1, <3>3
        <3>5. PICK it : it = [id |-> sent + 1, req |-> req]
            OBVIOUS
        <3>6. asked' = <<>> \/ asked' = Append(<<>>, it)
            BY <3>4, <3>5 DEF Send
        <3>7. Append(<<>>, it) = <<it>> /\ Len(<<it>>) = 1 /\ <<it>>[1] = it /\ it.req = req
            BY <3>5
        <3>8. Len(asked') + Len(owed') <= 1
            <4>1. PICK a \in 0 .. 1 : a = Len(asked')
                BY <3>6, <3>7
            <4>2. Len(owed') = 0
                BY <3>4
            <4> QED
                BY <4>1, <4>2
        <3>9. asked' # <<>> => asked'[1].req = call'.req
            BY <3>4, <3>6, <3>7
        <3> QED
            BY <3>4, <3>8, <3>9 DEF Alone
    <2>2. sent' \in Nat /\ lost' \in Nat /\ (garbled' => lost' > 0) /\ garbled' \in BOOLEAN
        BY <1>1, <1>2, <1>4 DEF Turns
    <2>3. misread' \in BOOLEAN /\ ~misread'
        BY <1>2
    <2> QED
        BY <2>1, <2>2, <2>3 DEF Turns
<1>10. MisreadIsLateEcho'
    BY <1>2 DEF MisreadIsLateEcho
<1> QED
    BY <1>1, <1>2, <1>7, <1>8, <1>9, <1>10, DownSame, ConfigSame, DeviceSame DEF IInv, Same

(***************************************************************************)
(* A reply read.                                                           *)
(***************************************************************************)
\* In step, it is the reply owed first, and the bytes of it mean what it says.
LEMMA ReceiveIs ==
    ASSUME IInv, Receive, ~garbled
    PROVE  /\ InTurn /\ Len(owed) >= 1 /\ owed # <<>> /\ Head(owed) = owed[1] /\ owed[1] \in Owing
           /\ result' = [Outcome(call.req, Message(down)) EXCEPT !.id = owed[1].id]
           /\ \E req : /\ Sendable(req) /\ Replied(owed[1].reply, req)
                       /\ Means(Outcome(call.req, Message(down)), call.req, req, owed[1].reply, owed[1].reply.crcOk)
<1>1. Settled /\ DownOk /\ owed \in Seq(Owing)
    BY DEF IInv, DownOk
<1>2. HasMessage(down)
    BY DEF Receive
<1>3. /\ Len(owed) >= 1 /\ owed # <<>> /\ owed[1] \in Owing
      /\ \E req, number : /\ Sendable(req) /\ number \in Nat /\ Fits(owed[1].reply, req)
                          /\ Message(down) = ReplyWire(req, number, owed[1].reply)
    BY <1>1, <1>2, NextReply
<1>4. Head(owed) = owed[1] /\ InTurn
    BY <1>1, <1>3 DEF InTurn
<1>5. PICK req, number : /\ Sendable(req) /\ number \in Nat /\ Fits(owed[1].reply, req)
                         /\ Message(down) = ReplyWire(req, number, owed[1].reply)
    BY <1>3
<1>6. PICK reply : reply = owed[1].reply
    OBVIOUS
<1>7. \A asking : Means(Outcome(asking, ReplyWire(req, number, reply)), asking, req, reply, reply.crcOk)
    BY <1>1, <1>5, <1>6, SettledIs, ReplyWireIs
<1>8. Means(Outcome(call.req, ReplyWire(req, number, reply)), call.req, req, reply, reply.crcOk)
    BY <1>7
<1>9. Replied(owed[1].reply, req)
    BY <1>5 DEF Fits
<1>10. result' = [Outcome(call.req, Message(down)) EXCEPT !.id = owed[1].id]
    BY <1>4 DEF Receive
<1> QED
    BY <1>3, <1>4, <1>5, <1>6, <1>8, <1>9, <1>10

LEMMA ReceiveStep ==
    ASSUME IInv, Receive
    PROVE  IInv'
<1>1. Settled /\ UpOk /\ DownOk /\ DeviceOk /\ CallOk /\ Turns /\ MisreadIsLateEcho
    BY DEF IInv
<1>2. /\ Same /\ holding' = holding /\ count' = count /\ up' = up
      /\ sent' = sent /\ lost' = lost /\ asked' = asked /\ garbled' = garbled
      /\ call.waiting /\ HasMessage(down) /\ down' = AfterMessage(down)
      /\ call' = [call EXCEPT !.waiting = FALSE]
      /\ owed' = IF InTurn THEN Tail(owed) ELSE owed
      /\ misread' = (InTurn /\ Head(owed).reply.kind = "write" /\ result'.what = "values")
    BY DEF Receive, config, device, Same
<1>3. DownOk'
    BY <1>1, <1>2, DownRead
<1>4. PICK id : result' = [Outcome(call.req, Message(down)) EXCEPT !.id = id]
    BY DEF Receive
<1>5. Message(down) \in Seq(Byte)
    BY <1>1, <1>2, MessageType DEF DownOk
<1>6. PICK out : out = Outcome(call.req, Message(down)) /\ IsEnding(out) /\ out.words \in Seq(Word)
    BY <1>5, OutcomeIsEnding, OutcomeType
<1>7. result'.what = out.what /\ result'.words = out.words
    BY <1>4, <1>6, Renumbered
<1>8. CallOk' /\ call'.waiting = FALSE /\ call'.req = call.req
    BY <1>1, <1>2, <1>6, <1>7, CallReturns
<1>9. Turns'
    <2>1. ASSUME lost' = 0 PROVE Alone'
        <3>1. Alone /\ asked \in Seq(Asking) /\ owed \in Seq(Owing) /\ ~garbled
            BY <1>1, <1>2, <2>1 DEF Turns, UpOk, DownOk
        <3>2. InTurn /\ Len(owed) >= 1
            BY <3>1, ReceiveIs
        <3>3. Len(asked) + Len(owed) <= 1 /\ Len(asked) \in Nat /\ Len(owed) \in Nat
            BY <1>2, <3>1 DEF Alone
        <3>4. Len(asked) = 0 /\ Len(owed) = 1
            <4> DEFINE a == Len(asked)
                       b == Len(owed)
            <4>1. a \in Nat /\ b \in Nat /\ a + b <= 1 /\ b >= 1
                BY <3>2, <3>3
            <4> HIDE DEF a, b
            <4>2. a = 0 /\ b = 1
                BY ONLY <4>1
            <4> QED
                BY <4>2 DEF a, b
        <3>5. owed' = Tail(owed)
            BY <1>2, <3>2
        <3>6. Len(Tail(owed)) = 0 /\ Tail(owed) \in Seq(Owing)
            BY <3>1, <3>4
        <3>7. asked' = <<>> /\ owed' = <<>>
            BY <1>2, <3>1, <3>4, <3>5, <3>6
        <3>8. Len(asked') + Len(owed') <= 0
            BY <3>7
        <3> QED
            BY <1>8, <3>7, <3>8 DEF Alone
    <2>2. misread' \in BOOLEAN
        BY <1>2
    <2> QED
        BY <1>1, <1>2, <1>8, <2>1, <2>2 DEF Turns
<1>10. MisreadIsLateEcho'
    <2> SUFFICES ASSUME misread'
                 PROVE  /\ lost' > 0 /\ Len(result'.words) = 2
                        /\ \E r \in Requests[framing] : r.fc \in WriteCodes /\ r.addr \in 768 .. 1023
        BY <1>2 DEF MisreadIsLateEcho, Same
    <2>1. InTurn /\ Head(owed).reply.kind = "write" /\ out.what = "values" /\ ~garbled
        BY <1>2, <1>7 DEF InTurn
    <2>2. Head(owed) = owed[1] /\ owed # <<>>
        BY <2>1, ReceiveIs
    <2>3. PICK req : /\ Sendable(req) /\ Replied(owed[1].reply, req)
                     /\ Means(out, call.req, req, owed[1].reply, owed[1].reply.crcOk)
        BY <1>6, <2>1, ReceiveIs
    <2>4. owed[1].reply.kind = "write"
        BY <2>1, <2>2
    <2>5. req.fc \in WriteCodes
        BY <2>3, <2>4 DEF Replied
    <2>6. call.req.fc \in ReadCodes /\ Misread(out, req)
        <3>1. \A what : what # "values" => out # Raised(what)
            BY <2>1, RaisedWords
        <3>2. \/ call.req.fc \in ReadCodes /\ Misread(out, req)
              \/ out = Raised("written") \/ out = Raised("DeviceError")
            BY <2>3, <2>4 DEF Means
        <3>3. out # Raised("written") /\ out # Raised("DeviceError")
            BY <3>1
        <3> QED
            BY <3>2, <3>3
    <2>7. Len(out.words) = 2 /\ req.addr \in 768 .. 1023
        BY <2>6 DEF Misread
    <2>8. req \in Requests[framing]
        BY <2>3 DEF Sendable
    <2>9. lost > 0
        <3>1. ASSUME lost = 0 PROVE FALSE
            <4>1. Alone
                BY <1>1, <3>1 DEF Turns
            <4>2. call.req.fc \in WriteCodes
                BY <2>2, <2>4, <4>1 DEF Alone
            <4>3. Sendable(call.req)
                BY <1>1, <1>2 DEF CallOk
            <4>4. Asks(call.req)
                BY <1>1, <4>3, SettledIs, AsksIs
            <4>5. call.req.fc \in DOMAIN CodeOf
                BY <4>4 DEF Asks
            <4>6. PICK fc : fc = call.req.fc
                OBVIOUS
            <4> QED
                BY <2>6, <4>2, <4>5, <4>6, Codes
        <3>2. lost \in Nat
            BY <1>1 DEF Turns
        <3> QED
            BY <3>1, <3>2
    <2> QED
        BY <1>2, <1>7, <2>5, <2>7, <2>8, <2>9
<1> QED
    BY <1>1, <1>2, <1>3, <1>8, <1>9, <1>10, UpSame, ConfigSame, DeviceSame DEF IInv, Same

(***************************************************************************)
(* Calls given up.                                                         *)
(***************************************************************************)
LEMMA GiveUpStep ==
    ASSUME IInv, NEW what, GiveUp(what), garbled' \in BOOLEAN, DownOk'
    PROVE  IInv'
<1>1. Settled /\ UpOk /\ DeviceOk /\ CallOk /\ Turns
    BY DEF IInv
<1>2. /\ Same /\ holding' = holding /\ count' = count /\ up' = up /\ asked' = asked
      /\ call.waiting /\ call' = [call EXCEPT !.waiting = FALSE] /\ result' = Raised(what)
      /\ lost' = lost + 1 /\ sent' = sent /\ misread' = misread
    BY DEF GiveUp, config, device, Same
<1>3. CallOk' /\ Turns' /\ MisreadIsLateEcho'
    BY <1>1, <1>2, GivenUp
<1> QED
    BY <1>1, <1>2, <1>3, UpSame, ConfigSame, DeviceSame DEF IInv, Same

LEMMA ReadRaisesValueErrorStep ==
    ASSUME IInv, ReadRaisesValueError
    PROVE  IInv'
<1>1. DownOk /\ garbled \in BOOLEAN
    BY DEF IInv, Turns
<1>2. GiveUp("ValueError") /\ NegativeBody(down) /\ garbled' = garbled
      /\ down' = [down EXCEPT !.header = <<>>, !.buffer = Unread(down)]
    BY DEF ReadRaisesValueError
<1>3. Same /\ owed' = owed
    BY <1>2 DEF GiveUp, config, Same
<1>4. DownOk'
    BY <1>1, <1>2, <1>3, DownRaised
<1> QED
    BY <1>1, <1>2, <1>4, GiveUpStep

LEMMA ExpireStep ==
    ASSUME IInv, Expire
    PROVE  IInv'
<1>1. DownOk /\ garbled \in BOOLEAN
    BY DEF IInv, Turns
<1>2. /\ GiveUp("DeviceTimeout") /\ garbled' = (garbled \/ down.header # <<>>)
      /\ down' = [down EXCEPT !.header = <<>>]
    BY DEF Expire
<1>3. Same /\ owed' = owed
    BY <1>2 DEF GiveUp, config, Same
<1>4. DownOk'
    BY <1>1, <1>2, <1>3, DownDropped
<1>5. garbled' \in BOOLEAN
    BY <1>2
<1> QED
    BY <1>2, <1>4, <1>5, GiveUpStep

LEMMA EofStep ==
    ASSUME IInv, Eof
    PROVE  IInv'
<1>1. DownOk /\ garbled \in BOOLEAN /\ owed \in Seq(Owing)
    BY DEF IInv, Turns, DownOk
<1>2. GiveUp("DeviceTimeout") /\ AtEof /\ down' = NoBytes /\ garbled' = garbled
    BY DEF Eof
<1>3. Same /\ owed' = owed
    BY <1>2 DEF GiveUp, config, Same
<1>4. ~garbled => owed' = <<>>
    BY <1>1, <1>2, <1>3, EofIs
<1>5. DownOk'
    BY <1>1, <1>2, <1>3, <1>4, DownGone
<1> QED
    BY <1>1, <1>2, <1>5, GiveUpStep

LEMMA ReadRaisesStep ==
    ASSUME IInv, ReadRaises
    PROVE  IInv'
<1>1. DownOk /\ garbled \in BOOLEAN
    BY DEF IInv, Turns
<1>2. GiveUp("ConnectionError") /\ down' = down /\ garbled' = garbled
    BY DEF ReadRaises
<1>3. Same /\ owed' = owed
    BY <1>2 DEF GiveUp, config, Same
<1>4. DownOk'
    BY <1>1, <1>2, <1>3, DownSame
<1> QED
    BY <1>1, <1>2, <1>4, GiveUpStep

(***************************************************************************)
(* The server.                                                             *)
(***************************************************************************)
\* The server reads the request asked first, and serves it as the device would.
LEMMA ServerReads ==
    ASSUME IInv, HasMessage(up)
    PROVE  LET w   == Message(up)
               req == asked[1].req
               out == HandleFrame(Profile, faults, holding, count + 1, req)
           IN  /\ Len(asked) >= 1 /\ asked # <<>> /\ asked[1] \in Asking /\ Head(asked) = asked[1]
               /\ Sendable(req) /\ w = WrapRequest(req, asked[1].id - 1)
               /\ Parses(w) /\ Handled(w) = out
               /\ out.holding \in [DOMAIN Profile.holding -> Word] /\ out.reply \in ReplyType
               /\ out.reply.crcOk
               /\ Ends(w) <=> Unanswered(out.reply)
               /\ ~Ends(w) => /\ Fits(Owed(out.reply), req)
                              /\ WrapResponse(Response(w), w) = ReplyWire(req, asked[1].id - 1, Owed(out.reply))
<1>1. Settled /\ UpOk /\ DeviceOk
    BY DEF IInv
<1>2. /\ Len(asked) >= 1 /\ asked # <<>> /\ asked[1] \in Asking
      /\ Message(up) = WrapRequest(asked[1].req, asked[1].id - 1)
    BY <1>1, NextRequest
<1>3. PICK req, number : req = asked[1].req /\ number = asked[1].id - 1
    OBVIOUS
<1>4. Sendable(req) /\ number \in Nat
    BY <1>2, <1>3 DEF Asking
<1>5. PICK w : w = Message(up) /\ w = WrapRequest(req, number)
    BY <1>2, <1>3
<1>6. /\ framing \in {"custom", "modbus-tcp"} /\ faults \in Seq(FaultConfig)
      /\ holding \in [DOMAIN holding -> Word] /\ DOMAIN holding = DOMAIN Profile.holding /\ count \in Nat
    BY <1>1, SettledIs DEF DeviceOk
<1> DEFINE out == HandleFrame(Profile, faults, holding, count + 1, req)
<1>7. /\ Parses(w) /\ Handled(w) = out
      /\ out.holding \in [DOMAIN holding -> Word] /\ out.reply \in ReplyType
      /\ out.reply.crcOk
      /\ Ends(w) <=> Unanswered(out.reply)
      /\ ~Ends(w) => /\ Fits(Owed(out.reply), req)
                     /\ WrapResponse(Response(w), w) = ReplyWire(req, number, Owed(out.reply))
    BY ONLY <1>4, <1>5, <1>6, ServedIs
<1>8. Head(asked) = asked[1]
    BY <1>1, <1>2 DEF UpOk
<1> HIDE DEF out
<1>9. out.holding \in [DOMAIN Profile.holding -> Word]
    BY <1>6, <1>7
<1>10. out = HandleFrame(Profile, faults, holding, count + 1, asked[1].req)
    BY <1>3 DEF out
<1> QED
    BY <1>2, <1>3, <1>4, <1>5, <1>7, <1>8, <1>9, <1>10

LEMMA NothingLeft ==
    ASSUME NEW S, NEW s \in Seq(S), Len(s) = 0
    PROVE  s = <<>>
OBVIOUS

LEMMA DeviceServed ==
    ASSUME IInv, HasMessage(up), UpdateDevice(Message(up))
    PROVE  DeviceOk'
<1>1. PICK w : w = Message(up)
    OBVIOUS
<1>2. PICK out : out = HandleFrame(Profile, faults, holding, count + 1, asked[1].req)
    OBVIOUS
<1>3. Handled(w) = out /\ out.holding \in [DOMAIN Profile.holding -> Word]
    BY <1>1, <1>2, ServerReads
<1>4. holding' = Handled(w).holding /\ count' = count + 1
    BY <1>1 DEF UpdateDevice
<1>5. count \in Nat
    BY DEF IInv, DeviceOk
<1> QED
    BY <1>3, <1>4, <1>5 DEF DeviceOk

LEMMA AnswerStep ==
    ASSUME IInv, Answer
    PROVE  IInv'
<1>1. Settled /\ UpOk /\ DownOk /\ DeviceOk /\ CallOk /\ Turns /\ MisreadIsLateEcho
    BY DEF IInv
<1>2. PICK w : w = Message(up)
    OBVIOUS
<1>3. PICK req, number : req = asked[1].req /\ number = asked[1].id - 1
    OBVIOUS
<1>4. PICK out : out = HandleFrame(Profile, faults, holding, count + 1, req)
    OBVIOUS
<1>5. HasMessage(up) /\ ~Ends(w) /\ UpdateDevice(Message(up))
    BY <1>2 DEF Answer
<1>6. /\ Len(asked) >= 1 /\ asked # <<>> /\ asked[1] \in Asking /\ Head(asked) = asked[1]
      /\ Sendable(req) /\ Handled(w) = out /\ out.reply \in ReplyType
      /\ Fits(Owed(out.reply), req)
      /\ WrapResponse(Response(w), w) = ReplyWire(req, number, Owed(out.reply))
    BY <1>2, <1>3, <1>4, <1>5, ServerReads
<1>7. PICK reply : reply = Owed(out.reply)
    OBVIOUS
<1>8. reply \in ReplyType
    BY <1>6, <1>7, OwedIs
<1>9. PICK id : id = asked[1].id
    OBVIOUS
<1>10. id \in Nat /\ number \in Nat
    BY <1>3, <1>6, <1>9 DEF Asking
<1>11. /\ Same /\ up' = AfterMessage(up) /\ asked' = Tail(asked) /\ call' = call /\ result' = result
       /\ sent' = sent /\ lost' = lost /\ garbled' = garbled /\ misread' = misread
    BY DEF Answer, config, Same
<1>12. \/ /\ down' = WrittenTo(down, ReplyWire(req, number, reply))
          /\ owed' = Append(owed, [id |-> id, reply |-> reply])
       \/ down' = down /\ owed' = owed
    <2>1. CASE link = "open"
        <3>1. /\ down' = WrittenTo(down, WrapResponse(Response(w), w))
              /\ owed' = Append(owed, [id |-> Head(asked).id, reply |-> Owed(Handled(w).reply)])
            BY <1>2, <2>1 DEF Answer, Owed
        <3> QED
            BY <1>6, <1>7, <1>9, <3>1
    <2>2. CASE link # "open"
        BY <2>2 DEF Answer
    <2> QED
        BY <2>1, <2>2
<1>13. UpOk'
    BY <1>1, <1>5, <1>11, UpServed DEF Same
<1>14. DownOk'
    <2>1. CASE down' = down /\ owed' = owed
        BY <1>1, <1>11, <2>1, DownSame
    <2>2. CASE /\ down' = WrittenTo(down, ReplyWire(req, number, reply))
               /\ owed' = Append(owed, [id |-> id, reply |-> reply])
        BY <1>1, <1>6, <1>7, <1>8, <1>10, <1>11, <2>2, DownWritten
    <2> QED
        BY <1>12, <2>1, <2>2
<1>15. DeviceOk'
    BY <1>5, DeviceServed
<1>16. Turns'
    <2>1. ASSUME lost' = 0 PROVE Alone'
        <3>1. Alone /\ asked \in Seq(Asking) /\ owed \in Seq(Owing) /\ call.waiting \in BOOLEAN
            BY <1>1, <1>11, <2>1 DEF Turns, UpOk, DownOk, CallOk
        <3>2. /\ Len(asked) + Len(owed) <= (IF call.waiting THEN 1 ELSE 0)
              /\ Len(asked) \in Nat /\ Len(owed) \in Nat
            BY <3>1 DEF Alone
        <3>3. call.waiting /\ Len(asked) = 1 /\ Len(owed) = 0
            <4> DEFINE a == Len(asked)
                       b == Len(owed)
            <4>1. /\ a \in Nat /\ b \in Nat /\ a >= 1 /\ call.waiting \in BOOLEAN
                  /\ a + b <= (IF call.waiting THEN 1 ELSE 0)
                BY <1>6, <3>1, <3>2
            <4> HIDE DEF a, b
            <4>2. call.waiting /\ a = 1 /\ b = 0
                BY ONLY <4>1
            <4> QED
                BY <4>2 DEF a, b
        <3>4. Tail(asked) = <<>> /\ owed = <<>>
            <4>1. Tail(asked) \in Seq(Asking) /\ Len(Tail(asked)) = 0
                BY <3>1, <3>3
            <4>2. owed = <<>>
                BY <3>1, <3>3
            <4> QED
                BY <4>1, <4>2, NothingLeft
        <3>5. PICK it : it = [id |-> id, reply |-> reply]
            OBVIOUS
        <3>6. asked' = <<>> /\ (owed' = <<>> \/ owed' = Append(<<>>, it))
            BY <1>11, <1>12, <3>4, <3>5
        <3>7. Append(<<>>, it) = <<it>> /\ Len(<<it>>) = 1 /\ <<it>>[1] = it /\ it.reply = reply
            BY <3>5
        <3>8. Len(asked') + Len(owed') <= 1
            <4>1. PICK b \in 0 .. 1 : b = Len(owed')
                BY <3>6, <3>7
            <4>2. Len(asked') = 0
                BY <3>6
            <4> QED
                BY <4>1, <4>2
        <3>9. asked[1].req = call.req
            BY <1>6, <3>1 DEF Alone
        <3>10. owed' # <<>> /\ owed'[1].reply.kind = "write" => call'.req.fc \in WriteCodes
            <4>1. SUFFICES ASSUME owed' # <<>>, owed'[1].reply.kind = "write"
                           PROVE  call'.req.fc \in WriteCodes
                OBVIOUS
            <4>2. reply.kind = "write"
                BY <3>6, <3>7, <4>1
            <4>3. req.fc \in WriteCodes
                BY <1>6, <1>7, <4>2 DEF Fits, Replied
            <4> QED
                BY <1>3, <1>11, <3>9, <4>3
        <3> QED
            BY <1>11, <3>3, <3>6, <3>8, <3>10 DEF Alone
    <2> QED
        BY <1>1, <1>11, <2>1 DEF Turns
<1> QED
    BY <1>1, <1>11, <1>13, <1>14, <1>15, <1>16, ConfigSame, CallSame, LateSame DEF IInv, Same

\* The requests not yet handled go with the handler.
LEMMA AskedGone ==
    ASSUME IInv, asked' = <<>>, owed' = owed, call' = call, sent' = sent, lost' = lost,
           garbled' = garbled, misread' = misread
    PROVE  Turns'
<1>1. Turns /\ asked \in Seq(Asking) /\ owed \in Seq(Owing) /\ call.waiting \in BOOLEAN
    BY DEF IInv, UpOk, DownOk, CallOk
<1>2. ASSUME lost' = 0 PROVE Alone'
    <2>1. Alone
        BY <1>1, <1>2 DEF Turns
    <2>2. Len(asked') + Len(owed') <= (IF call'.waiting THEN 1 ELSE 0)
        <3> DEFINE a == Len(asked)
                   b == Len(owed)
                   m == IF call.waiting THEN 1 ELSE 0
        <3>1. a \in Nat /\ b \in Nat /\ m \in Nat /\ a + b <= m
            BY <1>1, <2>1 DEF Alone
        <3> HIDE DEF a, b, m
        <3>2. 0 + b <= m
            BY ONLY <3>1
        <3>3. Len(asked') = 0 /\ Len(owed') = b /\ m = IF call'.waiting THEN 1 ELSE 0
            BY DEF b, m
        <3> QED
            BY <3>2, <3>3
    <2> QED
        BY <2>1, <2>2 DEF Alone
<1> QED
    BY <1>1, <1>2 DEF Turns

LEMMA HangStep ==
    ASSUME IInv, Hang
    PROVE  IInv'
<1>1. Settled /\ UpOk /\ DownOk /\ DeviceOk /\ CallOk /\ Turns /\ MisreadIsLateEcho
    BY DEF IInv
<1>2. /\ Same /\ up' = NoBytes /\ asked' = <<>> /\ down' = down /\ owed' = owed
      /\ call' = call /\ result' = result
      /\ sent' = sent /\ lost' = lost /\ garbled' = garbled /\ misread' = misread
    BY DEF Hang, config, Same
<1>3. HasMessage(up) /\ Parses(Message(up))
    BY ServerReads DEF Hang
<1>4. UpdateDevice(Message(up))
    BY <1>3 DEF Hang
<1>5. DeviceOk'
    BY <1>3, <1>4, DeviceServed
<1> QED
    BY <1>1, <1>2, <1>5, UpGone, DownSame, ConfigSame, CallSame, LateSame, AskedGone DEF IInv, Same

LEMMA EndOfRequestsStep ==
    ASSUME IInv, EndOfRequests
    PROVE  IInv'
<1>1. Settled /\ UpOk /\ DownOk /\ DeviceOk /\ CallOk /\ Turns /\ MisreadIsLateEcho
    BY DEF IInv
<1>2. /\ Same /\ up' = NoBytes /\ asked' = <<>> /\ down' = down /\ owed' = owed
      /\ call' = call /\ result' = result /\ holding' = holding /\ count' = count
      /\ sent' = sent /\ lost' = lost /\ garbled' = garbled /\ misread' = misread
    BY DEF EndOfRequests, config, device, Same
<1> QED
    BY <1>1, <1>2, UpGone, DownSame, ConfigSame, DeviceSame, CallSame, LateSame, AskedGone DEF IInv, Same

LEMMA Stutter ==
    ASSUME IInv, UNCHANGED vars
    PROVE  IInv'
<1>1. Settled /\ UpOk /\ DownOk /\ DeviceOk /\ CallOk /\ Turns /\ MisreadIsLateEcho
    BY DEF IInv
<1>2. /\ Same /\ up' = up /\ asked' = asked /\ down' = down /\ owed' = owed
      /\ call' = call /\ result' = result /\ holding' = holding /\ count' = count
      /\ sent' = sent /\ lost' = lost /\ garbled' = garbled /\ misread' = misread
    BY DEF vars, config, device, ghosts, Same
<1> QED
    BY <1>1, <1>2, UpSame, DownSame, ConfigSame, DeviceSame, CallSame, LateSame, TurnsSame DEF IInv, Same

\* Every step keeps it.
LEMMA StepKeeps ==
    ASSUME IInv, [Next]_vars
    PROVE  IInv'
<1>1. CASE UpMoves \/ DownMoves \/ Connect \/ Close
    BY <1>1, UpMovesStep, DownMovesStep, ConnectStep, CloseStep
<1>2. CASE ClientReturns
    BY <1>2, ReceiveStep, ReadRaisesValueErrorStep, ExpireStep, EofStep, ReadRaisesStep DEF ClientReturns
<1>3. CASE Answer \/ Hang \/ EndOfRequests
    BY <1>3, AnswerStep, HangStep, EndOfRequestsStep
<1>4. CASE \E req \in Requests[framing] : Refuse(req) \/ Send(req)
    BY <1>4, RefuseStep, SendStep
<1>5. CASE UNCHANGED vars
    BY <1>5, Stutter
<1> QED
    BY <1>1, <1>2, <1>3, <1>4, <1>5 DEF Next

(***************************************************************************)
(* Wherever TCP cuts the streams and whenever timeouts fire, the stream to *)
(* the server spells the requests not yet handled, and the one to the      *)
(* client the replies not yet read, until a timeout between the two reads  *)
(* of a message (server.py:28-45, client.py:85-98).                        *)
(***************************************************************************)
THEOREM StaysInStep == Spec => []IInv
<1>1. Init => IInv
    BY Initially
<1>2. IInv /\ [Next]_vars => IInv'
    BY StepKeeps
<1> QED
    BY <1>1, <1>2, PTL DEF Spec

(***************************************************************************)
(* What travels are bytes, and what calls return and registers hold words, *)
(* whatever bytes a reader out of step takes for a message (codec.py,      *)
(* framing.py, mbap.py).                                                   *)
(***************************************************************************)
THEOREM BytesAndWords == Spec => []TypeOK
<1>1. IInv => TypeOK
    BY DEF IInv, TypeOK, DeviceOk, UpOk, DownOk, CallOk
<1> QED
    BY <1>1, StaysInStep, PTL

(***************************************************************************)
(* An echo is returned as registers read only after a call was given up,   *)
(* as two registers, and only if a register from 0x0300 to 0x03FF was to   *)
(* be written (codec.py:83-98, client.py:109-127).                         *)
(***************************************************************************)
THEOREM OnlyLateEchoesAreMisread == Spec => []MisreadIsLateEcho
<1>1. IInv => MisreadIsLateEcho
    BY DEF IInv
<1> QED
    BY <1>1, StaysInStep, PTL

(***************************************************************************)
(* While replies come in one piece no timeout throws a header away         *)
(* (server.py:28-45, client.py:91-98).                                     *)
(***************************************************************************)
THEOREM WholeMessagesStayInStep == Spec => []WholeRepliesKeepStep
<1>1. IInv => WholeRepliesKeepStep
    BY DEF IInv, DownOk
<1> QED
    BY <1>1, StaysInStep, PTL

(***************************************************************************)
(* The steps of DeviceLink.  Its operators are those of this module.       *)
(***************************************************************************)
\* Functions of one client.
LEMMA OneClient ==
    ASSUME NEW v, NEW new
    PROVE  /\ [c \in {"client"} |-> v]["client"] = v
           /\ [[c \in {"client"} |-> v] EXCEPT !["client"] = new] = [c \in {"client"} |-> new]
OBVIOUS

LEMMA SameResults ==
    /\ Link!NoResult = NoResult
    /\ \A what : Link!Raised(what) = Raised(what)
BY DEF Link!NoResult, NoResult, Link!Raised, Raised

LEMMA UpMovesMaps ==
    ASSUME UpMoves
    PROVE  UNCHANGED Link!vars
BY DEF UpMoves, Link!vars, Link!config, Link!device, Link!counts, config, device, ghosts

LEMMA ConnectMaps ==
    ASSUME Connect
    PROVE  Link!Connect("client")
<1>1. /\ link = "unconnected" /\ link' = "open" /\ handler' = "reading"
      /\ UNCHANGED <<config, device, up, down, call, result, ghosts>>
    BY DEF Connect
<1>2. [[c \in {"client"} |-> [pc |-> handler, timer |-> 0]] EXCEPT !["client"].pc = "reading"]
          = [c \in {"client"} |-> [pc |-> "reading", timer |-> 0]]
    OBVIOUS
<1>3. [[c \in {"client"} |-> link] EXCEPT !["client"] = "open"] = [c \in {"client"} |-> "open"]
    OBVIOUS
<1> QED
    BY <1>1, <1>2, <1>3 DEF Link!Connect, Link!config, Link!device, Link!counts, config, device, ghosts

LEMMA CloseMaps ==
    ASSUME Close
    PROVE  Link!Close("client")
BY DEF Close, Link!Close, Link!config, Link!device, Link!counts, config, device, ghosts

LEMMA SamePackable ==
    ASSUME framing \in {"custom", "modbus-tcp"}, NEW req, req.block \in Seq(Word)
    PROVE  Link!Packable(req) <=> Packable(req)
<1> DEFINE n == Len(req.block)
           b == RegisterBlock(req.block)
           k == Len(b)
<1>1. n \in Nat /\ k = 2 * n /\ k \in Nat
    BY BlockIs
<1>2. CASE Tcp
    <2>1. Packable(req) <=> k <= 255
        BY <1>2 DEF Packable, PduFits
    <2>2. Link!Packable(req) <=> 2 * n <= 255
        BY <1>2 DEF Link!Packable, Tcp
    <2> HIDE DEF n, k
    <2> QED
        BY <1>1, <2>1, <2>2
<1>3. CASE ~Tcp
    <2>1. Packable(req) <=> 8 + k \in Word
        BY <1>3 DEF Packable
    <2>2. Link!Packable(req) <=> 2 * n <= 65535 - 8
        BY <1>3 DEF Link!Packable, Tcp
    <2> HIDE DEF n, k
    <2>3. 8 + k \in Word <=> 8 + k <= 65535
        <3> DEFINE m == 8 + k
        <3>1. m \in Int /\ 0 <= m
            BY <1>1
        <3> HIDE DEF m
        <3>2. m \in Word <=> m <= 65535
            BY <3>1, IsWord
        <3> QED
            BY <3>2 DEF m
    <2> QED
        BY <1>1, <2>1, <2>2, <2>3
<1> QED
    BY <1>2, <1>3

LEMMA IsIssued ==
    ASSUME Settled, NEW req \in Requests[framing]
    PROVE  /\ req \in UNION {Requests[f] : f \in DOMAIN Requests} /\ req.block \in Seq(Word)
           /\ Link!Encodable(req) <=> Encodable(req)
           /\ Link!Packable(req) <=> Packable(req)
<1>1. framing \in {"custom", "modbus-tcp"} /\ framing \in DOMAIN Requests
    BY SettledIs, RequestsAssumption
<1>2. req \in RequestType
    BY <1>1, RequestsAssumption
<1>3. req.block \in Seq(Word)
    BY <1>2 DEF RequestType
<1>4. Link!Encodable(req) <=> Encodable(req)
    BY DEF Link!Encodable, Encodable, Link!Word, Word
<1> QED
    BY <1>1, <1>3, <1>4, SamePackable

LEMMA RefuseMaps ==
    ASSUME IInv, NEW req \in Requests[framing], Refuse(req)
    PROVE  Link!Refuse("client", req)
<1>1. Settled /\ call = [waiting |-> call.waiting, req |-> call.req]
    BY DEF IInv, CallOk
<1>2. /\ Link!Encodable(req) <=> Encodable(req)
      /\ Link!Packable(req) <=> Packable(req)
    BY <1>1, IsIssued
<1>3. call'.waiting = call.waiting /\ call'.req = req
    BY <1>1 DEF Refuse
<1>4. [c \in {"client"} |-> [waiting |-> call'.waiting, req |-> call'.req, left |-> 0]]
        = [[c \in {"client"} |-> [waiting |-> call.waiting, req |-> call.req, left |-> 0]]
              EXCEPT !["client"].req = req]
    BY <1>3
<1>5. \A what : result' = Raised(what) =>
         [c \in {"client"} |-> result'] = [[c \in {"client"} |-> result] EXCEPT !["client"] = Link!Raised(what)]
    BY SameResults
<1>6. /\ ~call.waiting
      /\ UNCHANGED <<config, device, link, up, down, handler, sent, got, lost, asked, owed, garbled>>
    BY DEF Refuse
<1>7. \/ ~Encodable(req) /\ result' = Raised("FrameError")
      \/ Encodable(req) /\ link \in {"unconnected", "left"} /\ result' = Raised("DeviceError")
      \/ /\ Encodable(req) /\ link \notin {"unconnected", "left"} /\ ~Packable(req)
         /\ result' = Raised("struct.error")
      \/ /\ Encodable(req) /\ link \in {"reset", "aborted"} /\ Packable(req)
         /\ result' = Raised("ConnectionError")
    BY DEF Refuse
<1> QED
    BY <1>2, <1>4, <1>5, <1>6, <1>7 DEF Link!Refuse, Link!config, Link!device, Link!counts, config, device

LEMMA SendMaps ==
    ASSUME IInv, NEW req \in Requests[framing], Send(req)
    PROVE  Link!Send("client", req)
<1>1. Settled
    BY DEF IInv
<1>2. /\ Link!Encodable(req) <=> Encodable(req)
      /\ Link!Packable(req) <=> Packable(req)
    BY <1>1, IsIssued
<1>3. /\ ~call.waiting /\ Encodable(req) /\ Packable(req) /\ sent < MaxSent
      /\ link \in {"open", "closed"} /\ sent' = sent + 1
      /\ call'.waiting = TRUE /\ call'.req = req /\ result' = NoResult
      /\ UNCHANGED <<config, device, down, handler, got, lost, owed, garbled>>
    BY DEF Send
<1>4. IF link = "open" THEN asked' = Append(asked, [id |-> sent + 1, req |-> req]) /\ link' = link
      ELSE link' = "reset" /\ asked' = asked
    BY DEF Send
<1>5. [c \in {"client"} |-> [waiting |-> call'.waiting, req |-> call'.req, left |-> 0]]
        = [[c \in {"client"} |-> [waiting |-> call.waiting, req |-> call.req, left |-> 0]]
              EXCEPT !["client"] = [waiting |-> TRUE, req |-> req, left |-> 0]]
    BY <1>3
<1> QED
    BY <1>2, <1>3, <1>4, <1>5, SameResults DEF Link!Send, Link!config, Link!device, Link!counts, config, device

LEMMA GiveUpMaps ==
    ASSUME CallOk, NEW what, GiveUp(what)
    PROVE  Link!GiveUp("client", what)
<1>1. /\ call.waiting /\ result' = Raised(what) /\ lost' = lost + 1
      /\ call' = [call EXCEPT !.waiting = FALSE]
      /\ UNCHANGED <<config, device, link, up, handler, sent, got, asked, owed, misread>>
    BY DEF GiveUp
<1>2. call'.waiting = FALSE /\ call'.req = call.req
    BY <1>1 DEF CallOk
<1>3. [c \in {"client"} |-> [waiting |-> call'.waiting, req |-> call'.req, left |-> 0]]
        = [[c \in {"client"} |-> [waiting |-> call.waiting, req |-> call.req, left |-> 0]]
              EXCEPT !["client"].waiting = FALSE, !["client"].left = 0]
    BY <1>2
<1> QED
    BY <1>1, <1>3, SameResults DEF Link!GiveUp, Link!config, Link!device, config, device

LEMMA ReceiveMaps ==
    ASSUME IInv, Receive, ~garbled', ~misread'
    PROVE  Link!Receive("client")
<1>1. CallOk
    BY DEF IInv
<1>2. /\ call.waiting /\ call' = [call EXCEPT !.waiting = FALSE] /\ ~garbled
      /\ owed' = (IF InTurn THEN Tail(owed) ELSE owed)
      /\ got' = (IF InTurn THEN got + 1 ELSE got)
      /\ misread' = (InTurn /\ Head(owed).reply.kind = "write" /\ result'.what = "values")
      /\ UNCHANGED <<config, device, link, up, handler, sent, lost, asked, garbled>>
    BY DEF Receive
<1>3. /\ InTurn /\ owed # <<>> /\ Head(owed) = owed[1] /\ owed[1] \in Owing
      /\ result' = [Outcome(call.req, Message(down)) EXCEPT !.id = owed[1].id]
      /\ \E req : /\ Sendable(req) /\ Replied(owed[1].reply, req)
                  /\ Means(Outcome(call.req, Message(down)), call.req, req, owed[1].reply, owed[1].reply.crcOk)
    BY <1>2, ReceiveIs
<1>4. PICK id, reply : id = owed[1].id /\ reply = owed[1].reply
    OBVIOUS
<1>5. owed[1] = [id |-> id, reply |-> reply] /\ reply.crcOk \in BOOLEAN
    BY <1>3, <1>4 DEF Owing, ReplyType
<1>6. PICK out : out = Outcome(call.req, Message(down))
    OBVIOUS
<1>7. PICK req : Replied(reply, req) /\ Means(out, call.req, req, reply, reply.crcOk)
    BY <1>3, <1>4, <1>6
<1>8. IsEnding(out)
    BY <1>6, OutcomeIsEnding
<1>9. result' = [out EXCEPT !.id = id]
    BY <1>3, <1>4, <1>6
<1>10. result'.what = out.what
    BY <1>8, <1>9, Renumbered
<1>11. ~(reply.kind = "write" /\ out.what = "values")
    BY <1>2, <1>3, <1>4, <1>10
<1>12. result' = Link!Decode(call.req, Head(owed))
    <2>1. [out EXCEPT !.id = id] = Link!Decode(call.req, [id |-> id, reply |-> reply])
        BY <1>5, <1>7, <1>11, MeansDecode
    <2> QED
        BY <1>3, <1>5, <1>9, <2>1
<1>13. call'.waiting = FALSE /\ call'.req = call.req
    BY <1>1, <1>2 DEF CallOk
<1>14. [c \in {"client"} |-> [waiting |-> call'.waiting, req |-> call'.req, left |-> 0]]
        = [[c \in {"client"} |-> [waiting |-> call.waiting, req |-> call.req, left |-> 0]]
              EXCEPT !["client"].waiting = FALSE, !["client"].left = 0]
    BY <1>13
<1>15. /\ owed' = Tail(owed) /\ got' = got + 1
       /\ UNCHANGED <<framing, faults, holding, count, link, asked, handler, sent, lost>>
    BY <1>2, <1>3 DEF config, device
<1> HIDE DEF Link!Decode
<1> QED
    BY <1>2, <1>3, <1>12, <1>14, <1>15 DEF Link!Receive, Link!config, Link!device

LEMMA ExpireMaps ==
    ASSUME IInv, Expire
    PROVE  Link!Expire("client")
BY GiveUpMaps DEF Expire, Link!Expire, IInv

LEMMA NoValueError ==
    ASSUME IInv, ReadRaisesValueError, ~garbled'
    PROVE  FALSE
BY DownOutOfStep DEF IInv, ReadRaisesValueError

LEMMA EofMaps ==
    ASSUME IInv, Eof, ~garbled'
    PROVE  Link!Eof("client")
<1>1. DownOk /\ CallOk
    BY DEF IInv
<1>2. ~garbled /\ AtEof /\ link \in {"closed", "reset"} /\ GiveUp("DeviceTimeout")
    BY DEF Eof
<1>3. owed = <<>>
    BY <1>1, <1>2, EofIs
<1> QED
    BY <1>1, <1>2, <1>3, GiveUpMaps DEF Link!Eof

LEMMA ReadRaisesMaps ==
    ASSUME IInv, ReadRaises, ~garbled'
    PROVE  Link!ReadRaises("client")
<1>1. DownOk /\ CallOk
    BY DEF IInv
<1>2. ~garbled /\ AtEof /\ link = "aborted" /\ GiveUp("ConnectionError")
    BY DEF ReadRaises
<1>3. owed = <<>>
    BY <1>1, <1>2, EofIs
<1> QED
    BY <1>1, <1>2, <1>3, GiveUpMaps DEF Link!ReadRaises

(***************************************************************************)
(* The device of DeviceLink is the simulated device.                       *)
(***************************************************************************)
LEMMA SameDevice ==
    ASSUME NEW profile, NEW flts, NEW regs, NEW n, NEW req
    PROVE  Link!HandleFrame(profile, flts, regs, n, req) = HandleFrame(profile, flts, regs, n, req)
<1>1. \A kind : /\ Link!HasFault(flts, kind) = HasFault(flts, kind)
                /\ Link!Fault(flts, kind) = Fault(flts, kind)
    BY DEF Link!HasFault, HasFault, Link!Fault, Fault
<1>2. Link!ShouldDrop(flts, n) = ShouldDrop(flts, n)
    BY <1>1 DEF Link!ShouldDrop, ShouldDrop
<1>3. Link!Refusal(profile, regs, req) = Refusal(profile, regs, req)
    BY DEF Link!Refusal, Refusal, Link!Span, Span, Link!Bank, Bank, Link!ReadCodes, ReadCodes,
           Link!WriteCodes, WriteCodes
<1>4. \A a : Link!IsStuck(flts, a) = IsStuck(flts, a)
    BY <1>1 DEF Link!IsStuck, IsStuck, Link!Hits, Hits
<1>5. \A a, v : Link!ReadDrift(flts, n, a, v) = ReadDrift(flts, n, a, v)
    BY <1>1 DEF Link!ReadDrift, ReadDrift, Link!Hits, Hits
<1>6. Link!ReadOut(profile, flts, regs, n, req) = ReadOut(profile, flts, regs, n, req)
    BY <1>5 DEF Link!ReadOut, ReadOut, Link!Bank, Bank
<1>7. Link!Written(flts, regs, req) = Written(flts, regs, req)
    BY <1>4 DEF Link!Written, Written, Link!Span, Span, Link!WrittenWord, WrittenWord
<1> QED
    BY <1>2, <1>3, <1>6, <1>7, SameCodes
       DEF Link!HandleFrame, HandleFrame, Link!NoReply, NoReply, Link!Reply, Reply,
           Link!Exception, Exception, Link!ReadReply, ReadReply, Link!Raises, Raises,
           Link!Echo, Echo

\* What it makes of the request asked first, and what becomes of the reply.
LEMMA Serves ==
    ASSUME IInv, asked # <<>>, NEW out,
           out = HandleFrame(Profile, faults, holding, count + 1, Head(asked).req), out.reply \in ReplyType
    PROVE  /\ Link!Handled("client") = out /\ Link!Delay("client") = 0
           /\ Link!Unwrappable(Link!Response("client")) <=> Unanswered(out.reply)
           /\ Link!WrapResponse(Link!Response("client")) = Owed(out.reply)
<1>1. Link!Handled("client") = out
    BY SameDevice DEF Link!Handled
<1>2. ~HasFault(faults, "delay")
    BY SettledIs DEF IInv
<1>3. \A kind : Link!HasFault(faults, kind) <=> HasFault(faults, kind)
    BY DEF Link!HasFault, HasFault
<1>4. Link!Delay("client") = 0
    BY <1>2, <1>3 DEF Link!Delay, Link!DelayOf
<1>5. PICK reply : reply = CorruptCrc(faults, out.reply)
    OBVIOUS
<1>6. Link!Response("client") = reply
    BY <1>1, <1>3, <1>5 DEF Link!Response, Link!CorruptCrc, CorruptCrc
<1>7. reply.kind = out.reply.kind /\ reply.crcOk = ~HasFault(faults, "crc_corrupt")
    BY <1>5 DEF CorruptCrc, ReplyType
<1>8. Link!Unwrappable(reply) <=> Unanswered(out.reply)
    BY <1>7 DEF Link!Unwrappable, Unanswered, Tcp
<1>9. Link!WrapResponse(reply) = Owed(out.reply)
    BY <1>5 DEF Link!WrapResponse, Owed, Tcp
<1> QED
    BY <1>1, <1>4, <1>6, <1>8, <1>9

LEMMA AnswerMaps ==
    ASSUME IInv, Answer
    PROVE  Link!Answer("client")
<1>1. PICK w : w = Message(up)
    OBVIOUS
<1>2. PICK out : out = HandleFrame(Profile, faults, holding, count + 1, asked[1].req)
    OBVIOUS
<1>3. handler = "reading" /\ HasMessage(up) /\ ~Ends(w) /\ UpdateDevice(w)
    BY <1>1 DEF Answer
<1>4. /\ asked # <<>> /\ Head(asked) = asked[1]
      /\ Handled(w) = out /\ out.reply \in ReplyType /\ ~Unanswered(out.reply)
    BY <1>1, <1>2, <1>3, ServerReads
<1>5. /\ Link!Handled("client") = out /\ Link!Delay("client") = 0
      /\ ~Link!Unwrappable(Link!Response("client"))
      /\ Link!WrapResponse(Link!Response("client")) = Owed(out.reply)
    BY <1>2, <1>4, Serves
<1>6. holding' = out.holding /\ count' = count + 1
    BY <1>3, <1>4 DEF UpdateDevice
<1>7. /\ asked' = Tail(asked)
      /\ UNCHANGED <<config, link, handler, call, result, sent, got, lost, garbled, misread>>
    BY DEF Answer
<1>8. owed' = IF link = "open" THEN Append(owed, [id |-> Head(asked).id, reply |-> Owed(out.reply)])
              ELSE owed
    BY <1>1, <1>4 DEF Answer, Owed
<1>9. Link!Ready("client")
    BY <1>3, <1>4, <1>5 DEF Link!Ready
<1>10. Link!UpdateDevice("client")
    BY <1>5, <1>6 DEF Link!UpdateDevice
<1> QED
    BY <1>3, <1>5, <1>7, <1>8, <1>9, <1>10 DEF Link!Answer, Link!config, Link!counts, config

LEMMA HangMaps ==
    ASSUME IInv, Hang
    PROVE  Link!Hang("client")
<1>1. PICK w : w = Message(up)
    OBVIOUS
<1>2. PICK out : out = HandleFrame(Profile, faults, holding, count + 1, asked[1].req)
    OBVIOUS
<1>3. handler = "reading" /\ HasMessage(up) /\ Ends(w)
    BY <1>1 DEF Hang
<1>4. /\ asked # <<>> /\ Head(asked) = asked[1] /\ Parses(w)
      /\ Handled(w) = out /\ out.reply \in ReplyType /\ Unanswered(out.reply)
    BY <1>1, <1>2, <1>3, ServerReads
<1>5. /\ Link!Handled("client") = out /\ Link!Delay("client") = 0
      /\ Link!Unwrappable(Link!Response("client"))
    BY <1>2, <1>4, Serves
<1>6. holding' = out.holding /\ count' = count + 1
    BY <1>1, <1>4 DEF Hang, UpdateDevice
<1>7. /\ asked' = <<>> /\ handler' = "done"
      /\ link' \in (IF link = "left" THEN {"left"}
                    ELSE IF Len(asked) = 1 THEN {"closed"} ELSE {"closed", "aborted"})
      /\ UNCHANGED <<config, down, call, result, sent, got, lost, owed, garbled, misread>>
    BY DEF Hang
<1>8. Link!Ready("client")
    BY <1>3, <1>4, <1>5 DEF Link!Ready
<1>9. Link!UpdateDevice("client")
    BY <1>5, <1>6 DEF Link!UpdateDevice
<1> QED
    BY <1>5, <1>7, <1>8, <1>9 DEF Link!Hang, Link!config, Link!counts, config

LEMMA EndOfRequestsMaps ==
    ASSUME EndOfRequests
    PROVE  Link!EndOfRequests("client")
<1>1. [c \in {"client"} |-> [pc |-> handler', timer |-> 0]]
        = [[c \in {"client"} |-> [pc |-> handler, timer |-> 0]] EXCEPT !["client"].pc = "done"]
    BY DEF EndOfRequests
<1> QED
    BY <1>1 DEF EndOfRequests, Link!EndOfRequests, Link!config, Link!device, Link!counts, config, device

LEMMA InitMaps ==
    ASSUME Init
    PROVE  Link!Init
<1>1. PICK s \in Setups : framing = s.framing /\ faults = s.faults
    BY DEF Init
<1>2. PICK t : t = [framing |-> s.framing, faults |-> [d \in {"device"} |-> s.faults]]
    OBVIOUS
<1>3. /\ t \in {[framing |-> s0.framing, faults |-> [d \in {"device"} |-> s0.faults]] : s0 \in Setups}
      /\ framing = t.framing /\ [d \in {"device"} |-> faults] = t.faults
    BY <1>1, <1>2
<1>4. Link!Frame(0, "-", 0, 0) = Frame(0, "-", 0, 0)
    BY DEF Link!Frame, Frame
<1>5. call.waiting = FALSE /\ call.req = Frame(0, "-", 0, 0)
    BY DEF Init
<1> QED
    BY <1>3, <1>4, <1>5, SameResults DEF Init, Link!Init

\* In step, and when nothing was misread, every step is one of DeviceLink or of none of its parts.
LEMMA StepMaps ==
    ASSUME IInv, [Next]_vars, ~garbled', ~misread'
    PROVE  [Link!Next]_(Link!vars)
<1>1. CASE UpMoves \/ DownMoves \/ UNCHANGED vars
    <2>1. UNCHANGED <<framing, faults, holding, count, link, asked, owed, handler, call, result, sent, got, lost>>
        BY <1>1 DEF UpMoves, DownMoves, vars, config, device, ghosts
    <2> QED
        BY <2>1 DEF Link!vars, Link!config, Link!device, Link!counts
<1>2. CASE Connect \/ Close
    BY <1>2, ConnectMaps, CloseMaps DEF Link!Next
<1>3. CASE ClientReturns
    <2>1. Link!ClientReturns("client")
        BY <1>3, ReceiveMaps, ExpireMaps, EofMaps, ReadRaisesMaps, NoValueError DEF ClientReturns, Link!ClientReturns
    <2> QED
        BY <2>1 DEF Link!Next, Link!Network
<1>4. CASE Answer \/ Hang \/ EndOfRequests
    <2>1. Link!ServerStep("client")
        BY <1>4, AnswerMaps, HangMaps, EndOfRequestsMaps DEF Link!ServerStep
    <2> QED
        BY <2>1 DEF Link!Next, Link!Network
<1>5. CASE \E req \in Requests[framing] : Refuse(req) \/ Send(req)
    <2>1. PICK req \in Requests[framing] : Refuse(req) \/ Send(req)
        BY <1>5
    <2>2. req \in UNION {Requests[f] : f \in DOMAIN Requests}
        BY IsIssued DEF IInv
    <2>3. Link!Refuse("client", req) \/ Link!Send("client", req)
        BY <2>1, RefuseMaps, SendMaps
    <2> QED
        BY <2>2, <2>3 DEF Link!Next
<1> QED
    BY <1>1, <1>2, <1>3, <1>4, <1>5 DEF Next

(***************************************************************************)
(* Byte by byte, client and server do what DeviceLink says they do, until  *)
(* a timeout comes between the two reads of a reply, and but for calls     *)
(* that take a late echo for registers read (server.py:28-45,              *)
(* client.py:85-127, framing.py, codec.py:83-98).                          *)
(***************************************************************************)
THEOREM BytesCarryTheLink == Spec => CarriesDeviceLink
<1>1. Init => Link!Init
    BY InitMaps
<1>2. IInv /\ [Next]_vars => [garbled' \/ misread' \/ [Link!Next]_(Link!vars)]_vars
    BY StepMaps
<1> QED
    BY <1>1, <1>2, StaysInStep, PTL DEF Spec, CarriesDeviceLink

=============================================================================
