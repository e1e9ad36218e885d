-------------------------- MODULE Em300DeviceProofs --------------------------
(***************************************************************************)
(* Proofs about Em300Device, for any register map, any plan that keeps     *)
(* registers whole, any even word base and whatever the meter measures.    *)
(***************************************************************************)
EXTENDS Em300Device, SequenceTheorems, TLAPS

(* Arithmetic of words.                                                    *)

\* Division with remainder.
LEMMA DivMod ==
    ASSUME NEW n \in Int, NEW d \in Nat \ {0}
    PROVE  /\ n \div d \in Int /\ n % d \in 0 .. d - 1
           /\ n = d * (n \div d) + (n % d)
  OBVIOUS

\* A multiple of a positive number is as large.
LEMMA Multiple ==
    ASSUME NEW d \in Nat \ {0}, NEW j \in Int
    PROVE  /\ j >= 1 => d * j >= d
           /\ j <= -1 => d * j <= -d
  OBVIOUS

\* Quotient and remainder are determined by their range.
LEMMA DivModUnique ==
    ASSUME NEW n \in Int, NEW d \in Nat \ {0}, NEW k \in Int, NEW m \in 0 .. d - 1,
           n = d * k + m
    PROVE  n \div d = k /\ n % d = m
<1> DEFINE j == (n \div d) - k
<1>1. d * j = m - (n % d) /\ j \in Int
  BY DivMod
<1>2. m - (n % d) < d /\ m - (n % d) > -d
  BY DivMod
<1>3. j < 1 /\ j > -1
  <2> HIDE DEF j
  <2> QED BY <1>1, <1>2, Multiple
<1>4. j = 0
  <2> HIDE DEF j
  <2> QED BY <1>1, <1>3
<1>5. n \div d = k
  BY <1>4, DivMod
<1>6. m - (n % d) = 0
  <2>1. d * 0 = 0
    OBVIOUS
  <2> HIDE DEF j
  <2> QED
    BY <1>1, <1>4, <2>1
<1> QED
  BY <1>5, <1>6, DivMod

\* to_signed (utils.py:34-37): the upper half of the range is negative.
LEMMA ToSignedValue ==
    ASSUME NEW s \in Nat \ {0}, NEW v \in 0 .. 2 * s - 1
    PROVE  (v % s) - ((v \div s) % 2) * s = IF v < s THEN v ELSE v - 2 * s
<1>1. CASE v < s
  <2>1. v \div s = 0 /\ v % s = v
    BY <1>1, DivModUnique, v = s * 0 + v
  <2> QED
    BY <1>1, <2>1
<1>2. CASE v >= s
  <2>1. v \div s = 1 /\ v % s = v - s
    BY <1>2, DivModUnique, v = s * 1 + (v - s)
  <2> QED
    BY <1>2, <2>1
<1> QED
  BY <1>1, <1>2

\* A number that fits a word, and one that is negative in it.
LEMMA OneWord ==
    ASSUME NEW w \in Nat \ {0}, NEW q \in Int
    PROVE  /\ q \in 0 .. w - 1 => q % w = q
           /\ q \in -w .. -1 => q % w = q + w
<1>1. CASE q \in 0 .. w - 1
  BY <1>1, DivModUnique, q = w * 0 + q
<1>2. CASE q \in -w .. -1
  BY <1>2, DivModUnique, q = w * (-1) + (q + w)
<1> QED
  BY <1>1, <1>2

\* A number put together from two words, least significant first
\* (utils.py:76-81).
LEMMA TwoWords ==
    ASSUME NEW w \in Nat \ {0}, NEW q \in Int
    PROVE  /\ q \in 0 .. w * w - 1 => (q % w) + ((q \div w) % w) * w = q
           /\ q \in -(w * w) .. -1 => (q % w) + ((q \div w) % w) * w = q + w * w
<1> DEFINE d == q \div w
<1>1. d \in Int /\ q % w \in 0 .. w - 1 /\ q = w * d + (q % w)
  BY DivMod
<1> HIDE DEF d
<1>2. CASE q \in 0 .. w * w - 1
  <2>1. d \in 0 .. w - 1
    <3>1. d >= 0
      BY <1>1, <1>2, Multiple
    <3>2. d <= w - 1
      <4>1. d >= w => w * d >= w * w
        BY <1>1
      <4> QED
        BY <1>1, <1>2, <4>1
    <3> QED
      BY <1>1, <3>1, <3>2
  <2>2. d % w = d
    BY <1>1, <2>1, OneWord
  <2> QED
    BY <1>1, <2>1, <2>2 DEF d
<1>3. CASE q \in -(w * w) .. -1
  <2>1. d \in -w .. -1
    <3>1. d <= -1
      BY <1>1, <1>3, Multiple
    <3>2. d >= -w
      <4>1. d <= -w - 1 => w * d <= w * (-w - 1)
        BY <1>1
      <4>2. w * (-w - 1) = -(w * w) - w
        OBVIOUS
      <4> QED
        BY <1>1, <1>3, <4>1, <4>2
    <3> QED
      BY <1>1, <3>1, <3>2
  <2>2. d % w = d + w
    BY <1>1, <2>1, OneWord
  <2>3. (d + w) * w = w * d + w * w
    BY <1>1
  <2> QED
    BY <1>1, <1>3, <2>2, <2>3 DEF d
<1> QED
  BY <1>2, <1>3

---------------------------------------------------------------------------
(* Words and registers.                                                    *)

\* What DeviceAssumption says of the word base and of a register.
LEMMA MapFacts ==
    /\ WordBase \in Nat \ {0} /\ WordBase \div 2 \in Nat \ {0}
    /\ 2 * (WordBase \div 2) = WordBase
    /\ \A r \in Registers : r.address \in Nat /\ r.length \in {1, 2} /\ r.signed \in BOOLEAN
    /\ \A r, s \in Registers : r # s => Addresses(r) \cap Addresses(s) = {}
    /\ \A r \in Registers : Quantities[r] \subseteq InRange(r)
<1>1. WordBase \in Nat \ {0} /\ WordBase % 2 = 0
  BY DeviceAssumption
<1>2. WordBase \div 2 \in Nat \ {0} /\ 2 * (WordBase \div 2) = WordBase
  BY <1>1
<1>3. Registers \subseteq [address : Nat, length : {1, 2}, signed : BOOLEAN,
                           series : SUBSET Series]
  BY DeviceAssumption
<1>4. \A r \in Registers : r.address \in Nat /\ r.length \in {1, 2} /\ r.signed \in BOOLEAN
  BY <1>3
<1> QED
  BY <1>1, <1>2, <1>4, DeviceAssumption

\* The plan of a register set (batch.py:70-82).
LEMMA PlanFacts ==
    ASSUME NEW rs \in DOMAIN PlanOf
    PROVE  /\ Len(PlanOf[rs]) \in Nat \ {0} /\ DOMAIN PlanOf[rs] = 1 .. Len(PlanOf[rs])
           /\ KeepsWhole(PlanOf[rs], rs) /\ rs \subseteq Registers
           /\ \A i \in 1 .. Len(PlanOf[rs]) : PlanOf[rs][i] # {CodeAddress}
<1>1. PlanOf[rs] \in Seq(SUBSET Nat) /\ PlanOf[rs] # <<>>
  BY DeviceAssumption
<1>2. Len(PlanOf[rs]) \in Nat \ {0} /\ DOMAIN PlanOf[rs] = 1 .. Len(PlanOf[rs])
  BY <1>1, EmptySeq, LenProperties
<1>3. rs \in {Narrowed(s) : s \in Series \cup {NoSeries}}
  BY DeviceAssumption
<1>4. rs \subseteq Registers
  BY <1>3 DEF Narrowed
<1> QED
  BY <1>2, <1>4, DeviceAssumption

\* The bit of the sign is half of the range.
LEMMA SignBits ==
    /\ SignBit(1) = WordBase \div 2 /\ 2 * SignBit(1) = WordBase
    /\ SignBit(2) \in Nat \ {0} /\ 2 * SignBit(2) = WordBase * WordBase
<1> DEFINE h == WordBase \div 2
<1>1. h \in Nat \ {0} /\ WordBase = 2 * h /\ WordBase \in Nat \ {0}
  BY MapFacts
<1>2. SignBit(1) = h
  BY DEF SignBit
<1>3. SignBit(2) = (WordBase * WordBase) \div 2
  BY DEF SignBit
<1> HIDE DEF h
<1>4. WordBase * WordBase = 2 * (h * WordBase) + 0 /\ h * WordBase \in Nat \ {0}
  BY <1>1
<1>5. (WordBase * WordBase) \div 2 = h * WordBase
  BY <1>1, <1>4, DivModUnique
<1> QED
  BY <1>1, <1>2, <1>3, <1>4, <1>5 DEF h

\* Two's complement of the right width gives back what the meter measured
\* (utils.py:34-37, 56-92).
THEOREM DecodingInvertsEncoding ==
    ASSUME NEW r \in Registers, NEW q \in InRange(r), NEW ws,
           \A a \in Addresses(r) : ws[a] = WireWord(q, a - r.address)
    PROVE  DecodeRegister(r, ws) = q
<1> DEFINE s == SignBit(r.length)
<1>a. WordBase \in Nat \ {0} /\ r.address \in Nat /\ r.length \in {1, 2}
      /\ r.signed \in BOOLEAN
  BY MapFacts
<1>b. s \in Nat \ {0}
  BY <1>a, SignBits
<1>c. /\ q \in Int
      /\ r.signed => q \in -s .. s - 1
      /\ ~r.signed => q \in 0 .. 2 * s - 1
  BY <1>b DEF InRange
<1>d. 2 * s = IF r.length = 1 THEN WordBase ELSE WordBase * WordBase
  BY <1>a, SignBits
<1> HIDE DEF s
<1>e. /\ q < 0 => q \in -(2 * s) .. -1
      /\ q >= 0 => q \in 0 .. 2 * s - 1
  <2>1. CASE r.signed
    BY <1>b, <1>c, <2>1
  <2>2. CASE ~r.signed
    BY <1>b, <1>c, <2>2
  <2> QED
    BY <2>1, <2>2
<1>1. Assemble(r, ws) = IF q < 0 THEN q + 2 * s ELSE q
  <2>1. CASE r.length = 1
    <3>1. ws[r.address] = q % WordBase
      <4>1. r.address \in Addresses(r) /\ r.address - r.address = 0
        BY <1>a, <2>1 DEF Addresses
      <4> QED
        BY <4>1 DEF WireWord
    <3>2. Assemble(r, ws) = q % WordBase
      BY <2>1, <3>1 DEF Assemble
    <3> QED
      <4>1. 2 * s = WordBase
        BY <1>d, <2>1
      <4> QED
        BY <1>a, <1>c, <1>e, <3>2, <4>1, OneWord
  <2>2. CASE r.length = 2
    <3>1. ws[r.address] = q % WordBase
      <4>1. r.address \in Addresses(r) /\ r.address - r.address = 0
        BY <1>a, <2>2 DEF Addresses
      <4> QED
        BY <4>1 DEF WireWord
    <3>2. ws[r.address + 1] = (q \div WordBase) % WordBase
      <4>1. r.address + 1 \in Addresses(r) /\ (r.address + 1) - r.address = 1
        BY <1>a, <2>2 DEF Addresses
      <4> QED
        BY <4>1 DEF WireWord
    <3>3. Assemble(r, ws) = (q % WordBase) + ((q \div WordBase) % WordBase) * WordBase
      BY <2>2, <3>1, <3>2 DEF Assemble
    <3>4. 2 * s = WordBase * WordBase
      BY <1>d, <2>2
    <3> QED
      <4>1. /\ q < 0 => q \in -(WordBase * WordBase) .. -1
            /\ q >= 0 => q \in 0 .. WordBase * WordBase - 1
        BY <1>e, <3>4
      <4>2. /\ q < 0 => Assemble(r, ws) = q + WordBase * WordBase
            /\ q >= 0 => Assemble(r, ws) = q
        <5> HIDE DEF s
        <5> QED
          BY <1>a, <1>c, <3>3, <4>1, TwoWords
      <4> QED
        BY <1>c, <3>4, <4>2
  <2> QED
    BY <1>a, <2>1, <2>2
<1>2. CASE ~r.signed
  BY <1>1, <1>b, <1>c, <1>2 DEF DecodeRegister
<1>3. CASE r.signed
  <2>1. DecodeRegister(r, ws) = ToSigned(Assemble(r, ws), s)
    BY <1>3 DEF DecodeRegister, SignBitOf, s
  <2>2. Assemble(r, ws) \in 0 .. 2 * s - 1
    BY <1>1, <1>b, <1>c, <1>3
  <2>3. ToSigned(Assemble(r, ws), s)
          = IF Assemble(r, ws) < s THEN Assemble(r, ws) ELSE Assemble(r, ws) - 2 * s
    BY <1>b, <2>2, ToSignedValue DEF ToSigned
  <2> QED
    BY <1>1, <1>b, <1>c, <1>3, <2>1, <2>3
<1> QED
  BY <1>a, <1>2, <1>3

---------------------------------------------------------------------------
(* What a request returns.                                                 *)

\* The words of a register that is read as part of a request are those of its
\* quantity (register_map.py:155-157).
LEMMA SampleOfRegister ==
    ASSUME NEW r \in Registers, NEW read, read # {CodeAddress}, Addresses(r) \subseteq read
    PROVE  \A a \in Addresses(r) :
              a \in DOMAIN Sample(read) /\ Sample(read)[a] = WireWord(quantity[r], a - r.address)
<1> TAKE a \in Addresses(r)
<1>1. RegisterAt(a) = r
  BY MapFacts DEF RegisterAt
<1> QED
  BY <1>1 DEF Sample

\* What is read is words.
LEMMA SampleType ==
    ASSUME TypeOK, NEW rs \in SUBSET Registers, NEW read,
           read \subseteq UNION {Addresses(r) : r \in rs}, read # {CodeAddress}
    PROVE  \A a \in read : Sample(read)[a] \in 0 .. WordBase - 1
<1> TAKE a \in read
<1>1. PICK r \in Registers : a \in Addresses(r)
  OBVIOUS
<1>2. RegisterAt(a) = r
  BY <1>1, MapFacts DEF RegisterAt
<1>3. quantity[r] \in Int
  <2>1. quantity[r] \in InRange(r)
    BY MapFacts DEF TypeOK
  <2>2. SignBit(r.length) \in Nat
    BY MapFacts, SignBits
  <2> QED
    BY <2>1, <2>2, MapFacts DEF InRange
<1>4. quantity[r] \div WordBase \in Int
  BY <1>3, MapFacts, DivMod
<1>5. \A n \in Int : n % WordBase \in 0 .. WordBase - 1
  BY MapFacts
<1>6. WireWord(quantity[r], a - r.address) \in 0 .. WordBase - 1
  BY <1>3, <1>4, <1>5 DEF WireWord
<1> QED
  BY <1>2, <1>6 DEF Sample

\* The words a poll has with those of the request it is at.
With == Merged(words, Sample(PlanOf[registers][next]))

\* Each request of a poll adds registers whole and leaves those it has alone
\* (client.py:105-110).
LEMMA ReadsWhole ==
    ASSUME TypeOK, WindowInv, pc = "poll", NEW r \in registers, NEW i \in 1 .. next,
           Addresses(r) \subseteq PlanOf[registers][i]
    PROVE  \E q \in window[r] : \A a \in Addresses(r) :
              a \in DOMAIN With /\ With[a] = WireWord(q, a - r.address)
<1>1. /\ registers \in DOMAIN PlanOf /\ next \in 1 .. Len(PlanOf[registers])
      /\ r \in Registers
  BY PlanFacts DEF TypeOK
<1>2. /\ i \in 1 .. Len(PlanOf[registers]) /\ Len(PlanOf[registers]) \in Nat
      /\ \A j \in 1 .. Len(PlanOf[registers]) : PlanOf[registers][j] # {CodeAddress}
      /\ i # next => PlanOf[registers][i] \cap PlanOf[registers][next] = {}
  BY <1>1, PlanFacts DEF KeepsWhole
<1>3. DOMAIN Sample(PlanOf[registers][next]) = PlanOf[registers][next]
  BY DEF Sample
<1>4. CASE i = next
  <2>1. \A a \in Addresses(r) : /\ a \in DOMAIN Sample(PlanOf[registers][next])
                                /\ Sample(PlanOf[registers][next])[a]
                                     = WireWord(quantity[r], a - r.address)
    BY <1>1, <1>2, <1>4, SampleOfRegister
  <2>2. quantity[r] \in window[r]
    BY <1>1 DEF WindowInv
  <2> QED
    BY <2>1, <2>2 DEF With, Merged
<1>5. CASE i # next
  <2>1. i \in 1 .. next - 1
    BY <1>1, <1>2, <1>5
  <2>2. PICK q \in window[r] : \A a \in Addresses(r) :
                    a \in DOMAIN words /\ words[a] = WireWord(q, a - r.address)
    BY <2>1 DEF WindowInv
  <2>3. \A a \in Addresses(r) : a \notin PlanOf[registers][next]
    BY <1>2, <1>5
  <2> QED
    BY <1>3, <2>2, <2>3 DEF With, Merged
<1> QED
  BY <1>4, <1>5

\* The last request of a poll leads to a value of the poll for each register
\* (device.py:166-169).
LEMMA PollIsTrue ==
    ASSUME TypeOK, WindowInv, ReadLast
    PROVE  DOMAIN data' = registers /\ \A r \in registers : data'[r] \in window[r]
<1>1. /\ registers \in DOMAIN PlanOf /\ registers \subseteq Registers
      /\ next = Len(PlanOf[registers]) /\ next \in Nat \ {0}
      /\ KeepsWhole(PlanOf[registers], registers)
      /\ DOMAIN PlanOf[registers] = 1 .. next
  BY PlanFacts DEF TypeOK, ReadLast, IsLast
<1>2. data' = DecodeRegisters(registers, With) /\ pc = "poll"
  BY DEF ReadLast, With
<1>3. ASSUME NEW r \in registers
      PROVE  /\ Addresses(r) \subseteq DOMAIN With
             /\ DecodeRegister(r, With) \in window[r]
  <2>1. PICK i \in 1 .. next : Addresses(r) \subseteq PlanOf[registers][i]
    BY <1>1 DEF KeepsWhole
  <2>2. PICK q \in window[r] : \A a \in Addresses(r) :
              a \in DOMAIN With /\ With[a] = WireWord(q, a - r.address)
    BY <1>2, <2>1, ReadsWhole
  <2>3. q \in InRange(r) /\ r \in Registers
    BY <1>1, MapFacts DEF TypeOK
  <2> QED
    BY <2>2, <2>3, DecodingInvertsEncoding
<1> QED
  BY <1>2, <1>3 DEF DecodeRegisters

---------------------------------------------------------------------------
(* The invariant.                                                          *)

DeviceInv == TypeOK /\ IdentityInv /\ WindowInv

\* Narrowing leaves a register set there is a plan for (device.py:107-110).
LEMMA NarrowedHasPlan ==
    ASSUME NEW s \in Series \cup {NoSeries}
    PROVE  Narrowed(s) \in DOMAIN PlanOf /\ 1 \in 1 .. Len(PlanOf[Narrowed(s)])
<1>1. DOMAIN PlanOf = {Narrowed(x) : x \in Series \cup {NoSeries}}
  BY DeviceAssumption
<1>2. Narrowed(s) \in DOMAIN PlanOf
  BY <1>1
<1> QED
  BY <1>2, PlanFacts

\* Each step keeps the types, the identity and the window of a poll.
LEMMA DeviceStep ==
    ASSUME DeviceInv, [Next]_vars
    PROVE  DeviceInv'
<1> USE DEF DeviceInv
<1>a. /\ registers \in DOMAIN PlanOf /\ registers \subseteq Registers
      /\ next \in 1 .. Len(PlanOf[registers]) /\ Len(PlanOf[registers]) \in Nat \ {0}
      /\ KeepsWhole(PlanOf[registers], registers)
      /\ \A i \in 1 .. Len(PlanOf[registers]) :
            i \in DOMAIN PlanOf[registers] /\ PlanOf[registers][i] # {CodeAddress}
  BY PlanFacts DEF TypeOK
<1>b. <<>> \in [DOMAIN <<>> -> 0 .. WordBase - 1]
  OBVIOUS
<1>1. ASSUME NEW r \in Registers, Measure(r)
      PROVE  DeviceInv'
  <2>1. PICK q \in Quantities[r] :
          /\ quantity' = [quantity EXCEPT ![r] = q]
          /\ window' = [window EXCEPT ![r] = IF pc = "poll" THEN window[r] \cup {q}
                                             ELSE window[r]]
    BY <1>1 DEF Measure
  <2>2. /\ UNCHANGED <<pc, remembered, series, registers, next, words, data, current>>
    BY <1>1 DEF Measure, identity
  <2>3. q \in Measurable
    BY DEF Measurable
  <2>4. TypeOK'
    <3>1. quantity' \in [Registers -> Measurable] /\ \A s \in Registers : quantity'[s] \in Quantities[s]
      BY <2>1, <2>3 DEF TypeOK
    <3>2. /\ window' \in [Registers -> SUBSET Measurable]
          /\ \A s \in Registers : window'[s] \subseteq Quantities[s]
      BY <2>1, <2>3 DEF TypeOK
    <3> QED
      BY <2>2, <3>1, <3>2 DEF TypeOK
  <2>5. IdentityInv'
    BY <2>2 DEF IdentityInv
  <2>6. WindowInv'
    <3> SUFFICES ASSUME pc = "poll"
                 PROVE  /\ \A s \in Registers : quantity'[s] \in window'[s]
                        /\ \A s \in registers, i \in 1 .. next - 1 :
                              Addresses(s) \subseteq PlanOf[registers][i] =>
                                 \E v \in window'[s] : \A a \in Addresses(s) :
                                    a \in DOMAIN words /\ words[a] = WireWord(v, a - s.address)
      BY <2>2 DEF WindowInv
    <3>1. \A s \in Registers : quantity'[s] \in window'[s]
      BY <2>1 DEF WindowInv, TypeOK
    <3>2. \A s \in Registers : window[s] \subseteq window'[s]
      BY <2>1 DEF TypeOK
    <3> QED
      BY <1>a, <3>1, <3>2 DEF WindowInv
  <2> QED
    BY <2>4, <2>5, <2>6
<1>2. CASE Identify
  BY <1>2 DEF Identify, TypeOK, IdentityInv, WindowInv, Stages, meter, identity
<1>3. CASE ReadCode
  <2>1. Sample(CodeRead)[CodeAddress] = IdentificationCode
    BY DEF Sample, CodeRead
  <2>2. SeriesForCode[IdentificationCode] \in Series \cup {NoSeries}
    BY DeviceAssumption
  <2>3. PICK found \in {NoSeries, SeriesForCode[IdentificationCode]} :
          series' = IF found = NoSeries THEN remembered ELSE found
    BY <1>3, <2>1 DEF ReadCode
  <2>4. /\ series' \in {remembered, SeriesForCode[IdentificationCode]}
        /\ series' \in Series \cup {NoSeries}
    BY <2>2, <2>3 DEF TypeOK
  <2> QED
    BY <1>3, <2>4 DEF ReadCode, TypeOK, IdentityInv, WindowInv, Stages, meter
<1>4. CASE ReadSerialNumber
  BY <1>4 DEF ReadSerialNumber, TypeOK, IdentityInv, WindowInv, Stages, meter, identity
<1>5. CASE ReadFirmware
  <2>1. registers' \in DOMAIN PlanOf /\ 1 \in 1 .. Len(PlanOf[registers'])
    BY <1>5, NarrowedHasPlan DEF ReadFirmware, TypeOK
  <2>2. next = 1 /\ next' = next
    BY <1>5 DEF ReadFirmware, IdentityInv
  <2> QED
    BY <1>5, <2>1, <2>2 DEF ReadFirmware, TypeOK, IdentityInv, WindowInv, Stages, meter
<1>6. CASE PollStart
  <2>1. /\ window' = [r \in Registers |-> {quantity[r]}] /\ next' = 1 /\ words' = <<>>
        /\ UNCHANGED <<quantity, remembered, series, registers, data, current>>
        /\ pc = "ready" /\ pc' = "poll"
    BY <1>6 DEF PollStart, identity
  <2>2. TypeOK'
    <3>1. /\ window' \in [Registers -> SUBSET Measurable]
          /\ \A s \in Registers : window'[s] \subseteq Quantities[s]
      BY <2>1 DEF TypeOK
    <3>2. next' \in 1 .. Len(PlanOf[registers'])
      BY <1>a, <2>1
    <3> QED
      BY <1>b, <2>1, <3>1, <3>2 DEF TypeOK, Stages
  <2>3. IdentityInv'
    BY <2>1 DEF IdentityInv
  <2>4. WindowInv'
    <3>1. 1 .. next' - 1 = {}
      BY <2>1
    <3> QED
      BY <2>1, <3>1 DEF WindowInv
  <2> QED
    BY <2>2, <2>3, <2>4
<1>7. CASE ReadNext
  <2>1. /\ words' = With /\ next' = next + 1 /\ pc = "poll"
        /\ UNCHANGED <<quantity, window, pc, remembered, series, registers, data, current>>
        /\ next # Len(PlanOf[registers])
    BY <1>7 DEF ReadNext, With, meter, identity, IsLast
  <2>2. next' \in 1 .. Len(PlanOf[registers]) /\ next' - 1 = next
    BY <1>a, <2>1
  <2>3. With \in [DOMAIN With -> 0 .. WordBase - 1]
    <3>1. \A a \in PlanOf[registers][next] :
            Sample(PlanOf[registers][next])[a] \in 0 .. WordBase - 1
      BY <1>a, SampleType DEF KeepsWhole
    <3>2. \A a \in DOMAIN words : words[a] \in 0 .. WordBase - 1
      BY DEF TypeOK
    <3>3. DOMAIN Sample(PlanOf[registers][next]) = PlanOf[registers][next]
      BY DEF Sample
    <3> QED
      BY <3>1, <3>2, <3>3 DEF With, Merged
  <2>4. TypeOK'
    BY <2>1, <2>2, <2>3 DEF TypeOK
  <2>5. IdentityInv'
    BY <2>1 DEF IdentityInv
  <2>6. WindowInv'
    <3>1. \A r \in registers, i \in 1 .. next :
            Addresses(r) \subseteq PlanOf[registers][i] =>
               \E q \in window[r] : \A a \in Addresses(r) :
                  a \in DOMAIN With /\ With[a] = WireWord(q, a - r.address)
      BY <2>1, ReadsWhole
    <3> QED
      BY <2>1, <2>2, <3>1 DEF WindowInv
  <2> QED
    BY <2>4, <2>5, <2>6
<1>8. CASE ReadLast
  <2>1. /\ DOMAIN data' = registers
        /\ \A r \in registers : data'[r] \in window[r]
    BY <1>8, PollIsTrue
  <2>2. \A r \in registers : data'[r] \in InRange(r)
    BY <1>a, <2>1, MapFacts DEF TypeOK
  <2>3. /\ current' = TRUE /\ pc' = "ready" /\ next' = 1 /\ words' = <<>> /\ pc = "poll"
        /\ UNCHANGED <<quantity, window, remembered, series, registers>>
    BY <1>8 DEF ReadLast, meter, identity
  <2>4. TypeOK'
    BY <1>a, <1>b, <2>1, <2>2, <2>3 DEF TypeOK, Stages
  <2> QED
    BY <2>3, <2>4 DEF IdentityInv, WindowInv
<1>9. CASE PollFails
  <2>1. /\ current' = FALSE /\ pc' = "ready" /\ next' = 1 /\ words' = <<>> /\ pc = "poll"
        /\ UNCHANGED <<quantity, window, remembered, series, registers, data>>
    BY <1>9 DEF PollFails, meter, identity
  <2>2. TypeOK'
    <3>1. next' \in 1 .. Len(PlanOf[registers']) /\ pc' \in Stages
      BY <1>a, <2>1 DEF Stages
    <3>2. words' \in [DOMAIN words' -> 0 .. WordBase - 1] /\ current' \in BOOLEAN
      BY <1>b, <2>1
    <3> QED
      BY <2>1, <3>1, <3>2 DEF TypeOK
  <2> QED
    BY <2>1, <2>2 DEF IdentityInv, WindowInv
<1>10. CASE UNCHANGED vars
  BY <1>10 DEF vars, meter, identity, TypeOK, IdentityInv, WindowInv
<1> QED
  BY <1>1, <1>2, <1>3, <1>4, <1>5, <1>6, <1>7, <1>8, <1>9, <1>10 DEF Next

\* The device's invariant.
THEOREM DeviceInvariant == Spec => []DeviceInv
<1>1. Init => DeviceInv
  <2> SUFFICES ASSUME Init
               PROVE  DeviceInv
    OBVIOUS
  <2>1. Narrowed(NoSeries) = Registers
    BY DEF Narrowed, SupportedBy
  <2>2. registers \in DOMAIN PlanOf /\ next \in 1 .. Len(PlanOf[registers])
    BY <2>1, NarrowedHasPlan DEF Init
  <2>3. <<>> \in [DOMAIN <<>> -> 0 .. WordBase - 1] /\ DOMAIN <<>> = {}
    OBVIOUS
  <2>4. window \in [Registers -> SUBSET Measurable] /\ \A r \in Registers : window[r] \subseteq Quantities[r]
    BY DEF Init
  <2>5. TypeOK
    BY <2>2, <2>3, <2>4 DEF Init, TypeOK, Stages
  <2> QED
    BY <2>5 DEF Init, DeviceInv, IdentityInv, WindowInv
<1>2. DeviceInv /\ [Next]_vars => DeviceInv'
  BY DeviceStep
<1> QED
  BY <1>1, <1>2, PTL DEF Spec

\* Type correctness of a device (device.py:54-169).
THEOREM DeviceTypes == Spec => []TypeOK
<1>1. DeviceInv => TypeOK
  BY DEF DeviceInv
<1> QED
  BY <1>1, DeviceInvariant, PTL

\* A device polls as the series its meter names or the one remembered
\* (device.py:87-90, 107-110).
THEOREM SeriesIsNamed == Spec => []SeriesIsTheMeters
<1>1. DeviceInv => SeriesIsTheMeters
  BY DEF DeviceInv, IdentityInv, SeriesIsTheMeters
<1> QED
  BY <1>1, DeviceInvariant, PTL

\* What a poll delivers was measured during the poll, for every plan that keeps
\* registers whole (device.py:166-169, utils.py:34-37, 56-92).
THEOREM PollsAreTrue == Spec => DataIsTrue
<1>1. DeviceInv /\ [Next]_vars =>
        [current' /\ pc = "poll" /\ pc' = "ready" =>
            \A r \in registers : r \in DOMAIN data' /\ data'[r] \in window[r]]_vars
  <2> SUFFICES ASSUME DeviceInv, Next, current', pc = "poll", pc' = "ready"
               PROVE  \A r \in registers : r \in DOMAIN data' /\ data'[r] \in window[r]
    OBVIOUS
  <2>1. ReadLast
    BY DEF Next, Measure, Identify, ReadCode, ReadSerialNumber, ReadFirmware,
           PollStart, ReadNext, PollFails
  <2> QED
    BY <2>1, PollIsTrue DEF DeviceInv
<1> QED
  BY <1>1, DeviceInvariant, PTL DEF Spec, DataIsTrue

\* Values of a totalizer stay behind the meter.
LEMMA TotalsStep ==
    ASSUME DeviceInv, TotalsInv, [Next]_vars
    PROVE  TotalsInv'
<1> USE DEF DeviceInv
<1>a. Totals \subseteq Registers /\ \A r \in Registers : SignBit(r.length) \in Nat
  BY DeviceAssumption, MapFacts, SignBits
<1>b. \A r \in Registers : InRange(r) \subseteq Int
  BY <1>a, MapFacts DEF InRange
<1>c. /\ \A r \in Registers : quantity[r] \in Int /\ window[r] \subseteq Int
      /\ \A r \in DOMAIN data : data[r] \in Int
  BY <1>b, MapFacts DEF TypeOK
<1> SUFFICES ASSUME NEW t \in Totals
             PROVE  /\ t \in DOMAIN data' => data'[t] <= quantity'[t]
                    /\ pc' = "poll" => \A q \in window'[t] :
                          q <= quantity'[t] /\ (t \in DOMAIN data' => data'[t] <= q)
  BY DEF TotalsInv
<1>d. /\ t \in Registers
      /\ t \in DOMAIN data => data[t] <= quantity[t]
      /\ pc = "poll" => \A q \in window[t] :
            q <= quantity[t] /\ (t \in DOMAIN data => data[t] <= q)
  BY <1>a DEF TotalsInv
<1>1. ASSUME NEW r \in Registers, Measure(r)
      PROVE  /\ t \in DOMAIN data' => data'[t] <= quantity'[t]
             /\ pc' = "poll" => \A q \in window'[t] :
                          q <= quantity'[t] /\ (t \in DOMAIN data' => data'[t] <= q)
  <2>1. data' = data /\ pc' = pc
    BY <1>1 DEF Measure
  <2>2. PICK q \in Quantities[r] :
          /\ r \in Totals => q = quantity[r] + 1
          /\ quantity' = [quantity EXCEPT ![r] = q]
          /\ window' = [window EXCEPT ![r] = IF pc = "poll" THEN window[r] \cup {q}
                                             ELSE window[r]]
    BY <1>1 DEF Measure
  <2>3. CASE t = r
    <3>1. q = quantity[t] + 1 /\ quantity'[t] = q
      BY <1>d, <2>2, <2>3 DEF TypeOK
    <3>2. window'[t] = IF pc = "poll" THEN window[t] \cup {q} ELSE window[t]
      BY <1>d, <2>2, <2>3 DEF TypeOK
    <3>3. t \in DOMAIN data => data[t] <= q
      BY <1>c, <1>d, <3>1
    <3>4. \A v \in window[t] : v <= quantity[t] => v <= q
      BY <1>c, <1>d, <3>1
    <3> QED
      BY <1>c, <1>d, <2>1, <3>1, <3>2, <3>3, <3>4
  <2>4. CASE t # r
    BY <1>d, <2>1, <2>2, <2>4 DEF TypeOK
  <2> QED
    BY <2>3, <2>4
<1>2. CASE PollStart
  <2>1. /\ data' = data /\ quantity' = quantity /\ window' = [r \in Registers |-> {quantity[r]}]
    BY <1>2 DEF PollStart
  <2> QED
    BY <1>c, <1>d, <2>1
<1>3. CASE ReadLast
  <2>1. /\ DOMAIN data' = registers /\ \A r \in registers : data'[r] \in window[r]
        /\ quantity' = quantity /\ pc = "poll" /\ pc' = "ready"
    BY <1>3, PollIsTrue DEF ReadLast, meter
  <2> QED
    BY <1>d, <2>1
<1>4. CASE PollFails \/ ReadNext \/ Identify \/ ReadCode \/ ReadSerialNumber
           \/ ReadFirmware \/ UNCHANGED vars
  <2>1. UNCHANGED <<data, quantity, window>> /\ (pc' = "poll" => pc = "poll")
    BY <1>4 DEF PollFails, ReadNext, Identify, ReadCode, ReadSerialNumber,
                ReadFirmware, vars, meter
  <2> QED
    BY <1>d, <2>1
<1> QED
  BY <1>1, <1>2, <1>3, <1>4 DEF Next

\* A totalizer never shows less than it did, also over failed polls, as long as
\* the meter's only grows (device.py:166-169, entity_descriptions.py:52-72).
THEOREM TotalsGrow == Spec => TotalsNeverFall
<1>1. Init => TotalsInv
  BY DEF Init, TotalsInv
<1>2. DeviceInv /\ TotalsInv /\ [Next]_vars => TotalsInv'
  BY TotalsStep
<1>3. DeviceInv /\ TotalsInv /\ [Next]_vars =>
        [\A r \in Totals : r \in DOMAIN data \cap DOMAIN data' => data'[r] >= data[r]]_vars
  <2> SUFFICES ASSUME DeviceInv, TotalsInv, Next,
                      NEW r \in Totals, r \in DOMAIN data, r \in DOMAIN data'
               PROVE  data'[r] >= data[r]
    OBVIOUS
  <2>1. r \in Registers /\ data[r] \in Int
    <3>1. r \in Registers /\ data[r] \in InRange(r)
      BY DeviceAssumption DEF DeviceInv, TypeOK
    <3> QED
      BY <3>1, MapFacts, SignBits DEF InRange
  <2>2. CASE ReadLast
    <3>1. data'[r] \in window[r] /\ pc = "poll"
      BY <2>2, PollIsTrue DEF DeviceInv, ReadLast
    <3> QED
      BY <3>1 DEF TotalsInv
  <2>3. CASE ~ReadLast
    <3>1. data' = data
      BY <2>3 DEF Next, Measure, Identify, ReadCode, ReadSerialNumber, ReadFirmware,
                  PollStart, ReadNext, PollFails
    <3> QED
      BY <2>1, <3>1
  <2> QED
    BY <2>2, <2>3
<1> QED
  BY <1>1, <1>2, <1>3, DeviceInvariant, PTL DEF Spec, TotalsNeverFall
=============================================================================
