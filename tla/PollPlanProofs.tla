--------------------------- MODULE PollPlanProofs ---------------------------
(***************************************************************************)
(* Proofs about PollPlan: what a device polls and shows, for the real      *)
(* register map, every identification and any limit of a request.          *)
(***************************************************************************)
EXTENDS PollPlan, SplitAddressesProofs

-----------------------------------------------------------------------------
(* The register map.                                                       *)

Int32Addresses ==
    EverySecond(0, 44) \cup EverySecond(52, 72) \cup {78, 80, 90, 96, 98, 100}

Described(address) == address \in EM300_SENSOR_DESCRIPTIONS

\* A register of two words is at an even address (register_map.py:76-141).
LEMMA TwoWordAddresses ==
    ASSUME NEW a \in Int32Addresses
    PROVE  a \in 0 .. 100 /\ a % 2 = 0
  BY DEF Int32Addresses, EverySecond

\* Each address of the map has a description (entity_descriptions.py:86-159).
LEMMA AddressesAreDescribed ==
    \A a \in Int32Addresses \cup (46 .. 51) : Described(a)
<1>1. \A a \in EverySecond(0, 44) : Described(a)
  BY DEF EverySecond, Described, EM300_SENSOR_DESCRIPTIONS, SystemAggregates, DemandAndPhases
<1>2. \A a \in EverySecond(52, 72) : Described(a)
  BY DEF EverySecond, Described, EM300_SENSOR_DESCRIPTIONS, EnergyTotalizers,
         DemandAndPhases, EnergyMeters
<1>3. \A a \in {78, 80, 90, 96, 98, 100} : Described(a)
  BY DEF EverySecond, Described, EM300_SENSOR_DESCRIPTIONS, EnergyTotalizers,
         EnergyMeters, Diagnostics
<1>4. \A a \in 46 .. 51 : Described(a)
  BY DEF Described, EM300_SENSOR_DESCRIPTIONS, SystemAggregates, DemandAndPhases, Diagnostics
<1> QED
  BY <1>1, <1>2, <1>3, <1>4 DEF Int32Addresses

\* A register has two words, or it has one, beside the others of one word, and
\* is on every series (register_map.py:49-141).
LEMMA RegistersOfMap ==
    ASSUME NEW r \in EM300_REGISTERS
    PROVE  \/ \E on \in {Series, ET_SERIES, ET_SERIES_AND_EM330}, a \in Int32Addresses :
                 r = Int32(a, on)
           \/ \E a \in 46 .. 51 : r = Int16(a)
<1>1. CASE r \in Instantaneous
  BY <1>1 DEF Instantaneous, Int32Addresses
<1>2. CASE r \in EnergiesAndDemand
  BY <1>2 DEF EnergiesAndDemand, Int32Addresses
<1>3. CASE r \in OnSomeSeries
  BY <1>3 DEF OnSomeSeries, Int32Addresses
<1> QED
  BY <1>1, <1>2, <1>3 DEF EM300_REGISTERS

LEMMA MapFacts ==
    ASSUME NEW r \in EM300_REGISTERS
    PROVE  /\ r.address \in 0 .. 100 /\ ~r.standalone /\ Described(r.address)
           /\ \/ r.length = 2 /\ r.address % 2 = 0
              \/ r.length = 1 /\ r.address \in 46 .. 51 /\ r.series = Series
<1>1. ASSUME NEW on, NEW a \in Int32Addresses, r = Int32(a, on)
      PROVE  r.address = a /\ r.length = 2 /\ ~r.standalone
  BY <1>1 DEF Int32, Register
<1>2. ASSUME NEW a \in 46 .. 51, r = Int16(a)
      PROVE  r.address = a /\ r.length = 1 /\ ~r.standalone /\ r.series = Series
  BY <1>2 DEF Int16, Register
<1> QED
  BY <1>1, <1>2, RegistersOfMap, TwoWordAddresses, AddressesAreDescribed

\* Its words.
LEMMA WordsOfRegister ==
    ASSUME NEW r \in EM300_REGISTERS
    PROVE  /\ Addresses(r) \subseteq 0 .. 101
           /\ r.length = 2 => Addresses(r) = {r.address, r.address + 1}
           /\ r.length = 1 => Addresses(r) = {r.address}
  BY MapFacts DEF Addresses

\* The words of a set of registers are all that their registers span.
LEMMA WordsOfBatch ==
    ASSUME NEW S \in SUBSET EM300_REGISTERS
    PROVE  /\ BatchWords(S) \subseteq 0 .. 101
           /\ \A r \in S : Addresses(r) \subseteq BatchWords(S)
           /\ \A a \in BatchWords(S) : \E r \in S : a \in Addresses(r)
<1>1. \A r \in S : ~r.standalone /\ Addresses(r) \subseteq 0 .. 101
  BY MapFacts, WordsOfRegister
<1> QED
  BY <1>1 DEF BatchWords

\* What a device polls of a series it polls in pairs of words, each from an
\* even address on (register_map.py:76-141).
LEMMA RunsOfMap ==
    ASSUME NEW s \in Series \cup {NoSeries}
    PROVE  RunsStartEven(BatchWords(Narrowed(s)))
<1> SUFFICES ASSUME NEW a \in BatchWords(Narrowed(s)), a % 2 = 1
             PROVE  a - 1 \in BatchWords(Narrowed(s))
  BY DEF RunsStartEven
<1>1. Narrowed(s) \subseteq EM300_REGISTERS
  BY DEF Narrowed
<1>2. PICK r \in Narrowed(s) : a \in Addresses(r)
  BY <1>1, WordsOfBatch
<1>3. CASE r.length = 2
  <2>1. a = r.address + 1 /\ r.address \in Nat
    BY <1>1, <1>3, <1>2, MapFacts, WordsOfRegister
  <2>2. a - 1 = r.address
    BY <2>1
  <2>3. r \in EM300_REGISTERS
    BY <1>1
  <2>4. r.address \in Addresses(r)
    BY <1>3, <2>3, WordsOfRegister
  <2> QED
    BY <1>1, <2>2, <2>4, WordsOfBatch
<1>4. CASE r.length = 1
  <2>1. a \in 46 .. 51
    BY <1>1, <1>4, <1>2, MapFacts, WordsOfRegister
  <2>2. a - 1 \in 46 .. 51
    BY <2>1
  <2>3. Int16(a - 1) \in EM300_REGISTERS
    BY <2>2 DEF EM300_REGISTERS, Instantaneous
  <2>4. Int16(a - 1) \in Narrowed(s)
    BY <2>3 DEF Narrowed, SupportedBy, Int16, Register
  <2>5. a - 1 \in Addresses(Int16(a - 1))
    BY <2>2 DEF Addresses, Int16, Register
  <2> QED
    BY <1>1, <2>4, <2>5, WordsOfBatch
<1> QED
  BY <1>1, <1>3, <1>4, MapFacts

-----------------------------------------------------------------------------
(* The inductive invariant.                                                *)

\* The plan starts from the words of the registers, and nothing else counts.
LEMMA Replanned ==
    ASSUME NEW narrowed, wanted' \in Inputs, Replan(narrowed)
    PROVE  (TypeOK /\ LoopInv /\ EvenInv)'
  BY SplitAssumption
  DEF Replan, TypeOK, LoopInv, EvenInv, ReadsExactlyWanted, RequestsFitFrame,
      RequestsAreFewest, RequestsAreDisjoint

\* What a device has to plan for is an input of the planner.
LEMMA NarrowedIsPlannable ==
    ASSUME NEW s \in Series \cup {NoSeries}
    PROVE  /\ BatchWords(Narrowed(s)) \in Inputs
           /\ Narrowed(s) \subseteq EM300_REGISTERS
  BY DeviceInputs DEF Plannable, Narrowed

\* A device that was not identified polls the full map (register_map.py:23-25).
LEMMA FullMap == Narrowed(NoSeries) = EM300_REGISTERS
  BY DEF Narrowed, SupportedBy

\* Whatever the code and the fallback, the device settles on a series it knows
\* or on none (device.py:101-110).
LEMMA SettledIsKnown ==
    ASSUME NEW code \in Codes, NEW fallback \in Series \cup {NoSeries}
    PROVE  Settled(code, fallback) \in Series \cup {NoSeries}
<1>1. \A c \in DOMAIN CG_IDENTIFICATION_CODES : CG_IDENTIFICATION_CODES[c] \in Series
  BY DEF CG_IDENTIFICATION_CODES, Series
<1> QED
  BY <1>1 DEF Settled, SeriesForIdentificationCode

LEMMA PlanInit == DeviceInit => PlanInv
<1> SUFFICES ASSUME DeviceInit PROVE PlanInv
  OBVIOUS
<1>1. registers = Narrowed(series) /\ wanted = BatchWords(registers)
  BY FullMap DEF DeviceInit
<1>2. TypeOK /\ LoopInv /\ EvenInv
  BY SplitAssumption
  DEF DeviceInit, Init, TypeOK, LoopInv, EvenInv, ReadsExactlyWanted,
      RequestsFitFrame, RequestsAreFewest, RequestsAreDisjoint
<1> QED
  BY <1>1, <1>2 DEF DeviceInit, PlanInv

\* A step of the planner.
LEMMA PlanStep ==
    ASSUME PlanInv, Plan
    PROVE  PlanInv'
<1>1. /\ Next /\ wanted' = wanted
      /\ UNCHANGED <<series, identified, registers, decoded, sensors>>
  BY DEF Plan, Next, Empty, StartRun, ExtendRun, EndRun, Chop, Finish
<1>2. pc # "done"
  BY <1>1 DEF Next, Empty, StartRun, ExtendRun, EndRun, Chop, Finish
<1>3. TypeOK'
  BY <1>1, TypeStep DEF PlanInv
<1>4. LoopInv'
  BY <1>1, StartRunStep, ExtendRunStep, EndRunStep, ChopStep, EndStep DEF Next, PlanInv
<1>5. ASSUME MaximumLength % 2 = 0
      PROVE  EvenInv'
  <2>1. RunsStartEven(wanted)
    BY RunsOfMap DEF PlanInv
  <2> QED
    BY <1>1, <1>5, <2>1, EvenStep DEF PlanInv
<1>6. decoded' = {} /\ sensors' = {}
  BY <1>1, <1>2 DEF PlanInv, Ready
<1> QED
  BY <1>1, <1>3, <1>4, <1>5, <1>6 DEF PlanInv

LEMMA IdentifyStep ==
    ASSUME PlanInv, Identify
    PROVE  PlanInv'
<1>1. /\ ~identified /\ identified' = TRUE
      /\ registers' = Narrowed(series') /\ Replan(registers')
      /\ UNCHANGED <<decoded, sensors>>
  BY DEF Identify
<1>2. series' \in Series \cup {NoSeries}
  BY SettledIsKnown DEF Identify
<1>3. wanted' = BatchWords(registers') /\ wanted' \in Inputs
  BY <1>1, <1>2, NarrowedIsPlannable DEF Replan
<1>4. (TypeOK /\ LoopInv /\ EvenInv)'
  BY <1>1, <1>3, Replanned
<1>5. decoded' = {} /\ sensors' = {}
  BY <1>1 DEF PlanInv, Ready
<1> QED
  BY <1>1, <1>2, <1>3, <1>4, <1>5 DEF PlanInv

\* When the plan is made it covers every word of every register of the device.
LEMMA PlanCovers ==
    ASSUME PlanInv, pc = "done"
    PROVE  /\ registers \subseteq EM300_REGISTERS
           /\ Covered = BatchWords(registers)
           /\ \A r \in registers : Addresses(r) \subseteq Covered
           /\ \A a \in Covered : \E r \in registers : a \in Addresses(r)
<1>1. registers \subseteq EM300_REGISTERS
  BY NarrowedIsPlannable DEF PlanInv
<1>2. Covered = BatchWords(registers)
  BY DEF PlanInv, LoopInv, ReadsExactlyWanted
<1> QED
  BY <1>1, <1>2, WordsOfBatch

\* A step that leaves the planner alone.
LEMMA PlannerKept ==
    ASSUME UNCHANGED vars
    PROVE  (TypeOK' <=> TypeOK) /\ (LoopInv' <=> LoopInv) /\ (EvenInv' <=> EvenInv)
<1>1. TypeOK' <=> TypeOK
  BY DEF vars, TypeOK
<1>2. LoopInv' <=> LoopInv
  BY DEF vars, LoopInv, Covered, Frontier, ReadsExactlyWanted, RequestsFitFrame,
         RequestsAreFewest, RequestsAreDisjoint, Apart
<1>3. EvenInv' <=> EvenInv
  BY DEF vars, EvenInv, Frontier
<1> QED
  BY <1>1, <1>2, <1>3

LEMMA ReadAllStep ==
    ASSUME PlanInv, ReadAll
    PROVE  PlanInv'
<1>1. pc = "done" /\ identified
      /\ UNCHANGED <<series, identified, registers, sensors, vars>>
  BY DEF ReadAll
<1>2. decoded' = registers
  BY <1>1, PlanCovers DEF ReadAll
<1>3. (TypeOK /\ LoopInv)' /\ (MaximumLength % 2 = 0 => EvenInv)'
  BY <1>1, PlannerKept DEF PlanInv
<1>4. Ready' /\ wanted' = wanted
  BY <1>1 DEF Ready, vars
<1> QED
  BY <1>1, <1>2, <1>3, <1>4 DEF PlanInv

LEMMA AddSensorsStep ==
    ASSUME PlanInv, AddSensors
    PROVE  PlanInv'
<1>1. decoded # {} /\ UNCHANGED <<series, identified, registers, decoded, vars>>
  BY DEF AddSensors
<1>2. sensors' = registers
  <2>1. \A r \in registers : r.address \in EM300_SENSOR_DESCRIPTIONS
    BY NarrowedIsPlannable, MapFacts DEF PlanInv, Described
  <2> QED
    BY <2>1 DEF AddSensors
<1>3. (TypeOK /\ LoopInv)' /\ (MaximumLength % 2 = 0 => EvenInv)'
  BY <1>1, PlannerKept DEF PlanInv
<1>4. Ready' <=> Ready
  BY <1>1 DEF Ready, vars
<1> QED
  BY <1>1, <1>2, <1>3, <1>4 DEF PlanInv, vars

\* From the constructor on, a device has or makes the plan of its registers.
THEOREM PlanIsOfTheRegisters == DeviceSpec => []PlanInv
<1>1. PlanInv /\ [DeviceNext]_deviceVars => PlanInv'
  <2> SUFFICES ASSUME PlanInv, [DeviceNext]_deviceVars PROVE PlanInv'
    OBVIOUS
  <2>1. CASE Plan
    BY <2>1, PlanStep
  <2>2. CASE Identify
    BY <2>2, IdentifyStep
  <2>3. CASE ReadAll
    BY <2>3, ReadAllStep
  <2>4. CASE AddSensors
    BY <2>4, AddSensorsStep
  <2>5. CASE UNCHANGED deviceVars
    <3>1. (TypeOK /\ LoopInv)' /\ (MaximumLength % 2 = 0 => EvenInv)'
      BY <2>5, PlannerKept DEF PlanInv, deviceVars
    <3> QED
      BY <2>5, <3>1 DEF PlanInv, Ready, deviceVars, vars
  <2> QED
    BY <2>1, <2>2, <2>3, <2>4, <2>5 DEF DeviceNext
<1> QED
  BY <1>1, PlanInit, PTL DEF DeviceSpec

-----------------------------------------------------------------------------
(* What follows from it.                                                   *)

\* The types of a device's state.
THEOREM DeviceTypes == DeviceSpec => []DeviceTypeOK
<1>1. PlanInv => DeviceTypeOK
  <2> SUFFICES ASSUME PlanInv PROVE DeviceTypeOK
    OBVIOUS
  <2>1. registers \subseteq EM300_REGISTERS
    BY NarrowedIsPlannable DEF PlanInv
  <2>2. wanted \subseteq WordAddresses
    BY <2>1, WordsOfBatch DEF PlanInv, WordAddresses
  <2>3. decoded \subseteq registers /\ sensors \subseteq registers
    BY DEF PlanInv
  <2> QED
    BY <2>1, <2>2, <2>3 DEF PlanInv, DeviceTypeOK
<1> QED
  BY <1>1, PlanIsOfTheRegisters, PTL

\* A poll asks for words of registers the meter has and for no other
\* (device.py:106-110).
THEOREM PollsOnlyTheSeries == DeviceSpec => []PollsOnlyItsOwn
<1>1. PlanInv => PollsOnlyItsOwn
  <2> SUFFICES ASSUME PlanInv, Ready, NEW read \in reads, NEW word \in Words(read)
               PROVE  \E r \in EM300_REGISTERS : SupportedBy(r, series) /\ word \in Addresses(r)
    BY DEF PollsOnlyItsOwn
  <2>1. word \in Covered
    BY DEF Covered
  <2>2. PICK r \in registers : word \in Addresses(r)
    BY <2>1, PlanCovers DEF Ready
  <2> QED
    BY <2>2 DEF PlanInv, Narrowed
<1> QED
  BY <1>1, PlanIsOfTheRegisters, PTL

\* Every register a poll delivers has a sensor and every sensor gets a value
\* (sensor.py:31-38, 57-62).
THEOREM SensorsShowWhatIsPolled == DeviceSpec => []SensorsShowThePoll
<1>1. PlanInv => SensorsShowThePoll
  BY DEF PlanInv, SensorsShowThePoll
<1> QED
  BY <1>1, PlanIsOfTheRegisters, PTL

\* A limit of an even number of words, as MAX_READ_REGISTERS is (batch.py:22),
\* never parts the two words of a register.
LEMMA ReadWhole ==
    ASSUME PlanInv, Ready, MaximumLength % 2 = 0, NEW r \in registers
    PROVE  \E read \in reads : Addresses(r) \subseteq Words(read)
<1>1. r \in EM300_REGISTERS /\ Addresses(r) \subseteq Covered /\ Covered = wanted
  BY PlanCovers DEF Ready, PlanInv
<1>2. r.address \in Addresses(r)
  BY <1>1, MapFacts, WordsOfRegister
<1>3. PICK read \in reads : r.address \in Words(read)
  BY <1>1, <1>2 DEF Covered
<1>4. CASE r.length = 2
  <2>1. Addresses(r) = {r.address, r.address + 1} /\ r.address % 2 = 0
    BY <1>1, <1>4, MapFacts, WordsOfRegister
  <2>2. r.address + 1 \in wanted
    BY <1>1, <2>1
  <2>3. r.address + 1 \in Words(read)
    BY <1>3, <2>1, <2>2, PairsStayTogether DEF PlanInv
  <2> QED
    BY <1>3, <2>1, <2>3
<1>5. CASE r.length = 1
  BY <1>1, <1>3, <1>5, WordsOfRegister
<1> QED
  BY <1>1, <1>4, <1>5, MapFacts

\* No value is put together from the words of two requests (batch.py:57-60).
THEOREM ReadsAreWhole ==
    ASSUME MaximumLength % 2 = 0
    PROVE  DeviceSpec => []RegistersReadWhole
<1>1. PlanInv => RegistersReadWhole
  BY ReadWhole DEF RegistersReadWhole
<1> QED
  BY <1>1, PlanIsOfTheRegisters, PTL

\* A request for the word 0x000B has the word before it too, and is not taken
\* for the identification (register_map.py:155-157).
LEMMA NeverTheCode ==
    ASSUME TypeOK, EvenInv, NEW read \in reads
    PROVE  Words(read) # {\h0B}
<1>1. read.start \in Nat /\ read.length \in Nat /\ read.start % 2 = 0
  BY DEF TypeOK, EvenInv
<1> SUFFICES ASSUME \h0B \in read.start .. (read.start + read.length - 1)
             PROVE  10 \in read.start .. (read.start + read.length - 1)
  BY DEF Words
<1> QED
  BY <1>1

\* The plan of a device is one Em300Device assumes of a plan.
THEOREM PlanServesTheDevice ==
    ASSUME MaximumLength % 2 = 0
    PROVE  DeviceSpec => []PlanIsOneForTheDevice
<1>1. PlanInv => PlanIsOneForTheDevice
  <2> SUFFICES ASSUME PlanInv, Ready PROVE PlanIsOneForTheDevice
    BY DEF PlanIsOneForTheDevice
  <2>1. RegistersReadWhole
    BY ReadWhole DEF RegistersReadWhole
  <2>2. RequestsAreDisjoint
    BY DEF PlanInv, LoopInv
  <2>3. ASSUME NEW read \in reads
        PROVE  Words(read) \subseteq UNION {Addresses(r) : r \in registers}
    BY PlanCovers DEF Ready, Covered
  <2>4. ASSUME NEW read \in reads
        PROVE  Words(read) # {\h0B}
    BY NeverTheCode DEF PlanInv
  <2> QED
    BY <2>1, <2>2, <2>3, <2>4 DEF PlanIsOneForTheDevice
<1> QED
  BY <1>1, PlanIsOfTheRegisters, PTL

-----------------------------------------------------------------------------
(* The map itself is one Em300Device assumes of a map.                     *)

\* The series of the registers of two words.
SeriesOf(address) ==
    IF address = \h5A THEN ET_SERIES_AND_EM330
    ELSE IF address \in {\h60, \h62, \h64} THEN ET_SERIES ELSE Series

\* The address says which register it is: no two have the same.
LEMMA AddressIsTheRegister ==
    ASSUME NEW r \in EM300_REGISTERS
    PROVE  r = IF r.address \in 46 .. 51 THEN Int16(r.address)
               ELSE Int32(r.address, SeriesOf(r.address))
<1>1. ASSUME NEW a \in EverySecond(0, 44) \cup EverySecond(52, 72) \cup {78, 80},
             r = Int32(a, Series)
      PROVE  r.address = a /\ a \notin 46 .. 51 /\ SeriesOf(a) = Series
  BY <1>1 DEF EverySecond, Int32, Register, SeriesOf
<1>2. ASSUME NEW a \in {96, 98, 100}, r = Int32(a, ET_SERIES)
      PROVE  r.address = a /\ a \notin 46 .. 51 /\ SeriesOf(a) = ET_SERIES
  BY <1>2 DEF Int32, Register, SeriesOf
<1>3. ASSUME r = Int32(90, ET_SERIES_AND_EM330)
      PROVE  r.address = 90 /\ SeriesOf(90) = ET_SERIES_AND_EM330
  BY <1>3 DEF Int32, Register, SeriesOf
<1>4. ASSUME NEW a \in 46 .. 51, r = Int16(a)
      PROVE  r.address = a
  BY <1>4 DEF Int16, Register
<1>5. CASE r \in Instantaneous
  BY <1>1, <1>4, <1>5 DEF Instantaneous
<1>6. CASE r \in EnergiesAndDemand
  BY <1>1, <1>6 DEF EnergiesAndDemand
<1>7. CASE r \in OnSomeSeries
  BY <1>2, <1>3, <1>7 DEF OnSomeSeries
<1> QED
  BY <1>5, <1>6, <1>7 DEF EM300_REGISTERS

LEMMA LongRegisters ==
    ASSUME NEW r \in EM300_REGISTERS, r.length = 2
    PROVE  r.address \notin 46 .. 51
  BY AddressIsTheRegister DEF Int16, Register

\* No two registers share a word, so no value is decoded from the word of
\* another, and none is the one word 0x000B that a meter answers with its
\* identification code (register_map.py:76-141, 155-157).
THEOREM RegistersAreApart ==
    /\ \A r, s \in EM300_REGISTERS : r # s => Addresses(r) \cap Addresses(s) = {}
    /\ \A r \in EM300_REGISTERS : Addresses(r) # {\h0B}
<1>1. ASSUME NEW r \in EM300_REGISTERS, NEW s \in EM300_REGISTERS,
             NEW a \in Addresses(r), a \in Addresses(s)
      PROVE  r = s
  <2>1. r.address = s.address
    <3>1. \/ a \in {r.address, r.address + 1} /\ r.address % 2 = 0 /\ r.address \notin 46 .. 51
          \/ a = r.address /\ r.address \in 46 .. 51
      BY <1>1, MapFacts, WordsOfRegister, LongRegisters
    <3>2. \/ a \in {s.address, s.address + 1} /\ s.address % 2 = 0 /\ s.address \notin 46 .. 51
          \/ a = s.address /\ s.address \in 46 .. 51
      BY <1>1, MapFacts, WordsOfRegister, LongRegisters
    <3>3. r.address \in 0 .. 100 /\ s.address \in 0 .. 100
      BY MapFacts
    <3> QED
      BY <3>1, <3>2, <3>3
  <2> QED
    BY <2>1, AddressIsTheRegister
<1>2. ASSUME NEW r \in EM300_REGISTERS
      PROVE  Addresses(r) # {\h0B}
  <2>1. r.address \in Addresses(r) /\ r.address # \h0B
    BY MapFacts, WordsOfRegister
  <2> QED
    BY <2>1
<1> QED
  BY <1>1, <1>2

-----------------------------------------------------------------------------
(* The poll of an EM340, counted.                                          *)

\* The addresses of the map in order, those that not every series has last.
AddressAt(i) ==
    IF i <= 23 THEN 2 * (i - 1) ELSE IF i <= 29 THEN i + 22
    ELSE IF i <= 40 THEN 2 * i - 8 ELSE IF i = 41 THEN 78 ELSE IF i = 42 THEN 80
    ELSE IF i = 43 THEN 90 ELSE 2 * i + 8

RegisterAt(i) ==
    IF AddressAt(i) \in 46 .. 51 THEN Int16(AddressAt(i))
    ELSE Int32(AddressAt(i), SeriesOf(AddressAt(i)))

\* A set that is numbered from 1 to n has n members.
LEMMA Numbered ==
    ASSUME NEW S, NEW n \in Nat, NEW f, f \in Bijection(1 .. n, S)
    PROVE  Cardinality(S) = n
<1>1. ExistsBijection(1 .. n, S)
  BY DEF ExistsBijection
<1> QED
  BY <1>1, FS_CountingElements

\* The map has 46 addresses, one for each register (register_map.py:74-141).
LEMMA AddressesInOrder ==
    /\ \A i \in 1 .. 46 : AddressAt(i) \in Int32Addresses \cup (46 .. 51)
    /\ \A i, j \in 1 .. 46 : AddressAt(i) = AddressAt(j) => i = j
    /\ \A a \in Int32Addresses \cup (46 .. 51) : \E i \in 1 .. 46 : AddressAt(i) = a
<1>1. ASSUME NEW i \in 1 .. 46
      PROVE  AddressAt(i) \in Int32Addresses \cup (46 .. 51)
  <2>1. CASE i <= 23
    BY <2>1 DEF AddressAt, Int32Addresses, EverySecond
  <2>2. CASE i \in 24 .. 29
    BY <2>2 DEF AddressAt
  <2>3. CASE i \in 30 .. 40
    BY <2>3 DEF AddressAt, Int32Addresses, EverySecond
  <2>4. CASE i \in 41 .. 46
    BY <2>4 DEF AddressAt, Int32Addresses
  <2> QED
    BY <2>1, <2>2, <2>3, <2>4
<1>2. \A i, j \in 1 .. 46 : AddressAt(i) = AddressAt(j) => i = j
  BY DEF AddressAt
<1>3. ASSUME NEW a \in Int32Addresses \cup (46 .. 51)
      PROVE  \E i \in 1 .. 46 : AddressAt(i) = a
  <2>1. CASE a \in EverySecond(0, 44)
    <3>1. PICK k \in 0 .. 22 : a = 2 * k
      BY <2>1 DEF EverySecond
    <3>2. k + 1 \in 1 .. 46 /\ AddressAt(k + 1) = a
      BY <3>1 DEF AddressAt
    <3> QED
      BY <3>2
  <2>2. CASE a \in 46 .. 51
    <3>1. a - 22 \in 1 .. 46 /\ AddressAt(a - 22) = a
      BY <2>2 DEF AddressAt
    <3> QED
      BY <3>1
  <2>3. CASE a \in EverySecond(52, 72)
    <3>1. PICK k \in 26 .. 36 : a = 2 * k
      BY <2>3 DEF EverySecond
    <3>2. k + 4 \in 1 .. 46 /\ AddressAt(k + 4) = a
      BY <3>1 DEF AddressAt
    <3> QED
      BY <3>2
  <2>4. CASE a \in {78, 80, 90, 96, 98, 100}
    <3>1. /\ AddressAt(41) = 78 /\ AddressAt(42) = 80 /\ AddressAt(43) = 90
          /\ AddressAt(44) = 96 /\ AddressAt(45) = 98 /\ AddressAt(46) = 100
      BY DEF AddressAt
    <3> QED
      BY <2>4, <3>1
  <2> QED
    BY <2>1, <2>2, <2>3, <2>4 DEF Int32Addresses
<1> QED
  BY <1>1, <1>2, <1>3

\* The register at each of them, and the series that have it.
LEMMA RegistersInOrder ==
    /\ \A i \in 1 .. 46 :
          /\ RegisterAt(i) \in EM300_REGISTERS /\ RegisterAt(i).address = AddressAt(i)
          /\ "EM340" \in RegisterAt(i).series <=> i <= 42
    /\ \A r \in EM300_REGISTERS : \E i \in 1 .. 46 : r = RegisterAt(i)
<1>1. ASSUME NEW i \in 1 .. 46
      PROVE  /\ RegisterAt(i) \in EM300_REGISTERS /\ RegisterAt(i).address = AddressAt(i)
             /\ "EM340" \in RegisterAt(i).series <=> i <= 42
  <2> DEFINE a == AddressAt(i)
  <2>1. a \in Int32Addresses \cup (46 .. 51)
    BY AddressesInOrder
  <2>2. RegisterAt(i).address = a
    BY DEF RegisterAt, Int16, Int32, Register
  <2>3. CASE i <= 42
    <3>1. a # 90 /\ a \notin {96, 98, 100}
      BY <2>3 DEF AddressAt
    <3>2. a \in 46 .. 51 => RegisterAt(i) = Int16(a)
      BY DEF RegisterAt
    <3>3. a \notin 46 .. 51 => RegisterAt(i) = Int32(a, Series)
      BY <3>1 DEF RegisterAt, SeriesOf
    <3>4. RegisterAt(i) \in EM300_REGISTERS
      <4> HIDE DEF a
      <4> QED
        BY <2>1, <3>1, <3>2, <3>3
           DEF EM300_REGISTERS, Instantaneous, EnergiesAndDemand, Int32Addresses
    <3>5. RegisterAt(i).series = Series
      BY <3>2, <3>3 DEF Int16, Int32, Register
    <3> QED
      BY <2>2, <2>3, <3>4, <3>5 DEF Series
  <2>4. CASE i = 43
    <3>1. RegisterAt(i) = Int32(90, ET_SERIES_AND_EM330)
      BY <2>4 DEF RegisterAt, AddressAt, SeriesOf
    <3> QED
      BY <2>2, <2>4, <3>1 DEF EM300_REGISTERS, OnSomeSeries, Int32, Register, ET_SERIES_AND_EM330, ET_SERIES
  <2>5. CASE i \in 44 .. 46
    <3>1. a \in {96, 98, 100}
      BY <2>5 DEF AddressAt
    <3>2. RegisterAt(i) = Int32(a, ET_SERIES)
      BY <3>1 DEF RegisterAt, SeriesOf
    <3>3. RegisterAt(i) \in EM300_REGISTERS
      <4> HIDE DEF a
      <4> QED
        BY <3>1, <3>2 DEF EM300_REGISTERS, OnSomeSeries
    <3>4. RegisterAt(i).series = ET_SERIES
      BY <3>2 DEF Int32, Register
    <3> QED
      BY <2>2, <2>5, <3>3, <3>4 DEF ET_SERIES
  <2> QED
    BY <2>3, <2>4, <2>5
<1>2. ASSUME NEW r \in EM300_REGISTERS
      PROVE  \E i \in 1 .. 46 : r = RegisterAt(i)
  <2>1. r.address \in Int32Addresses \cup (46 .. 51)
    BY RegistersOfMap DEF Int32, Int16, Register
  <2>2. PICK i \in 1 .. 46 : AddressAt(i) = r.address
    BY <2>1, AddressesInOrder
  <2>3. r = RegisterAt(i)
    BY <2>2, AddressIsTheRegister DEF RegisterAt
  <2> QED
    BY <2>3
<1> QED
  BY <1>1, <1>2

\* README.md:156-158: the map has 46 registers, an EM340 42 of them.
LEMMA RegistersCounted ==
    /\ Cardinality(EM300_REGISTERS) = 46
    /\ Cardinality(Narrowed("EM340")) = 42
<1>1. \A i, j \in 1 .. 46 : RegisterAt(i) = RegisterAt(j) => i = j
  <2> SUFFICES ASSUME NEW i \in 1 .. 46, NEW j \in 1 .. 46, RegisterAt(i) = RegisterAt(j)
               PROVE  i = j
    OBVIOUS
  <2>1. AddressAt(i) = AddressAt(j)
    BY RegistersInOrder
  <2> QED
    BY <2>1, AddressesInOrder
<1>2. Cardinality(EM300_REGISTERS) = 46
  <2> DEFINE f == [i \in 1 .. 46 |-> RegisterAt(i)]
  <2>1. f \in [1 .. 46 -> EM300_REGISTERS] /\ \A i \in 1 .. 46 : f[i] = RegisterAt(i)
    BY RegistersInOrder
  <2>2. \A r \in EM300_REGISTERS : \E i \in 1 .. 46 : f[i] = r
    BY <2>1, RegistersInOrder
  <2>3. \A i, j \in 1 .. 46 : f[i] = f[j] => i = j
    BY <1>1, <2>1
  <2> HIDE DEF f
  <2>4. f \in Bijection(1 .. 46, EM300_REGISTERS)
    BY <2>1, <2>2, <2>3 DEF Bijection, Injection, Surjection, IsInjective
  <2> QED
    BY <2>4, Numbered
<1>3. Cardinality(Narrowed("EM340")) = 42
  <2> DEFINE f == [i \in 1 .. 42 |-> RegisterAt(i)]
  <2>1. \A r \in EM300_REGISTERS : r \in Narrowed("EM340") <=> "EM340" \in r.series
    BY DEF Narrowed, SupportedBy, NoSeries
  <2>2. /\ f \in [1 .. 42 -> Narrowed("EM340")]
        /\ \A i \in 1 .. 42 : f[i] = RegisterAt(i)
    BY <2>1, RegistersInOrder
  <2>3. \A r \in Narrowed("EM340") : \E i \in 1 .. 42 : f[i] = r
    <3> SUFFICES ASSUME NEW r \in Narrowed("EM340")
                 PROVE  \E i \in 1 .. 42 : f[i] = r
      OBVIOUS
    <3>1. r \in EM300_REGISTERS
      BY DEF Narrowed
    <3>2. PICK i \in 1 .. 46 : r = RegisterAt(i)
      BY <3>1, RegistersInOrder
    <3>3. i \in 1 .. 42
      BY <2>1, <3>1, <3>2, RegistersInOrder
    <3> QED
      BY <2>2, <3>2, <3>3
  <2>4. \A i, j \in 1 .. 42 : f[i] = f[j] => i = j
    BY <1>1, <2>2
  <2> HIDE DEF f
  <2>5. f \in Bijection(1 .. 42, Narrowed("EM340"))
    BY <2>2, <2>3, <2>4 DEF Bijection, Injection, Surjection, IsInjective
  <2> QED
    BY <2>5, Numbered
<1> QED
  BY <1>2, <1>3

\* An EM340 is asked for all words up to the counters of energy, and for those
\* of the last two behind the hole (register_map.py:76-128).
LEMMA WordsOfEM340 == BatchWords(Narrowed("EM340")) = (0 .. 73) \cup (78 .. 81)
<1> DEFINE N == Narrowed("EM340")
<1>1. N \in SUBSET EM300_REGISTERS
  BY DEF Narrowed
<1>2. \A i \in 1 .. 42 : RegisterAt(i) \in N
  BY RegistersInOrder DEF Narrowed, SupportedBy
<1>3. \A r \in N : \E i \in 1 .. 42 : r = RegisterAt(i)
  <2> SUFFICES ASSUME NEW r \in N PROVE \E i \in 1 .. 42 : r = RegisterAt(i)
    OBVIOUS
  <2>1. r \in EM300_REGISTERS /\ "EM340" \in r.series
    BY DEF Narrowed, SupportedBy, NoSeries
  <2>2. PICK i \in 1 .. 46 : r = RegisterAt(i)
    BY <2>1, RegistersInOrder
  <2>3. i \in 1 .. 42
    BY <2>1, <2>2, RegistersInOrder
  <2> QED
    BY <2>2, <2>3
<1>4. ASSUME NEW i \in 1 .. 42
      PROVE  /\ i \in 24 .. 29 => Addresses(RegisterAt(i)) = {AddressAt(i)}
             /\ i \notin 24 .. 29 => Addresses(RegisterAt(i)) = {AddressAt(i), AddressAt(i) + 1}
  <2>1. RegisterAt(i) \in EM300_REGISTERS /\ RegisterAt(i).address = AddressAt(i)
    BY RegistersInOrder
  <2>2. AddressAt(i) \in 46 .. 51 <=> i \in 24 .. 29
    BY DEF AddressAt
  <2>3. RegisterAt(i).length = IF i \in 24 .. 29 THEN 1 ELSE 2
    BY <2>2 DEF RegisterAt, Int16, Int32, Register
  <2> QED
    BY <2>1, <2>3, WordsOfRegister
<1>5. ASSUME NEW a \in BatchWords(N)
      PROVE  a \in (0 .. 73) \cup (78 .. 81)
  <2>1. PICK i \in 1 .. 42 : a \in Addresses(RegisterAt(i))
    BY <1>1, <1>3, WordsOfBatch
  <2>2. IF i \in 24 .. 29 THEN a = AddressAt(i) ELSE a \in {AddressAt(i), AddressAt(i) + 1}
    BY <1>4, <2>1
  <2> QED
    BY <2>2 DEF AddressAt
<1>6. ASSUME NEW i \in 1 .. 42, NEW a,
             IF i \in 24 .. 29 THEN a = AddressAt(i) ELSE a \in {AddressAt(i), AddressAt(i) + 1}
      PROVE  a \in BatchWords(N)
  <2>1. a \in Addresses(RegisterAt(i))
    BY <1>4, <1>6
  <2>2. RegisterAt(i) \in N
    BY <1>2
  <2> HIDE DEF N
  <2> QED
    BY <1>1, <2>1, <2>2, WordsOfBatch
<1>7. ASSUME NEW a \in (0 .. 73) \cup (78 .. 81)
      PROVE  \E i \in 1 .. 42 :
                IF i \in 24 .. 29 THEN a = AddressAt(i)
                ELSE a \in {AddressAt(i), AddressAt(i) + 1}
  <2>1. CASE a \in 0 .. 45
    <3>1. PICK k \in 0 .. 22 : a = 2 * k \/ a = 2 * k + 1
      BY <2>1
    <3>2. k + 1 \in 1 .. 42 /\ k + 1 \notin 24 .. 29 /\ AddressAt(k + 1) = 2 * k
      BY DEF AddressAt
    <3> QED
      BY <3>1, <3>2
  <2>2. CASE a \in 46 .. 51
    <3>1. a - 22 \in 24 .. 29 /\ AddressAt(a - 22) = a
      BY <2>2 DEF AddressAt
    <3> QED
      BY <3>1
  <2>3. CASE a \in 52 .. 73
    <3>1. PICK k \in 26 .. 36 : a = 2 * k \/ a = 2 * k + 1
      BY <2>3
    <3>2. k + 4 \in 1 .. 42 /\ k + 4 \notin 24 .. 29 /\ AddressAt(k + 4) = 2 * k
      BY DEF AddressAt
    <3> QED
      BY <3>1, <3>2
  <2>4. CASE a \in 78 .. 81
    <3>1. AddressAt(41) = 78 /\ AddressAt(42) = 80
      BY DEF AddressAt
    <3>2. a \in {AddressAt(41), AddressAt(41) + 1} \/ a \in {AddressAt(42), AddressAt(42) + 1}
      BY <2>4, <3>1
    <3> QED
      BY <3>2
  <2> QED
    BY <2>1, <2>2, <2>3, <2>4
<1>8. \A a \in (0 .. 73) \cup (78 .. 81) : a \in BatchWords(N)
  BY <1>6, <1>7
<1> HIDE DEF N
<1>9. BatchWords(N) = (0 .. 73) \cup (78 .. 81)
  BY <1>5, <1>8
<1> QED
  BY <1>9 DEF N

\* Requests of at most 20 words for those words start at these five.
LEMMA StartsOfEM340 ==
    ASSUME TypeOK, LoopInv, pc = "done", MaximumLength = 20,
           wanted = (0 .. 73) \cup (78 .. 81)
    PROVE  {r.start : r \in reads} = {0, 20, 40, 60, 78}
<1>1. ASSUME NEW r \in reads
      PROVE  /\ r.start \in Nat /\ r.length \in 1 .. 20
             /\ Words(r) = r.start .. r.start + r.length - 1
             /\ Words(r) \subseteq wanted /\ r.start \in wanted
  BY DEF TypeOK, LoopInv, RequestsFitFrame, ReadsExactlyWanted, Covered, Words
<1>2. ASSUME NEW w \in wanted
      PROVE  \E r \in reads : r.start <= w /\ w < r.start + r.length
  <2>1. PICK r \in reads : w \in Words(r)
    BY DEF LoopInv, ReadsExactlyWanted, Covered
  <2>2. /\ r.start \in Nat /\ r.length \in 1 .. 20
        /\ w \in r.start .. r.start + r.length - 1
    BY <1>1, <2>1
  <2>3. r.start <= w /\ w < r.start + r.length
    BY <2>2
  <2> QED
    BY <2>3
<1>3. ASSUME NEW r \in reads, NEW s \in reads, r.start = s.start
      PROVE  r = s
  <2>1. /\ r.start \in Nat /\ r.length \in 1 .. 20
        /\ Words(r) = r.start .. r.start + r.length - 1
    BY <1>1
  <2>2. /\ s.length \in 1 .. 20
        /\ Words(s) = r.start .. r.start + s.length - 1
    BY <1>1, <1>3
  <2>3. \A n \in Nat : \A length \in 1 .. 20 : n \in n .. n + length - 1
    OBVIOUS
  <2>4. r.start \in Words(r) /\ r.start \in Words(s)
    BY <2>1, <2>2, <2>3
  <2> QED
    BY <2>4 DEF LoopInv, RequestsAreDisjoint
\* Inside a stretch without a gap, two starts are 20 apart.
<1>4. ASSUME NEW r \in reads, NEW s \in reads, r.start < s.start,
             s.start <= 73 \/ r.start >= 78
      PROVE  r.start + 20 <= s.start
  <2>1. \/ r.start + 20 <= s.start
        \/ \E gap \in r.start .. s.start : gap \notin wanted
    BY <1>4 DEF LoopInv, RequestsAreFewest, Apart
  <2>2. \A gap \in r.start .. s.start : gap \in wanted
    <3>1. r.start \in wanted /\ s.start \in wanted
      BY <1>1
    <3> QED
      BY <1>4, <3>1
  <2> QED
    BY <2>1, <2>2
\* No request reaches across the hole.
<1>5. ASSUME NEW r \in reads, r.start <= 73
      PROVE  r.start + r.length <= 74
  <2>1. /\ r.start \in Nat /\ r.length \in 1 .. 20
        /\ r.start .. r.start + r.length - 1 \subseteq wanted
    BY <1>1
  <2>2. 74 \notin r.start .. r.start + r.length - 1
    BY <2>1
  <2> QED
    BY <1>5, <2>1, <2>2
\* From one start within the first stretch to the next.
<1>6. ASSUME NEW r \in reads, r.start <= 53
      PROVE  \E s \in reads : s.start = r.start + 20
  <2>1. r.start \in Nat /\ r.length \in 1 .. 20 /\ r.start + r.length \in 0 .. 73
    <3>1. r.start \in Nat /\ r.length \in 1 .. 20
      BY <1>1
    <3> QED
      BY <1>6, <3>1
  <2>2. r.start + r.length \in wanted
    BY <2>1
  <2>3. PICK s \in reads :
           s.start <= r.start + r.length /\ r.start + r.length < s.start + s.length
    BY <1>2, <2>2
  <2>4. s.start \in Nat /\ s.length \in 1 .. 20
    BY <1>1
  <2>5. s # r
    BY <2>1, <2>3
  <2>6. s.start # r.start
    BY <1>3, <2>5
  <2>7. s.start <= 73
    BY <2>1, <2>3, <2>4
  <2>8. ~(s.start < r.start)
    <3> SUFFICES ASSUME s.start < r.start PROVE FALSE
      OBVIOUS
    <3>1. r.start <= 73
      BY <1>6, <2>1
    <3>2. s.start + 20 <= r.start
      BY <1>4, <3>1
    <3> QED
      BY <2>1, <2>3, <2>4, <3>2
  <2>9. r.start < s.start
    BY <2>1, <2>4, <2>6, <2>8
  <2>10. r.start + 20 <= s.start
    BY <1>4, <2>7, <2>9
  <2>11. s.start = r.start + 20
    BY <2>1, <2>3, <2>4, <2>10
  <2> QED
    BY <2>11
<1>7. \E r \in reads : r.start = 0
  <2>1. PICK r \in reads : r.start <= 0 /\ 0 < r.start + r.length
    BY <1>2
  <2> QED
    BY <1>1, <2>1
<1>8. PICK r0, r20, r40, r60 \in reads :
         r0.start = 0 /\ r20.start = 20 /\ r40.start = 40 /\ r60.start = 60
  <2>1. PICK r0 \in reads : r0.start = 0
    BY <1>7
  <2>2. PICK r20 \in reads : r20.start = 20
    BY <1>6, <2>1
  <2>3. PICK r40 \in reads : r40.start = 40
    BY <1>6, <2>2
  <2>4. PICK r60 \in reads : r60.start = 60
    BY <1>6, <2>3
  <2> QED
    BY <2>1, <2>2, <2>3, <2>4
<1>9. PICK r78 \in reads : r78.start = 78
  <2>1. PICK r \in reads : r.start <= 78 /\ 78 < r.start + r.length
    BY <1>2
  <2>2. r.start \in wanted /\ r.length \in 1 .. 20
    BY <1>1
  <2>3. ~(r.start <= 73)
    <3> SUFFICES ASSUME r.start <= 73 PROVE FALSE
      OBVIOUS
    <3>1. r.start + r.length <= 74
      BY <1>5
    <3> QED
      BY <2>1, <2>2, <3>1
  <2>4. r.start = 78
    BY <2>1, <2>2, <2>3
  <2> QED
    BY <2>4
<1>10. ASSUME NEW r \in reads
       PROVE  r.start \in {0, 20, 40, 60, 78}
  <2>1. CASE r.start \in 0 .. 73
    <3>1. \A s \in reads : s.start <= 73 /\ s.start # r.start =>
             s.start + 20 <= r.start \/ r.start + 20 <= s.start
      <4> SUFFICES ASSUME NEW s \in reads, s.start <= 73, s.start # r.start
                   PROVE  s.start + 20 <= r.start \/ r.start + 20 <= s.start
        OBVIOUS
      <4>1. r.start \in Nat /\ s.start \in Nat /\ r.start <= 73
        <5>1. s.start \in Nat
          BY <1>1
        <5> QED
          BY <2>1, <5>1
      <4>2. r.start < s.start \/ s.start < r.start
        BY <4>1
      <4> QED
        BY <1>4, <4>1, <4>2
    <3> QED
      BY <1>8, <2>1, <3>1
  <2>2. CASE r.start \in 78 .. 81
    BY <1>4, <1>9, <2>2
  <2> QED
    BY <1>1, <2>1, <2>2
<1> QED
  BY <1>8, <1>9, <1>10

\* README.md:156-162: of the 46 registers of the map an EM340 polls 42, in five
\* requests, since a request takes 20 words (batch.py:22).
THEOREM PollAsDocumented ==
    ASSUME MaximumLength = 20
    PROVE  DeviceSpec => []DocumentedPoll
<1>1. PlanInv => DocumentedPoll
  <2> SUFFICES ASSUME PlanInv, Ready, series = "EM340"
               PROVE  DocumentedPoll
    BY DEF DocumentedPoll
  <2>1. registers = Narrowed("EM340") /\ wanted = (0 .. 73) \cup (78 .. 81)
    BY WordsOfEM340 DEF PlanInv
  <2>2. {r.start : r \in reads} = {0, 20, 40, 60, 78}
    BY <2>1, StartsOfEM340 DEF PlanInv, Ready
  <2> DEFINE start == [i \in 1 .. 5 |-> IF i = 5 THEN 78 ELSE 20 * (i - 1)]
             f == [i \in 1 .. 5 |-> CHOOSE r \in reads : r.start = start[i]]
  <2>3. /\ \A i \in 1 .. 5 : start[i] \in {r.start : r \in reads}
        /\ \A i, j \in 1 .. 5 : start[i] = start[j] => i = j
        /\ \A r \in reads : \E i \in 1 .. 5 : start[i] = r.start
    <3>1. start[1] = 0 /\ start[2] = 20 /\ start[3] = 40 /\ start[4] = 60 /\ start[5] = 78
      OBVIOUS
    <3> HIDE DEF start
    <3> QED
      BY <2>2, <3>1
  <2>4. \A i \in 1 .. 5 : f[i] \in reads /\ f[i].start = start[i]
    BY <2>3
  <2>5. \A r, s \in reads : r.start = s.start => r = s
    <3> SUFFICES ASSUME NEW r \in reads, NEW s \in reads, r.start = s.start
                 PROVE  r = s
      OBVIOUS
    <3>1. r.start \in Words(r) /\ r.start \in Words(s)
      BY SplitAssumption DEF PlanInv, LoopInv, TypeOK, RequestsFitFrame, Words
    <3> QED
      BY <3>1 DEF PlanInv, LoopInv, RequestsAreDisjoint
  <2> HIDE DEF start
  <2>6. f \in [1 .. 5 -> reads]
    BY <2>4
  <2> HIDE DEF f
  <2>7. \A i, j \in 1 .. 5 : f[i] = f[j] => i = j
    BY <2>3, <2>4
  <2>8. \A r \in reads : \E i \in 1 .. 5 : f[i] = r
    BY <2>3, <2>4, <2>5
  <2>9. f \in Bijection(1 .. 5, reads)
    BY <2>6, <2>7, <2>8 DEF Bijection, Injection, Surjection, IsInjective
  <2>10. Cardinality(reads) = 5
    BY <2>9, Numbered
  <2> QED
    BY <2>1, <2>10, RegistersCounted DEF DocumentedPoll
<1> QED
  BY <1>1, PlanIsOfTheRegisters, PTL
=============================================================================
