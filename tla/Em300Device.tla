----------------------------- MODULE Em300Device -----------------------------
(***************************************************************************)
(* One device object and the meter behind it (api/device.py, api/utils.py, *)
(* sensor.py): identify, then polls that read the plan request by request  *)
(* while the meter goes on measuring, and decode what came in.             *)
(*                                                                         *)
(* A request returns the words the meter has at one instant or raises,     *)
(* which is what ModbusClient provides; the plan keeps registers whole,    *)
(* which PollPlanProofs shows of the real one.  Words are as wide as       *)
(* WordBase says and values are the raw integers, before the value weight. *)
(***************************************************************************)
EXTENDS Integers, Sequences

CONSTANTS
    WordBase,            \* 2^16
    Registers,           \* the register map
    Totals,              \* those whose quantity only grows (_total)
    Series, NoSeries,
    SeriesForCode,       \* the series of each identification code, or none
    CodeAddress,         \* read alone, this word is the identification code
    IdentificationCode,  \* which for this meter is that
    Quantities,          \* what each register may measure
    PlanOf               \* RegisterBatch.reads of each set of registers

Addresses(r) == r.address .. (r.address + r.length - 1)

\* A register without series restriction carries all of them; a meter that was
\* not identified is taken to have every register.
SupportedBy(r, series) == series = NoSeries \/ series \in r.series

Narrowed(series) == {r \in Registers : SupportedBy(r, series)}

\* The bit that makes a value of a number of words negative.  The map has no
\* register of more than two words but the serial number.
SignBit(length) == (IF length = 1 THEN WordBase ELSE WordBase * WordBase) \div 2

InRange(r) ==
    IF r.signed THEN -SignBit(r.length) .. SignBit(r.length) - 1
    ELSE 0 .. 2 * SignBit(r.length) - 1

\* Each register is within one request, requests do not overlap, and they are
\* for words of the registers only.
KeepsWhole(plan, registers) ==
    /\ \A r \in registers : \E i \in DOMAIN plan : Addresses(r) \subseteq plan[i]
    /\ \A i, j \in DOMAIN plan : i # j => plan[i] \cap plan[j] = {}
    /\ \A i \in DOMAIN plan : plan[i] \subseteq UNION {Addresses(r) : r \in registers}

ASSUME DeviceAssumption ==
    /\ WordBase \in Nat \ {0} /\ WordBase % 2 = 0
    /\ Registers \subseteq [address : Nat, length : {1, 2}, signed : BOOLEAN,
                            series : SUBSET Series]
    /\ \A r, s \in Registers : r # s => Addresses(r) \cap Addresses(s) = {}
    /\ Totals \subseteq Registers
    /\ NoSeries \notin Series
    /\ SeriesForCode \in [0 .. WordBase - 1 -> Series \cup {NoSeries}]
    /\ CodeAddress \in Nat /\ IdentificationCode \in 0 .. WordBase - 1
    /\ \A r \in Registers : Addresses(r) # {CodeAddress}
    /\ \A r \in Registers : Quantities[r] \subseteq InRange(r)
    /\ PlanOf \in [{Narrowed(s) : s \in Series \cup {NoSeries}} -> Seq(SUBSET Nat) \ {<<>>}]
    /\ \A registers \in DOMAIN PlanOf :
          /\ KeepsWhole(PlanOf[registers], registers)
          /\ \A i \in DOMAIN PlanOf[registers] : PlanOf[registers][i] # {CodeAddress}

VARIABLES
    quantity,   \* what the meter measures now
    pc,         \* "new", at a read of identify, "ready" or in a "poll"
    remembered, \* the fallback_series argument of identify
    series,     \* the series it settles on
    registers,  \* Em300Device.registers
    next,       \* the request of the plan a poll is at
    words,      \* the words it has read
    window,     \* each quantity since the poll began (history)
    data,       \* the coordinator's data
    current     \* last_update_success

meter == <<quantity, window>>
identity == <<remembered, series, registers>>
vars == <<meter, pc, identity, next, words, data, current>>

Stages == {"new", "code", "serial", "firmware", "ready", "poll"}

Measurable == UNION {Quantities[r] : r \in Registers}

TypeOK ==
    /\ quantity \in [Registers -> Measurable]
    /\ \A r \in Registers : quantity[r] \in Quantities[r]
    /\ pc \in Stages
    /\ remembered \in Series \cup {NoSeries} /\ series \in Series \cup {NoSeries}
    /\ registers \in DOMAIN PlanOf
    /\ next \in 1 .. Len(PlanOf[registers])
    /\ words \in [DOMAIN words -> 0 .. WordBase - 1]
    /\ window \in [Registers -> SUBSET Measurable]
    /\ \A r \in Registers : window[r] \subseteq Quantities[r]
    /\ DOMAIN data \subseteq Registers
    /\ \A r \in DOMAIN data : data[r] \in InRange(r)
    /\ current \in BOOLEAN

Init ==
    /\ quantity \in [Registers -> Measurable]
    /\ \A r \in Registers : quantity[r] \in Quantities[r]
    /\ window = [r \in Registers |-> {}]
    /\ pc = "new"
    /\ remembered \in Series \cup {NoSeries}
    /\ series = NoSeries /\ registers = Registers
    /\ next = 1 /\ words = <<>>
    /\ data = <<>> /\ current = FALSE

-----------------------------------------------------------------------------
(* The meter and its words.                                                *)

\* The word at place i of a quantity: two's complement, the least significant
\* word first.
WireWord(q, i) == (IF i = 0 THEN q ELSE q \div WordBase) % WordBase

RegisterAt(a) == CHOOSE r \in Registers : a \in Addresses(r)

\* The answer to a request: the identification code if its word is read alone,
\* else the measurements of the moment.
Sample(read) ==
    [a \in read |->
        IF read = {CodeAddress} THEN IdentificationCode
        ELSE WireWord(quantity[RegisterAt(a)], a - RegisterAt(a).address)]

\* The meter goes on measuring.
Measure(r) ==
    /\ \E q \in Quantities[r] :
          /\ r \in Totals => q = quantity[r] + 1
          /\ quantity' = [quantity EXCEPT ![r] = q]
          /\ window' = [window EXCEPT ![r] = IF pc = "poll" THEN @ \cup {q} ELSE @]
    /\ UNCHANGED <<pc, identity, next, words, data, current>>

-----------------------------------------------------------------------------
(* Decoding (api/utils.py).  A definition called Buggy... is its successor *)
(* with a mistake in it; no action uses one.                               *)

BuggySignBitOf(r) == SignBit(1)

SignBitOf(r) == SignBit(r.length)

ToSigned(value, signBit) ==
    (value % signBit) - ((value \div signBit) % 2) * signBit

BuggyAssemble(r, ws) ==
    IF r.length = 1 THEN ws[r.address]
    ELSE ws[r.address] * WordBase + ws[r.address + 1]

\* Words arrive least significant first.
Assemble(r, ws) ==
    IF r.length = 1 THEN ws[r.address]
    ELSE ws[r.address] + ws[r.address + 1] * WordBase

DecodeRegister(r, ws) ==
    IF r.signed THEN ToSigned(Assemble(r, ws), SignBitOf(r)) ELSE Assemble(r, ws)

\* Registers of which a word is missing are left out.
DecodeRegisters(rs, ws) ==
    [r \in {r \in rs : Addresses(r) \subseteq DOMAIN ws} |-> DecodeRegister(r, ws)]

-----------------------------------------------------------------------------
(* identify: three reads, each tolerated on failure.                       *)

Identify ==
    /\ pc = "new"
    /\ pc' = "code"
    /\ UNCHANGED <<meter, identity, next, words, data, current>>

BuggyCodeRead == {CodeAddress - 1, CodeAddress}

\* read_holding_register: a word at a time.
CodeRead == {CodeAddress}

\* The series of the code, else the one an earlier setup remembered.  It is a
\* local variable until identify ends.
ReadCode ==
    /\ pc = "code"
    /\ \E found \in {NoSeries, SeriesForCode[Sample(CodeRead)[CodeAddress]]} :
          series' = IF found = NoSeries THEN remembered ELSE found
    /\ pc' = "serial"
    /\ UNCHANGED <<meter, remembered, registers, next, words, data, current>>

ReadSerialNumber ==
    /\ pc = "serial"
    /\ pc' = "firmware"
    /\ UNCHANGED <<meter, identity, next, words, data, current>>

\* The last read; then the register set and the plan are replaced.
ReadFirmware ==
    /\ pc = "firmware"
    /\ pc' = "ready"
    /\ registers' = Narrowed(series)
    /\ UNCHANGED <<meter, remembered, series, next, words, data, current>>

-----------------------------------------------------------------------------
(* Polls.                                                                  *)

PollStart ==
    /\ pc = "ready"
    /\ pc' = "poll"
    /\ window' = [r \in Registers |-> {quantity[r]}]
    /\ next' = 1 /\ words' = <<>>
    /\ UNCHANGED <<quantity, identity, data, current>>

Merged(old, new) ==
    [a \in DOMAIN old \cup DOMAIN new |-> IF a \in DOMAIN new THEN new[a] ELSE old[a]]

BuggyIsLast == next > Len(PlanOf[registers])

IsLast == next = Len(PlanOf[registers])

\* A request of read_batch.
ReadNext ==
    /\ pc = "poll" /\ ~IsLast
    /\ words' = Merged(words, Sample(PlanOf[registers][next]))
    /\ next' = next + 1
    /\ UNCHANGED <<meter, pc, identity, data, current>>

\* The last request: the words are decoded and given to the sensors.
ReadLast ==
    /\ pc = "poll" /\ IsLast
    /\ data' = DecodeRegisters(registers, Merged(words, Sample(PlanOf[registers][next])))
    /\ current' = TRUE
    /\ pc' = "ready" /\ next' = 1 /\ words' = <<>>
    /\ UNCHANGED <<meter, identity>>

\* A request raises: what was read before it is dropped.  The reconnect that may
\* follow is in Em300Entry.
PollFails ==
    /\ pc = "poll"
    /\ current' = FALSE
    /\ pc' = "ready" /\ next' = 1 /\ words' = <<>>
    /\ UNCHANGED <<meter, identity, data>>

Next ==
    \/ \E r \in Registers : Measure(r)
    \/ Identify \/ ReadCode \/ ReadSerialNumber \/ ReadFirmware
    \/ PollStart \/ ReadNext \/ ReadLast \/ PollFails

Spec == Init /\ [][Next]_vars

-----------------------------------------------------------------------------
(* Properties.                                                             *)

\* A device polls as the series its meter names or as the one remembered: the
\* word that doubles as a voltage is never taken for the code
\* (device.py:87-90, 122-127, register_map.py:155-163).
SeriesIsTheMeters ==
    pc \in {"ready", "poll"} =>
        /\ series \in {remembered, SeriesForCode[IdentificationCode]}
        /\ registers = Narrowed(series)

\* Each value a poll delivers is one the meter measured during that poll: no
\* value is put together from two instants, from words in the wrong order or
\* with the wrong sign (utils.py:37-40, 61-92, device.py:166-169).
DataIsTrue ==
    [][current' /\ pc = "poll" /\ pc' = "ready" =>
          \A r \in registers : r \in DOMAIN data' /\ data'[r] \in window[r]]_vars

\* A totalizer never shows less than it did before, over failed polls too: the
\* statistics would take it for a reset (entity_descriptions.py:52-72).
TotalsNeverFall ==
    [][\A r \in Totals : r \in DOMAIN data \cap DOMAIN data' => data'[r] >= data[r]]_vars
-----------------------------------------------------------------------------
(* The inductive invariants behind the properties.                         *)

\* The code is read first and the register set replaced last.
IdentityInv ==
    /\ pc \in {"serial", "firmware", "ready", "poll"} =>
          series \in {remembered, SeriesForCode[IdentificationCode]}
    /\ pc \in {"ready", "poll"} => registers = Narrowed(series)
    /\ pc # "poll" => next = 1

\* During a poll the words of each register that was read are those of one
\* quantity of that time.
WindowInv ==
    pc = "poll" =>
        /\ \A r \in Registers : quantity[r] \in window[r]
        /\ \A r \in registers, i \in 1 .. next - 1 :
              Addresses(r) \subseteq PlanOf[registers][i] =>
                 \E q \in window[r] : \A a \in Addresses(r) :
                    a \in DOMAIN words /\ words[a] = WireWord(q, a - r.address)

\* What a sensor shows of a totalizer is never ahead of the meter, nor of what
\* the poll under way began with.
TotalsInv ==
    \A r \in Totals :
        /\ r \in DOMAIN data => data[r] <= quantity[r]
        /\ pc = "poll" => \A q \in window[r] :
              q <= quantity[r] /\ (r \in DOMAIN data => data[r] <= q)
=============================================================================
