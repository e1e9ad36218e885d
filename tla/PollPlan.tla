------------------------------ MODULE PollPlan ------------------------------
(***************************************************************************)
(* What one device object polls and shows (api/device.py, sensor.py): the  *)
(* constructor plans the reads of the full register map, identify narrows  *)
(* the map to the series and plans again, every poll reads the plan and    *)
(* decodes what it got, and after the first one the sensors are made.      *)
(* The planning itself is SplitAddresses, step by step, which this module  *)
(* extends: Init, Next and TypeOK are the planner's, DeviceInit,           *)
(* DeviceNext and DeviceTypeOK the whole device's.  BuggyReplan is a       *)
(* mistake no action makes, to show that a property would notice it.       *)
(***************************************************************************)
EXTENDS RegisterMap, SplitAddresses

VARIABLES
    series,      \* the series identify settled on
    identified,  \* identify has run
    registers,   \* Em300Device.registers
    decoded,     \* the registers whose values the last poll returned
    sensors      \* the registers for which there is a sensor

deviceVars == <<series, identified, registers, decoded, sensors, vars>>

Narrowed(s) == {r \in EM300_REGISTERS : SupportedBy(r, s)}

\* What a device may ever have to plan for.
Plannable == {BatchWords(Narrowed(s)) : s \in Series \cup {NoSeries}}

ASSUME DeviceInputs == Inputs = Plannable

DeviceInit ==
    /\ series = NoSeries /\ identified = FALSE
    /\ registers = EM300_REGISTERS
    /\ decoded = {} /\ sensors = {}
    /\ Init
    /\ wanted = BatchWords(EM300_REGISTERS)

\* RegisterBatch.__init__, one step of split_addresses at a time.
Plan ==
    /\ Next
    /\ UNCHANGED <<series, identified, registers, decoded, sensors>>

BuggyReplan(narrowed) == UNCHANGED vars

\* A new RegisterBatch takes the place of the old one.
Replan(narrowed) ==
    /\ wanted' = BatchWords(narrowed)
    /\ todo' = wanted'
    /\ pc' = "start"
    /\ runStart' = 0 /\ runEnd' = 0 /\ offset' = 0
    /\ reads' = {}

\* 0 is no code of any meter: it stands for an unknown code and for a read
\* that failed, which identify treats alike.
Codes == DOMAIN CG_IDENTIFICATION_CODES \cup {0}

\* The series of the code, else the one an earlier setup remembered.
Settled(code, fallback) ==
    IF SeriesForIdentificationCode(code) = NoSeries THEN fallback
    ELSE SeriesForIdentificationCode(code)

\* A device identifies its meter once, before the first poll.
Identify ==
    /\ pc = "done" /\ ~identified
    /\ identified' = TRUE
    /\ \E code \in Codes, fallback \in Series \cup {NoSeries} :
          series' = Settled(code, fallback)
    /\ registers' = Narrowed(series')
    /\ Replan(registers')
    /\ UNCHANGED <<decoded, sensors>>

\* read_all: a register is decoded when each of its words was read.
ReadAll ==
    /\ pc = "done" /\ identified
    /\ decoded' = {r \in registers : Addresses(r) \subseteq Covered}
    /\ UNCHANGED <<series, identified, registers, sensors, vars>>

\* The platform is set up after the first refresh: a sensor for every register
\* that is described and polled.
AddSensors ==
    /\ decoded # {} /\ sensors = {}
    /\ sensors' = {r \in registers : r.address \in EM300_SENSOR_DESCRIPTIONS}
    /\ UNCHANGED <<series, identified, registers, decoded, vars>>

DeviceNext == Plan \/ Identify \/ ReadAll \/ AddSensors

DeviceSpec == DeviceInit /\ [][DeviceNext]_deviceVars

-----------------------------------------------------------------------------
(* Properties.                                                             *)

\* A request has room for an address of 16 bits.
WordAddresses == 0 .. \hFFFF

DeviceTypeOK ==
    /\ series \in Series \cup {NoSeries}
    /\ identified \in BOOLEAN
    /\ registers \subseteq EM300_REGISTERS
    /\ decoded \subseteq registers /\ sensors \subseteq registers
    /\ wanted \subseteq WordAddresses
    /\ TypeOK

Ready == identified /\ pc = "done"

\* A register of two words is read by one request: between two requests the
\* meter goes on measuring, and a value put together from two instants is
\* wrong in a way nobody would notice (batch.py:57-60, client.py:105-110).
\* Since requests do not overlap, the word 0x000B, which gives the
\* identification code when it is read alone (register_map.py:155-157), is
\* then never read alone by a poll.
RegistersReadWhole ==
    Ready => \A r \in registers :
                \E read \in reads : Addresses(r) \subseteq Words(read)

\* A poll asks for no word of a register the meter does not have, which would
\* fail the poll as a whole (device.py:106-110, register_map.py:18-22).
PollsOnlyItsOwn ==
    Ready => \A read \in reads : \A word \in Words(read) :
                \E r \in EM300_REGISTERS :
                    SupportedBy(r, series) /\ word \in Addresses(r)

\* Nothing that is polled goes unseen and no sensor stays without a value:
\* what every poll delivers is what the sensors show (device.py:166-169,
\* sensor.py:31-38, 57-62).
SensorsShowThePoll == sensors # {} => registers = sensors /\ decoded = sensors

\* README.md:156-162: an EM340 polls 42 of the 46 registers in five requests.
DocumentedPoll ==
    Ready /\ series = "EM340" =>
        /\ Cardinality(EM300_REGISTERS) = 46
        /\ Cardinality(registers) = 42
        /\ Cardinality(reads) = 5

-----------------------------------------------------------------------------
(* The inductive invariant.                                                *)

\* The plan is always one for the registers of the series, from its first step
\* on; what a poll delivers and what the sensors show, once there is any, are
\* those registers.
PlanInv ==
    /\ series \in Series \cup {NoSeries} /\ identified \in BOOLEAN
    /\ registers = Narrowed(series)
    /\ wanted = BatchWords(registers)
    /\ decoded # {} => Ready /\ decoded = registers
    /\ sensors # {} => decoded # {} /\ sensors = registers
    /\ TypeOK /\ LoopInv
    /\ MaximumLength % 2 = 0 => EvenInv

\* What Em300Device takes of the plan of a device: no register is read in two
\* requests, no word twice, no word of no register, and never the one word
\* that would be answered with the identification code.
PlanIsOneForTheDevice ==
    Ready =>
        /\ RegistersReadWhole
        /\ RequestsAreDisjoint
        /\ \A read \in reads :
              /\ Words(read) \subseteq UNION {Addresses(r) : r \in registers}
              /\ Words(read) # {\h0B}
=============================================================================
