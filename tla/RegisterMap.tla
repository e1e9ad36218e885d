---------------------------- MODULE RegisterMap ----------------------------
(***************************************************************************)
(* The curated register map (api/register_map.py, api/models.py) and the   *)
(* sensors described for it (entity_descriptions.py).  A register is known *)
(* by its address, which also stands for its name, the key of a sensor;    *)
(* value weights are left out, and data types are only their widths.       *)
(***************************************************************************)
EXTENDS Integers

NoSeries == "None"

Series == {"EM330", "EM331", "EM340", "EM341", "ET330", "ET340"}

ET_SERIES == {"ET330", "ET340"}

\* A definition called Buggy... is its successor with a mistake in it; nothing
\* uses one, they show that the properties would notice.
BuggyET_SERIES_AND_EM330 == ET_SERIES \cup {"EM340"}

ET_SERIES_AND_EM330 == ET_SERIES \cup {"EM330"}

Register(address, length, series, standalone) ==
    [address |-> address, length |-> length, series |-> series,
     standalone |-> standalone]

\* _i16 and _i32: registers of one and of two words.
Int16(address) == Register(address, 1, Series, FALSE)
Int32(address, series) == Register(address, 2, series, FALSE)

\* first, first + 2, ..., last
EverySecond(first, last) == {a \in first .. last : (a - first) % 2 = 0}

\* v_l1_n to var_sys, and pf_l1 to hz
Instantaneous ==
    {Int32(a, Series) : a \in EverySecond(\h00, \h2C)}
    \cup {Int16(a) : a \in \h2E .. \h33}

\* kwh_pos_tot to kvarh_neg_tot, with a hole before the last two
EnergiesAndDemand ==
    {Int32(a, Series) : a \in EverySecond(\h34, \h48) \cup {\h4E, \h50}}

\* run_hour_meter, and kwh_neg_l1 to kwh_neg_l3
OnSomeSeries ==
    {Int32(\h5A, ET_SERIES_AND_EM330)}
    \cup {Int32(a, ET_SERIES) : a \in {\h60, \h62, \h64}}

\* The registers polled on every update.
EM300_REGISTERS == Instantaneous \cup EnergiesAndDemand \cup OnSomeSeries

\* The sensors there may be, by the registers they are named after and in the
\* sections of the source.
SystemAggregates == EverySecond(\h24, \h2C) \cup {\h31, \h33}
EnergyTotalizers == {\h34, \h36, \h4E, \h50}
BuggyDemandAndPhases == {\h38, \h3A} \cup EverySecond(\h00, \h22)
DemandAndPhases == {\h38, \h3A} \cup EverySecond(\h00, \h22) \cup \h2E .. \h30
EnergyMeters == EverySecond(\h3C, \h48) \cup EverySecond(\h60, \h64)
Diagnostics == {\h5A, \h32}

EM300_SENSOR_DESCRIPTIONS ==
    SystemAggregates \cup EnergyTotalizers \cup DemandAndPhases
    \cup EnergyMeters \cup Diagnostics

CG_IDENTIFICATION_CODES ==
    [code \in {331, 332, 335, 336, 340, 341, 345, 346, 355} |->
        CASE code \in {331, 332} -> "EM330"
          [] code \in {335, 336} -> "ET330"
          [] code \in {340, 341} -> "EM340"
          [] code = 345 -> "ET340"
          [] code = 346 -> "EM341"
          [] code = 355 -> "EM331"]

\* series_for_identification_code; a code that could not be read is none of
\* the known ones.
SeriesForIdentificationCode(code) ==
    IF code \in DOMAIN CG_IDENTIFICATION_CODES
    THEN CG_IDENTIFICATION_CODES[code] ELSE NoSeries

Addresses(register) ==
    register.address .. (register.address + register.length - 1)

\* A meter that was not identified is taken to have every register.
SupportedBy(register, series) ==
    series = NoSeries \/ series \in register.series

BuggyBatchWords(registers) ==
    {r.address : r \in {s \in registers : ~s.standalone}}

\* The words of a RegisterBatch: all the words its registers span.
BatchWords(registers) ==
    UNION {Addresses(r) : r \in {s \in registers : ~s.standalone}}
=============================================================================
