----------------------------- MODULE ConfigFlow -----------------------------
(***************************************************************************)
(* Adding, reconfiguring and removing meters (config_flow.py), and what    *)
(* the setups of the entries write back (__init__.py:76-95).               *)
(*                                                                         *)
(* Several flows may be open at once.  A flow is at its one long await,    *)
(* the probe, or not there; what follows the probe is one stretch of code. *)
(* A place is all of the connection settings that say where a meter is:    *)
(* port or host, and address.  Forms and menus are user interface; the     *)
(* other settings, names and firmware are carried along and not modelled.  *)
(***************************************************************************)
CONSTANTS
    Entries, NoEntry,   \* names for config entries
    Flows,              \* names for config flows open at one time
    Places, NoPlace,
    Meters, NoMeter,
    Serials, NoSerial, SerialOf,   \* what each meter's serial number block says
    Series, NoSeries, SeriesOf,    \* the series its identification code names
    Faults              \* the faults that may happen

\* "serial"  the read of the serial number fails once
\* "code"    the read of the identification code fails once
\* "silent"  a connection opens although no meter answers at the place
FaultKinds == {"serial", "code", "silent"}

ASSUME FlowAssumption ==
    /\ NoEntry \notin Entries /\ NoPlace \notin Places /\ NoMeter \notin Meters
    /\ NoSerial \notin Serials /\ NoSeries \notin Series
    /\ Serials \cap Places = {}
    /\ NoEntry \notin Serials \cup Places
    /\ SerialOf \in [Meters -> Serials \cup {NoSerial}]
    /\ SeriesOf \in [Meters -> Series \cup {NoSeries}]
    /\ Faults \subseteq FaultKinds

VARIABLES
    meterAt,  \* the meter that answers at each place
    uid,      \* unique_id of each entry, NoEntry while there is none
    place,    \* the connection settings in entry.data
    serial,   \* entry.data[CONF_SERIAL_NUMBER]
    series,   \* entry.data[CONF_SERIES]
    flow,     \* the place each flow is probing, and the entry it is for
    phase,    \* each entry: "off", in "setup" before identify, then in
              \* "identify", or "loaded"
    client,   \* the place the client of its running setup was built for
    fallback, \* the series that identify was given, from entry.data
    stale     \* a reload is waiting for the setup lock

data == <<uid, place, serial, series>>
loading == <<phase, client, fallback, stale>>
vars == <<meterAt, data, flow, loading>>

Ids == Serials \cup Places
Idle == [place |-> NoPlace, entry |-> NoEntry]

Exists(e) == uid[e] # NoEntry
InSetup(e) == phase[e] \in {"setup", "identify"}

TypeOK ==
    /\ meterAt \in [Places -> Meters \cup {NoMeter}]
    /\ uid \in [Entries -> Ids \cup {NoEntry}]
    /\ place \in [Entries -> Places \cup {NoPlace}]
    /\ serial \in [Entries -> Serials \cup {NoSerial}]
    /\ series \in [Entries -> Series \cup {NoSeries}]
    /\ flow \in [Flows -> [place : Places \cup {NoPlace},
                           entry : Entries \cup {NoEntry}]]
    /\ phase \in [Entries -> {"off", "setup", "identify", "loaded"}]
    /\ client \in [Entries -> Places \cup {NoPlace}]
    /\ fallback \in [Entries -> Series \cup {NoSeries}]
    /\ stale \in [Entries -> BOOLEAN]

Init ==
    /\ meterAt \in [Places -> Meters \cup {NoMeter}]
    /\ uid = [e \in Entries |-> NoEntry]
    /\ place = [e \in Entries |-> NoPlace]
    /\ serial = [e \in Entries |-> NoSerial]
    /\ series = [e \in Entries |-> NoSeries]
    /\ flow = [f \in Flows |-> Idle]
    /\ phase = [e \in Entries |-> "off"]
    /\ client = [e \in Entries |-> NoPlace]
    /\ fallback = [e \in Entries |-> NoSeries]
    /\ stale = [e \in Entries |-> FALSE]

-----------------------------------------------------------------------------
(* Reading a meter's identity: each read is tolerated on failure.          *)

SerialReads(m) ==
    {SerialOf[m]} \cup (IF "serial" \in Faults THEN {NoSerial} ELSE {})
CodeReads(m) ==
    {SeriesOf[m]} \cup (IF "code" \in Faults THEN {NoSeries} ELSE {})

\* What _async_probe may return for a place.  With nobody there connect()
\* raises, unless a port or a gateway accepts the connection all the same:
\* then every read fails and identify() still returns.
Infos(p) ==
    IF meterAt[p] # NoMeter
      THEN [serial : SerialReads(meterAt[p]), series : CodeReads(meterAt[p])]
      ELSE IF "silent" \in Faults
             THEN {[serial |-> NoSerial, series |-> NoSeries]} ELSE {}

-----------------------------------------------------------------------------
(* The flow.  A definition called Buggy... is its successor with a mistake *)
(* in it; no action uses one.                                              *)

\* The user submits the form of a flow that adds a meter.
SubmitAdd(f, p) ==
    /\ flow[f] = Idle
    /\ flow' = [flow EXCEPT ![f] = [place |-> p, entry |-> NoEntry]]
    /\ UNCHANGED <<meterAt, data, loading>>

\* The user submits the form of a flow that reconfigures an entry.
SubmitReconfigure(f, e, p) ==
    /\ flow[f] = Idle /\ Exists(e)
    /\ flow' = [flow EXCEPT ![f] = [place |-> p, entry |-> e]]
    /\ UNCHANGED <<meterAt, data, loading>>

Adding(f) == flow[f] # Idle /\ flow[f].entry = NoEntry
Reconfiguring(f) == flow[f].entry # NoEntry
EndFlow(f) == flow' = [flow EXCEPT ![f] = Idle]

\* The probe raises: the form comes back with an error.
ProbeFails(f) ==
    /\ flow[f] # Idle
    /\ EndFlow(f)
    /\ UNCHANGED <<meterAt, data, loading>>

BuggyUniqueId(info, p) == info.serial

BuggyPlaceId(info, p) == p

\* The serial number, else where the meter lives.
UniqueId(info, p) == IF info.serial # NoSerial THEN info.serial ELSE p

BuggyConfigured(new) == FALSE

\* _abort_if_unique_id_configured
Configured(new) == \E e \in Entries : uid[e] = new

\* async_create_entry; Home Assistant sets the new entry up at once.
CreateEntry(f, e) ==
    /\ Adding(f) /\ ~Exists(e)
    /\ \E info \in Infos(flow[f].place) :
          /\ ~Configured(UniqueId(info, flow[f].place))
          /\ uid' = [uid EXCEPT ![e] = UniqueId(info, flow[f].place)]
          /\ serial' = [serial EXCEPT ![e] = info.serial]
          /\ series' = [series EXCEPT ![e] = info.series]
    /\ place' = [place EXCEPT ![e] = flow[f].place]
    /\ phase' = [phase EXCEPT ![e] = "setup"]
    /\ client' = [client EXCEPT ![e] = flow[f].place]
    /\ EndFlow(f)
    /\ UNCHANGED <<meterAt, fallback, stale>>

\* The probe of a flow can return an identity that is taken.
TurnedAway(f) ==
    /\ Adding(f)
    /\ \E info \in Infos(flow[f].place) : Configured(UniqueId(info, flow[f].place))

AlreadyConfigured(f) ==
    /\ TurnedAway(f)
    /\ EndFlow(f)
    /\ UNCHANGED <<meterAt, data, loading>>

BuggyRightMeter(e, info) ==
    NoSerial \in {serial[e], info.serial} \/ serial[e] = info.serial

\* The check at config_flow.py:319.
RightMeter(e, info) == serial[e] \in {NoSerial, info.serial}

WrongMeter(f) ==
    /\ Reconfiguring(f)
    /\ \E info \in Infos(flow[f].place) : ~RightMeter(flow[f].entry, info)
    /\ EndFlow(f)
    /\ UNCHANGED <<meterAt, data, loading>>

BuggyScheduleReload(e) == UNCHANGED stale

\* async_update_reload_and_abort: the entry is reloaded.
ScheduleReload(e) == stale' = [stale EXCEPT ![e] = TRUE]

\* The connection settings and all that the probe found replace what the
\* entry had; the unique id stays.
UpdateEntry(f) ==
    /\ Reconfiguring(f)
    /\ \E info \in Infos(flow[f].place) :
          /\ RightMeter(flow[f].entry, info)
          /\ serial' = [serial EXCEPT ![flow[f].entry] = info.serial]
          /\ series' = [series EXCEPT ![flow[f].entry] = info.series]
    /\ place' = [place EXCEPT ![flow[f].entry] = flow[f].place]
    /\ ScheduleReload(flow[f].entry)
    /\ EndFlow(f)
    /\ UNCHANGED <<meterAt, uid, phase, client, fallback>>

-----------------------------------------------------------------------------
(* The entries' setups, as far as they read and write the entry's data.    *)

\* A setup begins, for a reload or a retry or when Home Assistant starts; the
\* client is built from the settings of the moment.
BeginSetup(e) ==
    /\ Exists(e) /\ ~InSetup(e)
    /\ phase' = [phase EXCEPT ![e] = "setup"]
    /\ client' = [client EXCEPT ![e] = place[e]]
    /\ stale' = [stale EXCEPT ![e] = FALSE]
    /\ UNCHANGED <<meterAt, data, flow, fallback>>

\* It is connected: identify begins, given the series the entry has by now.
BeginIdentify(e) ==
    /\ phase[e] = "setup"
    /\ phase' = [phase EXCEPT ![e] = "identify"]
    /\ fallback' = [fallback EXCEPT ![e] = series[e]]
    /\ UNCHANGED <<meterAt, data, flow, client, stale>>

\* _async_remember_series: what identify returns, the series read or else its
\* fallback, goes into the entry as it is now.
Remember(e, read) ==
    LET found == IF read # NoSeries THEN read ELSE fallback[e]
    IN  series' = IF found = NoSeries THEN series ELSE [series EXCEPT ![e] = found]

\* identify returns, whatever could be read, and the setup goes on to load the
\* entry or to fail.
EndSetup(e) ==
    /\ phase[e] = "identify"
    /\ IF meterAt[client[e]] = NoMeter
         THEN Remember(e, NoSeries)
         ELSE \E read \in CodeReads(meterAt[client[e]]) : Remember(e, read)
    /\ \E outcome \in {"loaded", "off"} : phase' = [phase EXCEPT ![e] = outcome]
    /\ client' = [client EXCEPT ![e] = NoPlace]
    /\ fallback' = [fallback EXCEPT ![e] = NoSeries]
    /\ UNCHANGED <<meterAt, uid, place, serial, flow, stale>>

\* The setup fails before it has written anything.
SetupFails(e) ==
    /\ InSetup(e)
    /\ phase' = [phase EXCEPT ![e] = "off"]
    /\ client' = [client EXCEPT ![e] = NoPlace]
    /\ fallback' = [fallback EXCEPT ![e] = NoSeries]
    /\ UNCHANGED <<meterAt, data, flow, stale>>

-----------------------------------------------------------------------------
(* The user and the wiring.                                                *)

\* An entry is removed; the flows that reconfigure it are aborted.
Remove(e) ==
    /\ Exists(e) /\ ~InSetup(e)
    /\ uid' = [uid EXCEPT ![e] = NoEntry]
    /\ place' = [place EXCEPT ![e] = NoPlace]
    /\ serial' = [serial EXCEPT ![e] = NoSerial]
    /\ series' = [series EXCEPT ![e] = NoSeries]
    /\ phase' = [phase EXCEPT ![e] = "off"]
    /\ stale' = [stale EXCEPT ![e] = FALSE]
    /\ flow' = [f \in Flows |-> IF flow[f].entry = e THEN Idle ELSE flow[f]]
    /\ UNCHANGED <<meterAt, client, fallback>>

Unplug(p) ==
    /\ meterAt' = [meterAt EXCEPT ![p] = NoMeter]
    /\ UNCHANGED <<data, flow, loading>>

\* A meter, or a gateway with a meter behind it, gets a place that no entry
\* points to: nobody swaps the meter under an entry.
Plug(p, m) ==
    /\ meterAt[p] = NoMeter
    /\ \A e \in Entries : place[e] # p
    /\ meterAt' = [meterAt EXCEPT ![p] = m]
    /\ UNCHANGED <<data, flow, loading>>

Next ==
    \/ \E f \in Flows :
          \/ \E p \in Places : SubmitAdd(f, p)
          \/ \E e \in Entries, p \in Places : SubmitReconfigure(f, e, p)
          \/ \E e \in Entries : CreateEntry(f, e)
          \/ ProbeFails(f) \/ AlreadyConfigured(f) \/ WrongMeter(f) \/ UpdateEntry(f)
    \/ \E e \in Entries :
          \/ BeginSetup(e) \/ BeginIdentify(e) \/ EndSetup(e) \/ SetupFails(e)
          \/ Remove(e)
    \/ \E p \in Places :
          Unplug(p) \/ \E m \in Meters : Plug(p, m)

Spec == Init /\ [][Next]_vars

-----------------------------------------------------------------------------
(* Properties.                                                             *)

\* The meter an entry was made for: the one with its serial number or, when it
\* knows none, the one where it points.
IsFor(e, m) ==
    /\ Exists(e)
    /\ IF serial[e] # NoSerial THEN SerialOf[m] = serial[e] ELSE meterAt[place[e]] = m

\* config_flow.py:273-275: the same meter cannot be added twice, whatever the
\* flows that are open at one time and wherever it is moved in between.
OneEntryPerMeter ==
    \A e, f \in Entries, m \in Meters : IsFor(e, m) /\ IsFor(f, m) => e = f

\* config_flow.py:273-275, 332-343: a meter is turned away as configured only
\* when there is an entry for it.
RefusedOnlyIfConfigured ==
    \A f \in Flows : TurnedAway(f) =>
        \E e \in Entries : IsFor(e, meterAt[flow[f].place])

\* README.md:30-33: a series once identified is not forgotten while there is
\* the entry.
NothingForgotten ==
    [][\A e \in Entries :
          Exists(e) /\ Exists(e)' /\ series[e] # NoSeries => series'[e] # NoSeries]_vars

\* __init__.py:76-95 with config_flow.py:328-330: a loaded entry no reload is
\* waiting for has the series of the meter it points to, although setups and
\* reconfigurations write to the entry in any order.
SeriesOfMeter ==
    \A e \in Entries :
        phase[e] = "loaded" /\ ~stale[e] /\ meterAt[place[e]] # NoMeter
            => series[e] = SeriesOf[meterAt[place[e]]]

Registry == INSTANCE EntryRegistry WITH id <- uid, NoId <- NoEntry

\* config_flow.py:298-330: an entry keeps its unique id for life and shares it
\* with no other, and the serial number it has learned is never replaced or
\* forgotten, whatever fails.
KeepsRegistry == Registry!Spec
-----------------------------------------------------------------------------
(* The inductive invariants behind the properties.                         *)

\* Holds whatever the faults: only entries that exist have data, and flows
\* and setups work on entries that exist.
BaseInv ==
    /\ TypeOK
    /\ \A e \in Entries :
          IF Exists(e) THEN place[e] # NoPlace
          ELSE serial[e] = NoSerial /\ ~InSetup(e)
    /\ \A e \in Entries : InSetup(e) => client[e] # NoPlace
    /\ \A f \in Flows :
          /\ flow[f].entry # NoEntry => Exists(flow[f].entry)
          /\ flow[f] # Idle => flow[f].place # NoPlace

\* Holds when serial numbers are always there to be read: they are the ids.
IdentityInv ==
    /\ BaseInv
    /\ \A e \in Entries : Exists(e) => serial[e] # NoSerial /\ uid[e] = serial[e]
    /\ \A e, f \in Entries : Exists(e) /\ uid[e] = uid[f] => e = f

\* Behind SeriesOfMeter: a setup that is not to be repeated reads the meter the
\* entry points to.
SeriesInv ==
    /\ BaseInv
    /\ SeriesOfMeter
    /\ \A e \in Entries :
          /\ phase[e] = "loaded" => Exists(e)
          /\ InSetup(e) /\ ~stale[e] => client[e] = place[e]
=============================================================================
