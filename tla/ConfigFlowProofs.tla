-------------------------- MODULE ConfigFlowProofs --------------------------
(***************************************************************************)
(* Adding and reconfiguring keeps identities, for any number of meters,    *)
(* places, entries and open flows (config_flow.py:215-343).                *)
(***************************************************************************)
EXTENDS ConfigFlow, TLAPS

\* What a probe returns is a serial number and a series, or none.
LEMMA InfoTypes ==
    ASSUME TypeOK, NEW p \in Places, NEW info \in Infos(p)
    PROVE  /\ info.serial \in Serials \cup {NoSerial}
           /\ info.series \in Series \cup {NoSeries}
           /\ UniqueId(info, p) \in Ids
<1>1. ASSUME NEW m \in Meters
      PROVE  /\ SerialReads(m) \subseteq Serials \cup {NoSerial}
             /\ CodeReads(m) \subseteq Series \cup {NoSeries}
  BY FlowAssumption DEF SerialReads, CodeReads
<1>2. CASE meterAt[p] # NoMeter
  <2>1. meterAt[p] \in Meters
    BY <1>2 DEF TypeOK
  <2>2. info \in [serial : SerialReads(meterAt[p]), series : CodeReads(meterAt[p])]
    BY <1>2 DEF Infos
  <2> QED
    BY <1>1, <2>1, <2>2 DEF UniqueId, Ids
<1>3. CASE meterAt[p] = NoMeter
  <2>1. info = [serial |-> NoSerial, series |-> NoSeries]
    BY <1>3 DEF Infos
  <2> QED
    BY <2>1 DEF UniqueId, Ids
<1> QED
  BY <1>2, <1>3

\* The place and the entry of a flow that is at its probe.
LEMMA FlowTypes ==
    ASSUME BaseInv, NEW f \in Flows
    PROVE  /\ flow[f] # Idle => flow[f].place \in Places
           /\ Adding(f) => flow[f].place \in Places
           /\ Reconfiguring(f) => /\ flow[f].entry \in Entries
                                  /\ Exists(flow[f].entry)
                                  /\ flow[f].place \in Places
<1>1. flow[f] \in [place : Places \cup {NoPlace}, entry : Entries \cup {NoEntry}]
  BY DEF BaseInv, TypeOK
<1>2. /\ flow[f] # Idle => flow[f].place # NoPlace
      /\ flow[f].entry # NoEntry => Exists(flow[f].entry)
  BY DEF BaseInv
<1>3. Reconfiguring(f) => flow[f] # Idle
  BY DEF Reconfiguring, Idle
<1> QED
  BY <1>1, <1>2, <1>3 DEF Adding, Reconfiguring

\* Ending a flow keeps what BaseInv says of flows.
LEMMA EndFlowKeeps ==
    ASSUME BaseInv, NEW f \in Flows, EndFlow(f)
    PROVE  /\ flow' \in [Flows -> [place : Places \cup {NoPlace},
                                   entry : Entries \cup {NoEntry}]]
           /\ \A g \in Flows : flow'[g] = flow[g] \/ flow'[g] = Idle
  BY DEF BaseInv, TypeOK, EndFlow, Idle

LEMMA BaseStep ==
    ASSUME BaseInv, [Next]_vars
    PROVE  BaseInv'
<1> USE FlowAssumption DEF BaseInv, TypeOK, Exists, InSetup
<1>1. ASSUME NEW f \in Flows, NEW p \in Places, SubmitAdd(f, p)
      PROVE  BaseInv'
  BY <1>1 DEF SubmitAdd, Idle, data, loading
<1>2. ASSUME NEW f \in Flows, NEW e \in Entries, NEW p \in Places,
             SubmitReconfigure(f, e, p)
      PROVE  BaseInv'
  BY <1>2 DEF SubmitReconfigure, Idle, data, loading
<1>3. ASSUME NEW f \in Flows, NEW e \in Entries, CreateEntry(f, e)
      PROVE  BaseInv'
  <2>1. PICK info \in Infos(flow[f].place) :
               /\ uid' = [uid EXCEPT ![e] = UniqueId(info, flow[f].place)]
               /\ serial' = [serial EXCEPT ![e] = info.serial]
               /\ series' = [series EXCEPT ![e] = info.series]
    BY <1>3 DEF CreateEntry
  <2>2. /\ flow[f].place \in Places
        /\ info.serial \in Serials \cup {NoSerial}
        /\ info.series \in Series \cup {NoSeries}
        /\ UniqueId(info, flow[f].place) \in Ids
    BY <1>3, FlowTypes, InfoTypes DEF CreateEntry
  <2>3. /\ flow' \in [Flows -> [place : Places \cup {NoPlace},
                                entry : Entries \cup {NoEntry}]]
        /\ \A g \in Flows : flow'[g] = flow[g] \/ flow'[g] = Idle
    BY <1>3, EndFlowKeeps DEF CreateEntry
  <2>4. TypeOK'
    BY <1>3, <2>1, <2>2, <2>3 DEF CreateEntry
  <2>5. UniqueId(info, flow[f].place) # NoEntry
    BY <2>2 DEF Ids
  <2>6. \A d \in Entries :
           IF Exists(d)' THEN place'[d] # NoPlace
           ELSE serial'[d] = NoSerial /\ ~InSetup(d)'
    BY <1>3, <2>1, <2>2, <2>5 DEF CreateEntry
  <2>7. \A d \in Entries : InSetup(d)' => client'[d] # NoPlace
    BY <1>3, <2>2 DEF CreateEntry
  <2>8. \A d \in Entries : Exists(d) => Exists(d)'
    BY <2>1, <2>5
  <2>9. \A g \in Flows :
           /\ flow'[g].entry # NoEntry => uid'[flow'[g].entry] # NoEntry
           /\ flow'[g] # Idle => flow'[g].place # NoPlace
    BY <2>3, <2>8 DEF Idle
  <2> QED
    BY <2>4, <2>6, <2>7, <2>9 DEF Idle
<1>4. ASSUME NEW f \in Flows, ProbeFails(f) \/ AlreadyConfigured(f) \/ WrongMeter(f)
      PROVE  BaseInv'
  <2>1. /\ flow' \in [Flows -> [place : Places \cup {NoPlace},
                                entry : Entries \cup {NoEntry}]]
        /\ \A g \in Flows : flow'[g] = flow[g] \/ flow'[g] = Idle
    BY <1>4, EndFlowKeeps DEF ProbeFails, AlreadyConfigured, WrongMeter
  <2>2. UNCHANGED <<meterAt, data, loading>>
    BY <1>4 DEF ProbeFails, AlreadyConfigured, WrongMeter
  <2> QED
    BY <2>1, <2>2 DEF data, loading, Idle
<1>5. ASSUME NEW f \in Flows, UpdateEntry(f)
      PROVE  BaseInv'
  <2>1. PICK info \in Infos(flow[f].place) :
               /\ serial' = [serial EXCEPT ![flow[f].entry] = info.serial]
               /\ series' = [series EXCEPT ![flow[f].entry] = info.series]
    BY <1>5 DEF UpdateEntry
  <2>2. /\ flow[f].place \in Places
        /\ flow[f].entry \in Entries /\ Exists(flow[f].entry)
        /\ info.serial \in Serials \cup {NoSerial}
        /\ info.series \in Series \cup {NoSeries}
    BY <1>5, FlowTypes, InfoTypes DEF UpdateEntry
  <2>3. /\ flow' \in [Flows -> [place : Places \cup {NoPlace},
                                entry : Entries \cup {NoEntry}]]
        /\ \A g \in Flows : flow'[g] = flow[g] \/ flow'[g] = Idle
    BY <1>5, EndFlowKeeps DEF UpdateEntry
  <2>4. TypeOK'
    BY <1>5, <2>1, <2>2, <2>3 DEF UpdateEntry, ScheduleReload
  <2>5. \A d \in Entries :
           IF Exists(d)' THEN place'[d] # NoPlace
           ELSE serial'[d] = NoSerial /\ ~InSetup(d)'
    BY <1>5, <2>1, <2>2 DEF UpdateEntry
  <2>6. \A g \in Flows :
           /\ flow'[g].entry # NoEntry => uid'[flow'[g].entry] # NoEntry
           /\ flow'[g] # Idle => flow'[g].place # NoPlace
    BY <1>5, <2>3 DEF UpdateEntry, Idle
  <2> QED
    BY <1>5, <2>4, <2>5, <2>6 DEF UpdateEntry, Idle
<1>6. ASSUME NEW e \in Entries, BeginSetup(e) \/ BeginIdentify(e)
      PROVE  BaseInv'
  <2>1. CASE BeginSetup(e)
    BY <2>1 DEF BeginSetup, data, Idle
  <2>2. CASE BeginIdentify(e)
    BY <2>2 DEF BeginIdentify, data, Idle
  <2> QED
    BY <1>6, <2>1, <2>2
<1>7. ASSUME NEW e \in Entries, EndSetup(e)
      PROVE  BaseInv'
  <2>1. client[e] \in Places /\ meterAt[client[e]] \in Meters \cup {NoMeter}
    BY <1>7 DEF EndSetup
  <2>2. series' \in [Entries -> Series \cup {NoSeries}]
    BY <1>7, <2>1 DEF EndSetup, Remember, CodeReads
  <2>3. PICK outcome \in {"loaded", "off"} : phase' = [phase EXCEPT ![e] = outcome]
    BY <1>7 DEF EndSetup
  <2> QED
    BY <1>7, <2>2, <2>3 DEF EndSetup, Idle
<1>8. ASSUME NEW e \in Entries, SetupFails(e)
      PROVE  BaseInv'
  BY <1>8 DEF SetupFails, data, Idle
<1>9. ASSUME NEW e \in Entries, Remove(e)
      PROVE  BaseInv'
  <2>1. \A g \in Flows : \/ flow'[g] = Idle
                         \/ flow'[g] = flow[g] /\ flow[g].entry # e
    BY <1>9 DEF Remove
  <2>2. TypeOK'
    BY <1>9 DEF Remove, Idle
  <2>3. \A d \in Entries : d # e => (Exists(d)' <=> Exists(d))
    BY <1>9 DEF Remove
  <2>4. \A g \in Flows :
           /\ flow'[g].entry # NoEntry => uid'[flow'[g].entry] # NoEntry
           /\ flow'[g] # Idle => flow'[g].place # NoPlace
    BY <2>1, <2>3 DEF Idle
  <2> QED
    BY <1>9, <2>2, <2>4 DEF Remove, Idle
<1>10. ASSUME NEW p \in Places, Unplug(p) \/ \E m \in Meters : Plug(p, m)
       PROVE  BaseInv'
  BY <1>10 DEF Unplug, Plug, data, loading, Idle
<1>11. CASE UNCHANGED vars
  BY <1>11 DEF vars, data, loading, Idle
<1> QED
  BY <1>1, <1>2, <1>3, <1>4, <1>5, <1>6, <1>7, <1>8, <1>9, <1>10, <1>11 DEF Next

\* Types and the ties between entries, flows and setups hold whatever fails.
THEOREM FlowInvariant == Spec => []BaseInv
<1>1. Init => BaseInv
  BY FlowAssumption DEF Init, BaseInv, TypeOK, Exists, InSetup, Idle
<1>2. BaseInv /\ [Next]_vars => BaseInv'
  BY BaseStep
<1> QED
  BY <1>1, <1>2, PTL DEF Spec

\* Type correctness of entries, flows and setups (config_flow.py:215-330).
THEOREM FlowTypeCorrect == Spec => []TypeOK
<1>1. BaseInv => TypeOK
  BY DEF BaseInv
<1> QED
  BY <1>1, FlowInvariant, PTL

\* Every step of a flow, a setup or the user is a step of the registry or
\* leaves ids and serial numbers alone.
LEMMA RegistryStep ==
    ASSUME BaseInv, [Next]_vars
    PROVE  [Registry!Next]_<<uid, serial>>
<1> USE FlowAssumption
<1>a. /\ uid \in [Entries -> Ids \cup {NoEntry}]
      /\ serial \in [Entries -> Serials \cup {NoSerial}]
  BY DEF BaseInv, TypeOK
<1>1. ASSUME NEW f \in Flows, NEW e \in Entries, CreateEntry(f, e)
      PROVE  Registry!Claim(e)
  <2>1. PICK info \in Infos(flow[f].place) :
               /\ ~Configured(UniqueId(info, flow[f].place))
               /\ uid' = [uid EXCEPT ![e] = UniqueId(info, flow[f].place)]
               /\ serial' = [serial EXCEPT ![e] = info.serial]
    BY <1>1 DEF CreateEntry
  <2>2. /\ UniqueId(info, flow[f].place) \in Ids
        /\ info.serial \in Serials \cup {NoSerial}
    BY <1>1, FlowTypes, InfoTypes DEF CreateEntry, BaseInv
  <2>3. uid[e] = NoEntry
    BY <1>1 DEF CreateEntry, Exists
  <2>4. \A d \in Entries : uid[d] # UniqueId(info, flow[f].place)
    BY <2>1 DEF Configured
  <2> QED
    BY <2>1, <2>2, <2>3, <2>4 DEF Registry!Claim
<1>2. ASSUME NEW f \in Flows, UpdateEntry(f)
      PROVE  Registry!Learn(flow[f].entry) \/ UNCHANGED <<uid, serial>>
  <2>1. PICK info \in Infos(flow[f].place) :
               /\ RightMeter(flow[f].entry, info)
               /\ serial' = [serial EXCEPT ![flow[f].entry] = info.serial]
    BY <1>2 DEF UpdateEntry
  <2>2. /\ flow[f].entry \in Entries
        /\ uid[flow[f].entry] # NoEntry
        /\ info.serial \in Serials \cup {NoSerial}
        /\ uid' = uid
    BY <1>2, FlowTypes, InfoTypes DEF UpdateEntry, BaseInv, Exists
  <2>3. CASE serial[flow[f].entry] = info.serial
    BY <2>1, <2>2, <2>3, <1>a
  <2>4. CASE serial[flow[f].entry] # info.serial
    <3>1. serial[flow[f].entry] = NoSerial /\ info.serial \in Serials
      BY <2>1, <2>2, <2>4 DEF RightMeter
    <3> QED
      BY <2>1, <2>2, <3>1 DEF Registry!Learn
  <2> QED
    BY <2>3, <2>4
<1>3. ASSUME NEW e \in Entries, Remove(e)
      PROVE  Registry!Release(e)
  BY <1>3 DEF Remove, Registry!Release
<1>4. ASSUME NEW f \in Flows,
             \/ \E p \in Places : SubmitAdd(f, p)
             \/ \E e \in Entries, p \in Places : SubmitReconfigure(f, e, p)
             \/ ProbeFails(f) \/ AlreadyConfigured(f) \/ WrongMeter(f)
      PROVE  UNCHANGED <<uid, serial>>
  BY <1>4 DEF SubmitAdd, SubmitReconfigure, ProbeFails, AlreadyConfigured,
              WrongMeter, data
<1>5. ASSUME NEW e \in Entries,
             BeginSetup(e) \/ BeginIdentify(e) \/ EndSetup(e) \/ SetupFails(e)
      PROVE  UNCHANGED <<uid, serial>>
  BY <1>5 DEF BeginSetup, BeginIdentify, EndSetup, SetupFails, data
<1>6. ASSUME NEW p \in Places, Unplug(p) \/ \E m \in Meters : Plug(p, m)
      PROVE  UNCHANGED <<uid, serial>>
  BY <1>6 DEF Unplug, Plug, data
<1>7. CASE UNCHANGED vars
  BY <1>7 DEF vars, data
<1>8. ASSUME NEW f \in Flows, UpdateEntry(f)
      PROVE  [Registry!Next]_<<uid, serial>>
  <2>1. flow[f].entry \in Entries
    BY <1>8, FlowTypes DEF UpdateEntry
  <2> QED
    BY <1>2, <1>8, <2>1 DEF Registry!Next
<1> QED
  BY <1>1, <1>3, <1>4, <1>5, <1>6, <1>7, <1>8 DEF Next, Registry!Next

\* Flows and setups implement the registry: ids are for life and unique, and a
\* serial number once learned stays (config_flow.py:269-330).
THEOREM FlowKeepsRegistry == Spec => KeepsRegistry
<1>1. Init => Registry!Init
  BY DEF Init, Registry!Init
<1>2. BaseInv /\ [Next]_vars => [Registry!Next]_<<uid, serial>>
  BY RegistryStep
<1> QED
  BY <1>1, <1>2, FlowInvariant, PTL DEF Spec, KeepsRegistry, Registry!Spec, Registry!vars

\* With serial numbers that can always be read the ids are the serial numbers.
LEMMA IdentityStep ==
    ASSUME IdentityInv, [Next]_vars,
           "serial" \notin Faults, "silent" \notin Faults,
           \A m \in Meters : SerialOf[m] # NoSerial
    PROVE  IdentityInv'
<1> USE FlowAssumption
<1>a. BaseInv /\ BaseInv'
  BY BaseStep DEF IdentityInv
<1>b. /\ uid \in [Entries -> Ids \cup {NoEntry}]
      /\ serial \in [Entries -> Serials \cup {NoSerial}]
  BY <1>a DEF BaseInv, TypeOK
<1>c. ASSUME NEW p \in Places, NEW info \in Infos(p)
      PROVE  info.serial # NoSerial /\ UniqueId(info, p) = info.serial
  <2>1. meterAt[p] \in Meters
    BY <1>a DEF BaseInv, TypeOK, Infos
  <2>2. info.serial = SerialOf[meterAt[p]]
    BY <2>1 DEF Infos, SerialReads
  <2> QED
    BY <2>1, <2>2 DEF UniqueId
<1>d. /\ \A e \in Entries : Exists(e) => serial[e] # NoSerial /\ uid[e] = serial[e]
      /\ \A e, f \in Entries : Exists(e) /\ uid[e] = uid[f] => e = f
  BY DEF IdentityInv
<1>1. ASSUME NEW e \in Entries, NEW f \in Flows, CreateEntry(f, e)
      PROVE  IdentityInv'
  <2>1. PICK info \in Infos(flow[f].place) :
               /\ ~Configured(UniqueId(info, flow[f].place))
               /\ uid' = [uid EXCEPT ![e] = UniqueId(info, flow[f].place)]
               /\ serial' = [serial EXCEPT ![e] = info.serial]
    BY <1>1 DEF CreateEntry
  <2>2. info.serial # NoSerial /\ UniqueId(info, flow[f].place) = info.serial
    BY <1>a, <1>c, <1>1, FlowTypes DEF CreateEntry
  <2>3. \A d \in Entries : uid[d] # info.serial
    BY <2>1, <2>2 DEF Configured
  <2>4. \A d \in Entries : Exists(d)' => serial'[d] # NoSerial /\ uid'[d] = serial'[d]
    BY <1>b, <1>d, <2>1, <2>2 DEF Exists
  <2>5. \A c, d \in Entries : Exists(c)' /\ uid'[c] = uid'[d] => c = d
    BY <1>b, <1>d, <2>1, <2>2, <2>3 DEF Exists
  <2> QED
    BY <1>a, <2>4, <2>5 DEF IdentityInv
<1>2. ASSUME NEW f \in Flows, UpdateEntry(f)
      PROVE  IdentityInv'
  <2>1. PICK info \in Infos(flow[f].place) :
               /\ RightMeter(flow[f].entry, info)
               /\ serial' = [serial EXCEPT ![flow[f].entry] = info.serial]
    BY <1>2 DEF UpdateEntry
  <2>2. /\ flow[f].entry \in Entries
        /\ Exists(flow[f].entry)
        /\ uid' = uid
    BY <1>a, <1>2, FlowTypes DEF UpdateEntry
  <2>3. serial' = serial
    BY <1>b, <1>d, <2>1, <2>2 DEF RightMeter
  <2> QED
    BY <1>a, <1>d, <2>2, <2>3 DEF IdentityInv, Exists
<1>3. ASSUME NEW e \in Entries, Remove(e)
      PROVE  IdentityInv'
  BY <1>a, <1>b, <1>d, <1>3 DEF Remove, IdentityInv, Exists
<1>4. CASE UNCHANGED <<uid, serial>>
  BY <1>a, <1>d, <1>4 DEF IdentityInv, Exists
<1>5. \/ UNCHANGED <<uid, serial>>
      \/ \E f \in Flows : UpdateEntry(f) \/ \E e \in Entries : CreateEntry(f, e)
      \/ \E e \in Entries : Remove(e)
  BY DEF Next, vars, data, SubmitAdd, SubmitReconfigure, ProbeFails,
         AlreadyConfigured, WrongMeter, BeginSetup, BeginIdentify, EndSetup, SetupFails,
         Unplug, Plug
<1> QED
  BY <1>1, <1>2, <1>3, <1>4, <1>5

\* With serial numbers that can always be read, an entry is known by the one it
\* has, whatever flows are open at one time (config_flow.py:273-275, 316-330).
THEOREM IdentityInvariant ==
    ASSUME "serial" \notin Faults, "silent" \notin Faults,
           \A m \in Meters : SerialOf[m] # NoSerial
    PROVE  Spec => []IdentityInv
<1>1. Init => IdentityInv
  BY FlowAssumption DEF Init, IdentityInv, BaseInv, TypeOK, Exists, InSetup, Idle
<1>2. IdentityInv /\ [Next]_vars => IdentityInv'
  BY IdentityStep
<1> QED
  BY <1>1, <1>2, PTL DEF Spec

\* The same meter is then not added twice, wherever meters are moved
\* (config_flow.py:273-275).
THEOREM MetersHaveOneEntry ==
    ASSUME "serial" \notin Faults, "silent" \notin Faults,
           \A m \in Meters : SerialOf[m] # NoSerial
    PROVE  Spec => []OneEntryPerMeter
<1>1. IdentityInv => OneEntryPerMeter
  BY DEF IdentityInv, OneEntryPerMeter, IsFor
<1>2. Spec => []IdentityInv
  BY IdentityInvariant
<1> QED
  BY <1>1, <1>2, PTL

\* And a meter is turned away only when it has an entry, also while a place
\* that was freed is taken by another (config_flow.py:273-275, 332-343).
THEOREM NobodyTurnedAway ==
    ASSUME "serial" \notin Faults, "silent" \notin Faults,
           \A m \in Meters : SerialOf[m] # NoSerial
    PROVE  Spec => []RefusedOnlyIfConfigured
<1>1. IdentityInv => RefusedOnlyIfConfigured
  <2>1. ASSUME IdentityInv, NEW f \in Flows, TurnedAway(f)
        PROVE  \E e \in Entries : IsFor(e, meterAt[flow[f].place])
    <3>1. flow[f].place \in Places
      BY <2>1, FlowTypes DEF TurnedAway, IdentityInv
    <3>2. PICK info \in Infos(flow[f].place) : Configured(UniqueId(info, flow[f].place))
      BY <2>1 DEF TurnedAway
    <3>3. meterAt[flow[f].place] \in Meters
      BY <2>1, <3>1, <3>2 DEF Infos, IdentityInv, BaseInv, TypeOK
    <3>4. info.serial = SerialOf[meterAt[flow[f].place]]
      BY <3>2, <3>3, FlowAssumption DEF Infos, SerialReads
    <3>5. PICK e \in Entries : uid[e] = info.serial
      BY <3>2, <3>3, <3>4 DEF Configured, UniqueId
    <3>6. Exists(e) /\ serial[e] = info.serial /\ info.serial # NoSerial
      BY <2>1, <3>3, <3>4, <3>5, FlowAssumption DEF Exists, IdentityInv
    <3> QED
      BY <3>4, <3>6 DEF IsFor
  <2> QED
    BY <2>1 DEF RefusedOnlyIfConfigured
<1>2. Spec => []IdentityInv
  BY IdentityInvariant
<1> QED
  BY <1>1, <1>2, PTL

\* What SeriesInv says of an entry.
Settled(e) ==
    /\ phase[e] = "loaded" /\ ~stale[e] /\ meterAt[place[e]] # NoMeter
         => series[e] = SeriesOf[meterAt[place[e]]]
    /\ phase[e] = "loaded" => Exists(e)
    /\ InSetup(e) /\ ~stale[e] => client[e] = place[e]

\* An entry whose place, setup and series stay is where its meter was: nobody
\* swaps the meter under it.
LEMMA EntryStaysSettled ==
    ASSUME BaseInv, NEW e \in Entries, Settled(e),
           place'[e] = place[e], series'[e] = series[e], phase'[e] = phase[e],
           client'[e] = client[e], stale'[e] = stale[e], Exists(e) => Exists(e)',
           place[e] \in Places => meterAt'[place[e]] \in {meterAt[place[e]], NoMeter}
    PROVE  Settled(e)'
<1>1. phase[e] = "loaded" => place[e] \in Places
  BY DEF BaseInv, TypeOK, Settled
<1> QED
  BY <1>1 DEF Settled, InSetup

\* Setups read the meter the entry points to, or are repeated.
LEMMA SeriesStep ==
    ASSUME SeriesInv, [Next]_vars, "code" \notin Faults,
           \A m \in Meters : SeriesOf[m] # NoSeries
    PROVE  SeriesInv'
<1> USE FlowAssumption
<1>a. BaseInv /\ BaseInv'
  BY BaseStep DEF SeriesInv
<1>b. /\ \A x \in Entries : Settled(x)
      /\ place \in [Entries -> Places \cup {NoPlace}]
      /\ series \in [Entries -> Series \cup {NoSeries}]
      /\ phase \in [Entries -> {"off", "setup", "identify", "loaded"}]
      /\ client \in [Entries -> Places \cup {NoPlace}]
      /\ stale \in [Entries -> BOOLEAN]
      /\ uid \in [Entries -> Ids \cup {NoEntry}]
      /\ meterAt \in [Places -> Meters \cup {NoMeter}]
  BY <1>a DEF SeriesInv, SeriesOfMeter, Settled, BaseInv, TypeOK
<1> SUFFICES ASSUME NEW x \in Entries
             PROVE  Settled(x)'
  BY <1>a DEF SeriesInv, SeriesOfMeter, Settled
<1>1. ASSUME NEW f \in Flows, NEW e \in Entries, CreateEntry(f, e)
      PROVE  Settled(x)'
  <2>1. CASE x = e
    BY <1>1, <1>b, <2>1 DEF CreateEntry, Settled, InSetup
  <2>2. CASE x # e
    BY <1>1, <1>a, <1>b, <2>2, EntryStaysSettled DEF CreateEntry, Exists
  <2> QED
    BY <2>1, <2>2
<1>2. ASSUME NEW f \in Flows, UpdateEntry(f)
      PROVE  Settled(x)'
  <2>1. CASE x = flow[f].entry
    BY <1>2, <1>b, <2>1 DEF UpdateEntry, ScheduleReload, Settled, Exists, InSetup
  <2>2. CASE x # flow[f].entry
    BY <1>2, <1>a, <1>b, <2>2, EntryStaysSettled DEF UpdateEntry, ScheduleReload, Exists
  <2> QED
    BY <2>1, <2>2
<1>3. ASSUME NEW e \in Entries, BeginSetup(e) \/ BeginIdentify(e)
      PROVE  Settled(x)'
  <2>1. CASE x = e
    BY <1>3, <1>b, <2>1 DEF BeginSetup, BeginIdentify, Settled, InSetup, data
  <2>2. CASE x # e
    BY <1>3, <1>a, <1>b, <2>2, EntryStaysSettled DEF BeginSetup, BeginIdentify, Exists, data
  <2> QED
    BY <2>1, <2>2
<1>4. ASSUME NEW e \in Entries, EndSetup(e)
      PROVE  Settled(x)'
  <2>1. CASE x = e
    <3>1. client[e] \in Places /\ Exists(e)
      BY <1>4, <1>a, <1>b DEF EndSetup, BaseInv, InSetup
    <3>2. meterAt[client[e]] # NoMeter => series'[e] = SeriesOf[meterAt[client[e]]]
      BY <1>4, <1>b, <3>1 DEF EndSetup, CodeReads, Remember
    <3>3. /\ place' = place /\ meterAt' = meterAt /\ uid' = uid /\ stale' = stale
          /\ ~InSetup(e)'
      BY <1>4, <1>b DEF EndSetup, InSetup
    <3>4. ~stale[e] => client[e] = place[e]
      BY <1>4, <1>b DEF EndSetup, Settled, InSetup
    <3> QED
      BY <2>1, <3>1, <3>2, <3>3, <3>4 DEF Settled, Exists
  <2>2. CASE x # e
    <3>1. series'[x] = series[x]
      BY <1>4, <1>b, <2>2 DEF EndSetup, Remember
    <3> QED
      BY <1>4, <1>a, <1>b, <2>2, <3>1, EntryStaysSettled DEF EndSetup, Exists
  <2> QED
    BY <2>1, <2>2
<1>5. ASSUME NEW e \in Entries, SetupFails(e)
      PROVE  Settled(x)'
  <2>1. CASE x = e
    BY <1>5, <1>b, <2>1 DEF SetupFails, Settled, InSetup
  <2>2. CASE x # e
    BY <1>5, <1>a, <1>b, <2>2, EntryStaysSettled DEF SetupFails, Exists, data
  <2> QED
    BY <2>1, <2>2
<1>6. ASSUME NEW e \in Entries, Remove(e)
      PROVE  Settled(x)'
  <2>1. CASE x = e
    BY <1>6, <1>b, <2>1 DEF Remove, Settled, InSetup
  <2>2. CASE x # e
    BY <1>6, <1>a, <1>b, <2>2, EntryStaysSettled DEF Remove, Exists
  <2> QED
    BY <2>1, <2>2
<1>7. ASSUME NEW p \in Places, Unplug(p)
      PROVE  Settled(x)'
  BY <1>7, <1>a, <1>b, EntryStaysSettled DEF Unplug, Exists, data, loading
<1>8. ASSUME NEW p \in Places, NEW m \in Meters, Plug(p, m)
      PROVE  Settled(x)'
  BY <1>8, <1>a, <1>b, EntryStaysSettled DEF Plug, Exists, data, loading
<1>9. CASE UNCHANGED <<meterAt, data, loading>>
  BY <1>9, <1>a, <1>b, EntryStaysSettled DEF Exists, data, loading
<1>10. \/ UNCHANGED <<meterAt, data, loading>>
       \/ \E f \in Flows : UpdateEntry(f) \/ \E e \in Entries : CreateEntry(f, e)
       \/ \E e \in Entries : \/ BeginSetup(e) \/ BeginIdentify(e) \/ EndSetup(e)
                          \/ SetupFails(e) \/ Remove(e)
       \/ \E p \in Places : Unplug(p) \/ \E m \in Meters : Plug(p, m)
  BY DEF Next, vars, SubmitAdd, SubmitReconfigure, ProbeFails, AlreadyConfigured, WrongMeter
<1> QED
  BY <1>1, <1>2, <1>3, <1>4, <1>5, <1>6, <1>7, <1>8, <1>9, <1>10

\* When every meter's code is known and can be read, an entry that is loaded
\* and not about to be reloaded has its meter's series, in whatever order setups
\* and flows write it (__init__.py:76-95, config_flow.py:328-330).
THEOREM SeriesFollowsMeter ==
    ASSUME "code" \notin Faults, \A m \in Meters : SeriesOf[m] # NoSeries
    PROVE  Spec => []SeriesOfMeter
<1>1. Init => SeriesInv
  BY FlowAssumption DEF Init, SeriesInv, SeriesOfMeter, BaseInv, TypeOK, Exists, InSetup, Idle
<1>2. SeriesInv /\ [Next]_vars => SeriesInv'
  BY SeriesStep
<1>3. SeriesInv => SeriesOfMeter
  BY DEF SeriesInv
<1> QED
  BY <1>1, <1>2, <1>3, PTL DEF Spec
=============================================================================
