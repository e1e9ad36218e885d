------------------------ MODULE EntrySettingsProofs ------------------------
(***************************************************************************)
(* Proofs about EntrySettings, for any values of the fields, on any host.  *)
(***************************************************************************)
EXTENDS EntrySettings, TLAPS

\* The fields of a form are not the transport, which comes from the menu.
LEMMA FormKeysAreKeys ==
    \A t : FormKeys(t) \subseteq Keys /\ "transport" \notin FormKeys(t)
  BY DEF FormKeys, Keys, CommonKeys, TcpKeys, SerialKeys

\* What a form has to say is what it was filled in with (config_flow.py:235).
LEMMA SubmittedSays ==
    ASSUME NEW f, IsForm(f), f.stage # "closed"
    PROVE  /\ DOMAIN Submitted(f) = {"transport"} \cup FormKeys(f.transport)
           /\ Submitted(f)["transport"] = f.transport
           /\ \A k \in FormKeys(f.transport) : Submitted(f)[k] = f.fields[k]
<1>1. DOMAIN f.fields = FormKeys(f.transport)
  BY DEF IsForm
<1> DEFINE r == [transport |-> f.transport]
<1>2. DOMAIN r = {"transport"} /\ r["transport"] = f.transport
  OBVIOUS
<1>3. Submitted(f) = Merged(r, f.fields)
  BY DEF Submitted
<1> HIDE DEF r
<1> QED
  BY <1>1, <1>2, <1>3, FormKeysAreKeys DEF Merged

\* It is found again among what is stored, whatever was stored before
\* (config_flow.py:287-296, 328-330).
LEMMA MergedSays ==
    ASSUME NEW f, IsForm(f), f.stage # "closed"
    PROVE  LET merged == Merged(data, Submitted(f))
           IN  /\ Setting(merged, "transport") = f.transport
               /\ \A k \in FormKeys(f.transport) :
                     k \in DOMAIN merged /\ Setting(merged, k) = f.fields[k]
               /\ \A k \in Keys \ FormKeys(f.transport) :
                     Setting(merged, k) = Setting(data, k)
<1> DEFINE new == Submitted(f)
           merged == Merged(data, new)
<1>1. /\ DOMAIN new = {"transport"} \cup FormKeys(f.transport)
      /\ new["transport"] = f.transport
      /\ \A k \in FormKeys(f.transport) : new[k] = f.fields[k]
  BY SubmittedSays
<1>2. "transport" \notin Keys
  BY DEF Keys, CommonKeys, TcpKeys, SerialKeys
<1> HIDE DEF new
<1>3. /\ DOMAIN merged = DOMAIN new \cup DOMAIN data
      /\ \A k \in DOMAIN new : merged[k] = new[k]
      /\ \A k \in DOMAIN data \ DOMAIN new : merged[k] = data[k]
  BY DEF Merged
<1> HIDE DEF merged
<1>4. /\ Setting(merged, "transport") = f.transport
      /\ \A k \in FormKeys(f.transport) :
            k \in DOMAIN merged /\ Setting(merged, k) = f.fields[k]
  BY <1>1, <1>3 DEF Setting
<1>5. \A k \in Keys \ FormKeys(f.transport) : Setting(merged, k) = Setting(data, k)
  BY <1>1, <1>2, <1>3 DEF Setting
<1> QED
  BY <1>4, <1>5 DEF merged, new

\* A form that is shown has every field of its transport.
LEMMA PrefilledIsForm ==
    ASSUME NEW t \in Transports,
           \A k \in Keys : Setting(data, k) \in Values[k] \cup {DEFAULTS[k]}
    PROVE  IsForm(Form("shown", t, Fields(t, data)))
<1> DEFINE f == Form("shown", t, Fields(t, data))
<1>1. f.stage = "shown" /\ f.transport = t /\ f.fields = Fields(t, data)
      /\ f = Form(f.stage, f.transport, f.fields)
  BY DEF Form
<1> HIDE DEF f
<1>2. f.fields = [k \in FormKeys(t) |-> f.fields[k]]
  BY <1>1 DEF Fields
<1>3. \A k \in FormKeys(t) : f.fields[k] \in Values[k] \cup {DEFAULTS[k]}
  BY <1>1, FormKeysAreKeys DEF Fields
<1>4. DOMAIN f.fields = FormKeys(t)
  BY <1>2
<1> QED
  BY <1>1, <1>2, <1>3, <1>4 DEF IsForm, f

\* A change of one field.
LEMMA EditedIsForm ==
    ASSUME NEW f, IsForm(f), f.stage = "shown", NEW key \in FormKeys(f.transport),
           NEW value \in Values[key]
    PROVE  IsForm([f EXCEPT !.fields[key] = value])
<1> DEFINE g == [f.fields EXCEPT ![key] = value]
           h == [f EXCEPT !.fields[key] = value]
<1>1. f = Form("shown", f.transport, f.fields)
      /\ f.fields = [k \in FormKeys(f.transport) |-> f.fields[k]]
      /\ \A k \in FormKeys(f.transport) : f.fields[k] \in Values[k] \cup {DEFAULTS[k]}
      /\ f.transport \in Transports
  BY DEF IsForm
<1>2. h = Form("shown", f.transport, g)
  BY <1>1 DEF Form
<1>3. DOMAIN g = FormKeys(f.transport) /\ g = [k \in FormKeys(f.transport) |-> g[k]]
  BY <1>1
<1>4. \A k \in FormKeys(f.transport) : g[k] \in Values[k] \cup {DEFAULTS[k]}
  BY <1>1
<1> HIDE DEF g, h
<1>5. h.stage = "shown" /\ h.transport = f.transport /\ h.fields = g
  BY <1>2 DEF Form
<1> QED
  BY <1>1, <1>2, <1>3, <1>4, <1>5 DEF IsForm, h

\* A change of the stage.
LEMMA RestagedIsForm ==
    ASSUME NEW f, IsForm(f), f.stage # "closed",
           NEW stage \in {"shown", "probing", "accepted"}
    PROVE  LET g == [f EXCEPT !.stage = stage]
           IN  IsForm(g) /\ g.stage = stage /\ g.transport = f.transport /\ g.fields = f.fields
<1> DEFINE g == [f EXCEPT !.stage = stage]
<1>1. g = Form(stage, f.transport, f.fields)
  BY DEF IsForm, Form
<1> HIDE DEF g
<1>2. g.stage = stage /\ g.transport = f.transport /\ g.fields = f.fields
  BY <1>1 DEF Form
<1>3. IsForm(g)
  BY <1>1, <1>2 DEF IsForm
<1> QED
  BY <1>2, <1>3 DEF g

LEMMA ClosedIsForm == IsForm(Closed)
  BY DEF IsForm, Closed, Form, Transports
---------------------------------------------------------------------------
(* The invariant.                                                          *)

AcceptedInv ==
    data # <<>> =>
        /\ Setting(data, "transport") = accepted.transport
        /\ \A k \in FormKeys(accepted.transport) : Setting(data, k) = accepted.fields[k]
        /\ (IF accepted.transport = "tcp" THEN "host" ELSE "serial_port") \in DOMAIN data

LoadedInv ==
    Settled =>
        /\ data # <<>>
        /\ client = ClientFromConfig(data) /\ interval = ScanInterval

StoredInv ==
    \A k \in Keys : Setting(data, k) \in Values[k] \cup {DEFAULTS[k]}

FormsInv == IsForm(form) /\ IsForm(accepted) /\ accepted.stage = "accepted"

\* The parts of the invariant, each of which has a step of its own.
LEMMA Parts == SettingsInv <=> FormsInv /\ StoredInv /\ AcceptedInv /\ LoadedInv
  BY DEF SettingsInv, FormsInv, StoredInv, AcceptedInv, LoadedInv

\* Steps that leave the forms alone, and the data.
Elsewhere ==
    \/ \E seconds \in Values["scan_interval"] : ChangeOptions(seconds)
    \/ Setup \/ SetupFails \/ Unload
    \/ \E port \in Values["serial_port"] : PlugPort(port)
    \/ UNCHANGED vars

Typing ==
    \/ \E t \in Transports : OpenForm(t)
    \/ \E k \in Keys : \E v \in Values[k] : Edit(k, v)
    \/ Submit \/ ProbeFails \/ CloseForm

LEMMA Steps == [Next]_vars => Elsewhere \/ Typing \/ Accept
  BY DEF Next, Elsewhere, Typing

LEMMA ElsewhereKeeps ==
    ASSUME Elsewhere
    PROVE  form' = form /\ accepted' = accepted /\ data' = data
  BY DEF Elsewhere, ChangeOptions, Setup, SetupFails, Unload, Off, PlugPort, vars

LEMMA TypingKeeps ==
    ASSUME Typing
    PROVE  /\ accepted' = accepted /\ data' = data /\ options' = options
           /\ loaded' = loaded /\ due' = due /\ client' = client /\ interval' = interval
  BY DEF Typing, OpenForm, Edit, Submit, ProbeFails, CloseForm, setup

\* Forms stay forms.
LEMMA FormsStep ==
    ASSUME FormsInv, StoredInv, [Next]_vars
    PROVE  FormsInv'
<1>1. CASE Elsewhere
  BY <1>1, ElsewhereKeeps DEF FormsInv, IsForm
<1>2. CASE Accept
  <2>1. /\ form.stage = "probing" /\ form' = Closed
        /\ accepted' = [form EXCEPT !.stage = "accepted"]
    BY <1>2 DEF Accept
  <2>2. IsForm([form EXCEPT !.stage = "accepted"])
        /\ [form EXCEPT !.stage = "accepted"].stage = "accepted"
    BY <2>1, RestagedIsForm DEF FormsInv
  <2> QED
    BY <2>1, <2>2, ClosedIsForm DEF FormsInv, IsForm
<1>3. CASE Typing
  <2>1. accepted' = accepted
    BY <1>3, TypingKeeps
  <2>2. ASSUME NEW t \in Transports, OpenForm(t) PROVE IsForm(form')
    BY <2>2, PrefilledIsForm DEF OpenForm, Prefill, StoredInv
  <2>3. ASSUME NEW k \in Keys, NEW v \in Values[k], Edit(k, v) PROVE IsForm(form')
    BY <2>3, EditedIsForm DEF Edit, FormsInv
  <2>4. ASSUME Submit PROVE IsForm(form')
    BY <2>4, RestagedIsForm DEF Submit, FormsInv
  <2>5. ASSUME ProbeFails PROVE IsForm(form')
    BY <2>5, RestagedIsForm DEF ProbeFails, FormsInv
  <2>6. ASSUME CloseForm PROVE IsForm(form')
    BY <2>6, ClosedIsForm DEF CloseForm
  <2>7. Submit \/ ProbeFails \/ CloseForm => IsForm(form')
    BY <2>4, <2>5, <2>6
  <2>8. IsForm(form')
    BY <1>3, <2>2, <2>3, <2>7 DEF Typing
  <2> QED
    BY <2>1, <2>8 DEF FormsInv, IsForm
<1> QED
  BY <1>1, <1>2, <1>3, Steps

\* The entry has what was accepted, and only values a form can have.
LEMMA DataStep ==
    ASSUME FormsInv, StoredInv, AcceptedInv, [Next]_vars
    PROVE  StoredInv' /\ AcceptedInv'
<1>1. CASE Elsewhere \/ Typing
  BY <1>1, ElsewhereKeeps, TypingKeeps DEF StoredInv, AcceptedInv, Setting
<1>2. CASE Accept
  <2>1. /\ form.stage = "probing" /\ data' = Merged(data, Submitted(form))
        /\ accepted' = [form EXCEPT !.stage = "accepted"]
    BY <1>2 DEF Accept
  <2>2. accepted'.transport = form.transport /\ accepted'.fields = form.fields
    BY <2>1, RestagedIsForm DEF FormsInv
  <2>3. /\ Setting(data', "transport") = form.transport
        /\ \A k \in FormKeys(form.transport) :
              k \in DOMAIN data' /\ Setting(data', k) = form.fields[k]
        /\ \A k \in Keys \ FormKeys(form.transport) : Setting(data', k) = Setting(data, k)
    BY <2>1, MergedSays DEF FormsInv
  <2>4. AcceptedInv'
    <3>1. (IF form.transport = "tcp" THEN "host" ELSE "serial_port") \in FormKeys(form.transport)
      BY DEF FormKeys, TcpKeys, SerialKeys
    <3> QED
      BY <2>2, <2>3, <3>1 DEF AcceptedInv
  <2>5. \A k \in FormKeys(form.transport) : form.fields[k] \in Values[k] \cup {DEFAULTS[k]}
    BY <2>1 DEF FormsInv, IsForm
  <2> QED
    BY <2>3, <2>4, <2>5 DEF StoredInv
<1> QED
  BY <1>1, <1>2, Steps

\* A loaded entry that is not due runs on its data as they are.
LEMMA LoadedStep ==
    ASSUME LoadedInv, [Next]_vars
    PROVE  LoadedInv'
<1>1. CASE Typing
  BY <1>1, TypingKeeps DEF LoadedInv, Settled, ScanInterval
<1>2. CASE Accept
  BY <1>2 DEF Accept, LoadedInv, Settled
<1>3. CASE \E seconds \in Values["scan_interval"] : ChangeOptions(seconds)
  <2>1. PICK seconds \in Values["scan_interval"] : ChangeOptions(seconds)
    BY <1>3
  <2>2. CASE Settled'
    <3>1. Settled /\ options' = options /\ data' = data /\ client' = client
          /\ interval' = interval
      BY <2>1, <2>2 DEF ChangeOptions, Settled
    <3> QED
      BY <3>1 DEF LoadedInv, ScanInterval
  <2> QED
    BY <2>2 DEF LoadedInv
<1>4. CASE Setup
  <2>1. data' = data /\ data # <<>> /\ options' = options
        /\ client' = ClientFromConfig(data) /\ interval' = ScanInterval
    BY <1>4 DEF Setup
  <2> QED
    BY <2>1 DEF LoadedInv, ScanInterval
<1>5. CASE SetupFails \/ Unload
  BY <1>5 DEF SetupFails, Unload, Off, LoadedInv, Settled
<1>6. CASE UNCHANGED vars \/ \E port \in Values["serial_port"] : PlugPort(port)
  <2>1. /\ data' = data /\ options' = options
        /\ loaded' = loaded /\ due' = due /\ client' = client /\ interval' = interval
    BY <1>6 DEF PlugPort, vars, setup
  <2> QED
    BY <2>1 DEF LoadedInv, Settled, ScanInterval
<1> QED
  BY <1>1, <1>2, <1>3, <1>4, <1>5, <1>6, Steps DEF Elsewhere

\* At first there is no entry, or one with hardly any settings.
LEMMA SettingsInit == Init => SettingsInv
<1> SUFFICES ASSUME Init PROVE SettingsInv
  OBVIOUS
<1>1. StoredInv
  <2>1. CASE data = <<>>
    BY <2>1 DEF StoredInv, Setting
  <2>2. ASSUME NEW p \in Values["serial_port"], data = [serial_port |-> p] PROVE StoredInv
    BY <2>2 DEF StoredInv, Setting
  <2> QED
    BY <2>1, <2>2 DEF Init
<1>2. accepted = Form("accepted", "serial", Fields("serial", data))
  BY DEF Init
<1>3. accepted.stage = "accepted" /\ accepted.transport = "serial"
      /\ accepted.fields = Fields("serial", data)
  BY <1>2 DEF Form
<1>4. IsForm(accepted)
  <2>1. accepted.fields = [k \in FormKeys("serial") |-> Setting(data, k)]
    BY <1>3 DEF Fields
  <2>2. DOMAIN accepted.fields = FormKeys("serial")
        /\ accepted.fields = [k \in FormKeys("serial") |-> accepted.fields[k]]
    BY <2>1
  <2>3. \A k \in FormKeys("serial") : accepted.fields[k] \in Values[k] \cup {DEFAULTS[k]}
    BY <1>1, <2>1, FormKeysAreKeys DEF StoredInv
  <2> QED
    BY <1>2, <1>3, <2>2, <2>3 DEF IsForm, Transports
<1>5. AcceptedInv
  <2>1. data # <<>> => Setting(data, "transport") = "serial" /\ "serial_port" \in DOMAIN data
    BY DEF Init, Setting, DEFAULTS
  <2> QED
    BY <1>3, <2>1 DEF AcceptedInv, Fields
<1>6. LoadedInv
  BY DEF Init, LoadedInv, Settled
<1>7. IsForm(form)
  BY ClosedIsForm DEF Init
<1> QED
  BY <1>1, <1>3, <1>4, <1>5, <1>6, <1>7, Parts DEF FormsInv

\* What is stored is what was accepted last, and a transport is what is stored.
THEOREM SettingsInvariant == Spec => []SettingsInv
<1>1. SettingsInv /\ [Next]_vars => SettingsInv'
  <2> SUFFICES ASSUME SettingsInv, [Next]_vars PROVE SettingsInv'
    OBVIOUS
  <2>1. FormsInv' /\ StoredInv' /\ AcceptedInv' /\ LoadedInv'
    BY Parts, FormsStep, DataStep, LoadedStep
  <2> QED
    BY <2>1 DEF SettingsInv, FormsInv, StoredInv, AcceptedInv, LoadedInv
<1> QED
  BY <1>1, SettingsInit, PTL DEF Spec

\* A transport built from what a form said is what the form meant.
LEMMA BuiltAsMeant ==
    ASSUME NEW f, NEW d, IsForm(f), f.stage # "closed",
           \A k \in FormKeys(f.transport) : Setting(d, k) = f.fields[k],
           Setting(d, "transport") = f.transport,
           (IF f.transport = "tcp" THEN "host" ELSE "serial_port") \in DOMAIN d
    PROVE  ClientFromConfig(d) = Means(f)
<1>1. f.transport \in Transports
  BY DEF IsForm
<1>2. CASE f.transport = "tcp"
  <2>1. f.fields["framer"] \in {"socket", "rtu"}
    <3>1. "framer" \in FormKeys(f.transport)
      BY <1>2 DEF FormKeys, TcpKeys
    <3>2. f.fields["framer"] \in Values["framer"] \cup {DEFAULTS["framer"]}
      BY <3>1 DEF IsForm
    <3>3. DEFAULTS["framer"] = "socket"
      BY DEF DEFAULTS
    <3>4. Values["framer"] \subseteq {"socket", "rtu"}
      BY SettingsAssumption
    <3> QED
      BY <3>2, <3>3, <3>4
  <2>2. /\ Setting(d, "address") = f.fields["address"]
        /\ d["host"] = f.fields["host"]
        /\ Setting(d, "port") = f.fields["port"]
        /\ Setting(d, "framer") = f.fields["framer"]
    BY <1>2 DEF FormKeys, TcpKeys, CommonKeys, Setting
  <2>3. FramerType(f.fields["framer"]) = [rtu |-> "RTU", socket |-> "SOCKET"][f.fields["framer"]]
    BY <2>1 DEF FramerType
  <2>4. IsTcp(d)
    BY <1>2 DEF IsTcp
  <2> QED
    BY <1>2, <2>2, <2>3, <2>4 DEF ClientFromConfig, TcpClient, Means
<1>3. CASE f.transport = "serial"
  <2>1. /\ Setting(d, "address") = f.fields["address"]
        /\ d["serial_port"] = f.fields["serial_port"]
        /\ Setting(d, "baudrate") = f.fields["baudrate"]
        /\ Setting(d, "stopbits") = f.fields["stopbits"]
        /\ Setting(d, "parity") = f.fields["parity"]
        /\ Setting(d, "bytesize") = f.fields["bytesize"]
    BY <1>3 DEF FormKeys, SerialKeys, CommonKeys, Setting
  <2>2. f.fields["parity"] \in {"none", "even", "odd"}
    <3>1. "parity" \in FormKeys(f.transport)
      BY <1>3 DEF FormKeys, SerialKeys
    <3>2. f.fields["parity"] \in Values["parity"] \cup {DEFAULTS["parity"]}
      BY <3>1 DEF IsForm
    <3>3. DEFAULTS["parity"] = "none"
      BY DEF DEFAULTS
    <3>4. Values["parity"] \subseteq {"none", "even", "odd"}
      BY SettingsAssumption DEF PARITY_CHARACTERS
    <3> QED
      BY <3>2, <3>3, <3>4
  <2>3. ParityCharacter(f.fields["parity"])
          = [none |-> "N", even |-> "E", odd |-> "O"][f.fields["parity"]]
    BY <2>2 DEF ParityCharacter, PARITY_CHARACTERS
  <2>4. ~IsTcp(d)
    BY <1>3 DEF IsTcp
  <2> QED
    BY <1>3, <2>1, <2>3, <2>4 DEF ClientFromConfig, SerialClient, Means
<1> QED
  BY <1>1, <1>2, <1>3 DEF Transports

\* The transport of a settled entry is the one the last accepted form
\* described, over any number of moves between RS485 and TCP
\* (config_flow.py:235, 287-296, 328-330, connection.py:42-66).
THEOREM TransportFollowsForm == Spec => []TransportIsAsAccepted
<1>1. SettingsInv => TransportIsAsAccepted
  <2> SUFFICES ASSUME SettingsInv, Settled
               PROVE  client = Means(accepted)
                      /\ (options = NoInterval => interval = accepted.fields["scan_interval"])
    BY DEF TransportIsAsAccepted
  <2>1. client = Means(accepted)
    BY BuiltAsMeant DEF SettingsInv
  <2>2. "scan_interval" \in FormKeys(accepted.transport)
    BY DEF FormKeys, CommonKeys
  <2>3. options = NoInterval => interval = accepted.fields["scan_interval"]
    BY <2>2 DEF SettingsInv, ScanInterval
  <2> QED
    BY <2>1, <2>3
<1> QED
  BY <1>1, SettingsInvariant, PTL

\* Only the menu opens a form, and a form opens in no other way.
LEMMA OnlyOpenFormOpens ==
    ASSUME [Next]_vars, form = Closed, form' # Closed
    PROVE  \E t \in Transports : OpenForm(t)
<1>1. form.stage = "closed"
  BY DEF Closed, Form
<1>2. ~Elsewhere
  BY ElsewhereKeeps
<1>3. ~Accept /\ ~Submit /\ ~ProbeFails /\ ~CloseForm
  BY <1>1 DEF Accept, Submit, ProbeFails, CloseForm
<1>4. ~\E k \in Keys : \E v \in Values[k] : Edit(k, v)
  BY <1>1 DEF Edit
<1> QED
  BY <1>2, <1>3, <1>4, Steps DEF Typing

\* Reconfiguring a settled entry starts from what it runs on: a form that is
\* sent back as it was shown changes nothing (config_flow.py:111-165, 224-233,
\* connection.py:47-66).
THEOREM FormsShowTransports == Spec => FormShowsTransport
<1> DEFINE Shows == /\ form = Closed /\ form' # Closed
                    /\ Settled /\ client.kind = form'.transport
                    => Means(form') = client
<1>1. SettingsInv /\ [Next]_vars => [Shows]_vars
  <2> SUFFICES ASSUME SettingsInv, [Next]_vars, form = Closed, form' # Closed,
                      Settled, client.kind = form'.transport
               PROVE  Means(form') = client
    OBVIOUS
  <2>1. PICK t \in Transports : OpenForm(t)
    BY OnlyOpenFormOpens
  <2>2. form' = Form("shown", t, Fields(t, data))
    BY <2>1 DEF OpenForm, Prefill
  <2> DEFINE f == Form("shown", t, Fields(t, data))
  <2>3. f.stage = "shown" /\ f.transport = t /\ f.fields = Fields(t, data)
    BY DEF Form
  <2>4. IsForm(f)
    BY PrefilledIsForm DEF SettingsInv
  <2>5. data # <<>> /\ client = ClientFromConfig(data)
    BY DEF SettingsInv
  <2>6. /\ Setting(data, "transport") = accepted.transport
        /\ (IF accepted.transport = "tcp" THEN "host" ELSE "serial_port") \in DOMAIN data
        /\ accepted.transport \in Transports
    BY <2>5 DEF SettingsInv, IsForm
  <2>7. client.kind = accepted.transport
    BY <2>5, <2>6 DEF ClientFromConfig, IsTcp, TcpClient, SerialClient, Transports
  <2>8. f.transport = accepted.transport
    BY <2>2, <2>3, <2>7
  <2>9. \A k \in FormKeys(f.transport) : Setting(data, k) = f.fields[k]
    BY <2>3 DEF Fields
  <2> HIDE DEF f
  <2>10. ClientFromConfig(data) = Means(f)
    BY <2>3, <2>4, <2>6, <2>8, <2>9, BuiltAsMeant
  <2> QED
    BY <2>2, <2>5, <2>10 DEF f
<1> QED
  BY <1>1, SettingsInvariant, PTL DEF Spec, FormShowsTransport
---------------------------------------------------------------------------
(* The types.                                                              *)

ClientOK ==
    client # NoClient =>
        /\ client.kind = "serial" => client.parity \in {"N", "E", "O"}
        /\ client.kind = "tcp" => client.framer \in {"RTU", "SOCKET"}

\* Whatever an entry has under these keys, a transport gets a parity and a
\* framing that pymodbus knows (connection.py:33-66, client.py).
LEMMA BuiltForPymodbus ==
    ASSUME NEW d, client' = ClientFromConfig(d)
    PROVE  ClientOK'
<1>1. ASSUME NEW parity PROVE ParityCharacter(parity) \in {"N", "E", "O"}
  BY DEF ParityCharacter, PARITY_CHARACTERS
<1>2. ASSUME NEW framer PROVE FramerType(framer) \in {"RTU", "SOCKET"}
  BY DEF FramerType
<1>3. TcpClient(d).kind = "tcp" /\ TcpClient(d).framer \in {"RTU", "SOCKET"}
  BY <1>2 DEF TcpClient
<1>4. SerialClient(d).kind = "serial" /\ SerialClient(d).parity \in {"N", "E", "O"}
  BY <1>1 DEF SerialClient
<1>5. client' = TcpClient(d) \/ client' = SerialClient(d)
  BY DEF ClientFromConfig
<1> QED
  BY <1>3, <1>4, <1>5 DEF ClientOK

\* A merge brings in no keys but those of the forms.
LEMMA MergedKeys ==
    ASSUME NEW f, IsForm(f), f.stage # "closed", DOMAIN data \subseteq Keys \cup {"transport"}
    PROVE  DOMAIN Merged(data, Submitted(f)) \subseteq Keys \cup {"transport"}
<1>1. DOMAIN Merged(data, Submitted(f)) = DOMAIN data \cup DOMAIN Submitted(f)
  BY DEF Merged
<1> QED
  BY <1>1, SubmittedSays, FormKeysAreKeys

\* The types of the settings' state.
THEOREM SettingsTypes == Spec => []TypeOK
<1>1. Init => TypeOK
  <2> SUFFICES ASSUME Init PROVE TypeOK
    OBVIOUS
  <2>1. DOMAIN data \subseteq Keys \cup {"transport"}
    <3>1. ASSUME NEW p \in Values["serial_port"], data = [serial_port |-> p]
          PROVE  DOMAIN data = {"serial_port"}
      BY <3>1
    <3>2. data = <<>> => DOMAIN data = {}
      OBVIOUS
    <3> QED
      BY <3>1, <3>2 DEF Init, Keys, SerialKeys
  <2>2. IsForm(form) /\ IsForm(accepted)
    BY SettingsInit DEF SettingsInv
  <2> QED
    BY <2>1, <2>2 DEF Init, TypeOK
<1>2. TypeOK /\ SettingsInv /\ SettingsInv' /\ [Next]_vars => TypeOK'
  <2> SUFFICES ASSUME TypeOK, SettingsInv, SettingsInv', [Next]_vars PROVE TypeOK'
    OBVIOUS
  <2>1. IsForm(form)' /\ IsForm(accepted)'
    BY DEF SettingsInv
  <2>2. CASE Typing
    <3>1. ports' = ports
      BY <2>2 DEF Typing, OpenForm, Edit, Submit, ProbeFails, CloseForm
    <3> QED
      BY <2>1, <2>2, <3>1, TypingKeeps DEF TypeOK
  <2>3. CASE Accept
    <3>1. DOMAIN data' \subseteq Keys \cup {"transport"}
      BY <2>3, MergedKeys DEF Accept, SettingsInv, TypeOK
    <3> QED
      BY <2>1, <2>3, <3>1 DEF Accept, TypeOK
  <2>4. CASE \E seconds \in Values["scan_interval"] : ChangeOptions(seconds)
    BY <2>1, <2>4 DEF ChangeOptions, TypeOK
  <2>5. CASE Setup
    <3>1. ClientOK'
      BY <2>5, BuiltForPymodbus DEF Setup
    <3> QED
      BY <2>1, <2>5, <3>1 DEF Setup, TypeOK, ClientOK
  <2>6. CASE SetupFails \/ Unload
    BY <2>1, <2>6 DEF SetupFails, Unload, Off, TypeOK
  <2>7. CASE \E port \in Values["serial_port"] : PlugPort(port)
    BY <2>1, <2>7 DEF PlugPort, setup, TypeOK
  <2>8. CASE UNCHANGED vars
    BY <2>1, <2>8 DEF vars, setup, TypeOK
  <2> QED
    BY <2>2, <2>3, <2>4, <2>5, <2>6, <2>7, <2>8, Steps DEF Elsewhere
<1> QED
  BY <1>1, <1>2, SettingsInvariant, PTL DEF Spec
=============================================================================
