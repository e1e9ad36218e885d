--------------------------- MODULE EntrySettings ---------------------------
(***************************************************************************)
(* The connection settings of one entry on their way from a form through   *)
(* entry.data to the transport (config_flow.py, connection.py, client.py). *)
(*                                                                         *)
(* What a form returns is merged into the entry, so that an entry moved    *)
(* between RS485 and TCP keeps the keys of both; where an entry lacks a    *)
(* key its default applies.  Which meter answers and which entry is for it is  *)
(* in ConfigFlow, the awaits of a setup are in Em300Entry.                 *)
(***************************************************************************)
EXTENDS Integers

CONSTANTS
    Values,              \* what the user may give to each field
    Windows, ComPorts,   \* on Windows a port is judged by its name, COM...
    NoClient, NoInterval

SerialKeys == {"serial_port", "baudrate", "parity", "stopbits", "bytesize"}
TcpKeys == {"host", "port", "framer"}
CommonKeys == {"address", "scan_interval"}
Keys == SerialKeys \cup TcpKeys \cup CommonKeys
Transports == {"serial", "tcp"}

DEFAULTS ==
    [transport |-> "serial", serial_port |-> "", baudrate |-> 9600,
     parity |-> "none", stopbits |-> 1, bytesize |-> 8, host |-> "",
     port |-> 502, framer |-> "socket", address |-> 1, scan_interval |-> 30]

PARITY_CHARACTERS == [none |-> "N", even |-> "E", odd |-> "O"]

ASSUME SettingsAssumption ==
    /\ DOMAIN Values = Keys
    /\ Values["parity"] \subseteq DOMAIN PARITY_CHARACTERS
    /\ Values["framer"] \subseteq {"socket", "rtu"}
    /\ Windows \in BOOLEAN
    /\ NoInterval \notin Values["scan_interval"]
    /\ "" \notin Values["serial_port"] \cup ComPorts

VARIABLES
    data,      \* entry.data, as far as it is settings; empty without an entry
    options,   \* the interval in entry.options, or NoInterval
    form,      \* the form that is open: its stage, transport and fields
    ports,     \* the serial ports of the host
    loaded,    \* the entry is loaded
    due,       \* and to be reloaded, or new and to be set up
    client,    \* the settings of its transport
    interval,  \* its update_interval
    accepted   \* the last form that was accepted (history)

setup == <<loaded, due, client, interval>>
vars == <<data, options, form, ports, setup, accepted>>

FormKeys(transport) ==
    CommonKeys \cup (IF transport = "tcp" THEN TcpKeys ELSE SerialKeys)

\* data.get(key, default)
Setting(d, key) == IF key \in DOMAIN d THEN d[key] ELSE DEFAULTS[key]

Fields(transport, d) == [key \in FormKeys(transport) |-> Setting(d, key)]

Form(stage, transport, fields) ==
    [stage |-> stage, transport |-> transport, fields |-> fields]
Closed == Form("closed", "serial", <<>>)

\* No entry, or one that has a port and neither a transport nor other settings
\* (tests/integration/test_connection.py:65-67).
Init ==
    /\ data \in {<<>>} \cup {[serial_port |-> p] : p \in Values["serial_port"]}
    /\ options = NoInterval
    /\ form = Closed
    /\ ports \in SUBSET Values["serial_port"]
    /\ loaded = FALSE /\ due = FALSE
    /\ client = NoClient /\ interval = NoInterval
    /\ accepted = Form("accepted", "serial", Fields("serial", data))

-----------------------------------------------------------------------------
(* From entry.data to the transport.  A definition called Buggy... is its  *)
(* successor with a mistake in it; no action uses one.                     *)

BuggyParityCharacter(parity) == parity

ParityCharacter(parity) ==
    IF parity \in DOMAIN PARITY_CHARACTERS THEN PARITY_CHARACTERS[parity] ELSE "N"

\* framer_type
FramerType(framer) == IF framer = "rtu" THEN "RTU" ELSE "SOCKET"

SerialClient(d) ==
    [kind |-> "serial", unit |-> Setting(d, "address"), port |-> d["serial_port"],
     baudrate |-> Setting(d, "baudrate"), stopbits |-> Setting(d, "stopbits"),
     parity |-> ParityCharacter(Setting(d, "parity")),
     bytesize |-> Setting(d, "bytesize")]

TcpClient(d) ==
    [kind |-> "tcp", unit |-> Setting(d, "address"), host |-> d["host"],
     port |-> Setting(d, "port"), framer |-> FramerType(Setting(d, "framer"))]

BuggyIsTcp(d) == "host" \in DOMAIN d

IsTcp(d) == Setting(d, "transport") = "tcp"

ClientFromConfig(d) == IF IsTcp(d) THEN TcpClient(d) ELSE SerialClient(d)

\* _validate_serial_port
PortIsValid(port) == IF Windows THEN port \in ComPorts ELSE port \in ports

ClientCanBeBuilt(d) == ~IsTcp(d) => PortIsValid(d["serial_port"])

\* _scan_interval: the option takes precedence.
ScanInterval ==
    IF options # NoInterval THEN options ELSE Setting(data, "scan_interval")

-----------------------------------------------------------------------------
(* The form.                                                               *)

BuggyPrefill(transport) == Fields(transport, <<>>)

\* A new entry's form shows the defaults, a reconfiguration what is stored.
Prefill(transport) == Fields(transport, data)

BuggyMerged(old, new) ==
    [k \in DOMAIN old \cup DOMAIN new |-> IF k \in DOMAIN old THEN old[k] ELSE new[k]]

\* {**old, **new}
Merged(old, new) ==
    [k \in DOMAIN old \cup DOMAIN new |-> IF k \in DOMAIN new THEN new[k] ELSE old[k]]

\* The settings a form stands for.
Submitted(f) == Merged([transport |-> f.transport], f.fields)

\* The user picks a transport in the menu.
OpenForm(transport) ==
    /\ form = Closed
    /\ form' = Form("shown", transport, Prefill(transport))
    /\ UNCHANGED <<data, options, ports, setup, accepted>>

\* The user changes a field.
Edit(key, value) ==
    /\ form.stage = "shown" /\ key \in FormKeys(form.transport)
    /\ form' = [form EXCEPT !.fields[key] = value]
    /\ UNCHANGED <<data, options, ports, setup, accepted>>

\* The form is submitted, and its settings are probed.
Submit ==
    /\ form.stage = "shown"
    /\ form' = [form EXCEPT !.stage = "probing"]
    /\ UNCHANGED <<data, options, ports, setup, accepted>>

\* The form comes back as it was filled in.
ProbeFails ==
    /\ form.stage = "probing"
    /\ form' = [form EXCEPT !.stage = "shown"]
    /\ UNCHANGED <<data, options, ports, setup, accepted>>

\* The meter was found.  A new entry is set up and an old one is reloaded.
Accept ==
    /\ form.stage = "probing"
    /\ ClientCanBeBuilt(Submitted(form))
    /\ data' = Merged(data, Submitted(form))
    /\ due' = TRUE
    /\ accepted' = [form EXCEPT !.stage = "accepted"]
    /\ form' = Closed
    /\ UNCHANGED <<options, ports, loaded, client, interval>>

\* Another meter was found, or one that is configured; or the user gives up.
CloseForm ==
    /\ form # Closed
    /\ form' = Closed
    /\ UNCHANGED <<data, options, ports, setup, accepted>>

\* The options flow saves; the listener reloads an entry that is loaded.
ChangeOptions(seconds) ==
    /\ data # <<>>
    /\ options' = seconds
    /\ due' = (due \/ (loaded /\ options # seconds))
    /\ UNCHANGED <<data, form, ports, loaded, client, interval, accepted>>

-----------------------------------------------------------------------------
(* Setups, and the host.                                                   *)

\* A setup, by itself or within a reload, from the settings of the moment.
Setup ==
    /\ data # <<>> /\ (due \/ ~loaded)
    /\ ClientCanBeBuilt(data)
    /\ loaded' = TRUE /\ due' = FALSE
    /\ client' = ClientFromConfig(data)
    /\ interval' = ScanInterval
    /\ UNCHANGED <<data, options, form, ports, accepted>>

Off ==
    /\ loaded' = FALSE /\ due' = FALSE
    /\ client' = NoClient /\ interval' = NoInterval
    /\ UNCHANGED <<data, options, form, ports, accepted>>

\* The port is gone: ConfigEntryNotReady, and another setup later.
SetupFails == data # <<>> /\ (due \/ ~loaded) /\ ~ClientCanBeBuilt(data) /\ Off

\* The entry is disabled or Home Assistant stops.
Unload == loaded /\ Off

PlugPort(port) ==
    /\ ports' = IF port \in ports THEN ports \ {port} ELSE ports \cup {port}
    /\ UNCHANGED <<data, options, form, setup, accepted>>

Next ==
    \/ \E t \in Transports : OpenForm(t)
    \/ \E k \in Keys : \E v \in Values[k] : Edit(k, v)
    \/ Submit \/ ProbeFails \/ Accept \/ CloseForm
    \/ \E seconds \in Values["scan_interval"] : ChangeOptions(seconds)
    \/ Setup \/ SetupFails \/ Unload
    \/ \E port \in Values["serial_port"] : PlugPort(port)

Spec == Init /\ [][Next]_vars

-----------------------------------------------------------------------------
(* Properties.                                                             *)

IsForm(f) ==
    /\ f = Form(f.stage, f.transport, f.fields)
    /\ f.stage \in {"closed", "shown", "probing", "accepted"}
    /\ f.transport \in Transports
    /\ f.stage # "closed" =>
          /\ f.fields = [k \in FormKeys(f.transport) |-> f.fields[k]]
          /\ \A k \in DOMAIN f.fields : f.fields[k] \in Values[k] \cup {DEFAULTS[k]}

TypeOK ==
    /\ DOMAIN data \subseteq Keys \cup {"transport"}
    /\ options \in Values["scan_interval"] \cup {NoInterval}
    /\ IsForm(form) /\ IsForm(accepted)
    /\ ports \subseteq Values["serial_port"]
    /\ loaded \in BOOLEAN /\ due \in BOOLEAN
    /\ client # NoClient =>
          /\ client.kind = "serial" => client.parity \in {"N", "E", "O"}
          /\ client.kind = "tcp" => client.framer \in {"RTU", "SOCKET"}

\* What a form says of how to reach the meter.
Means(f) ==
    IF f.transport = "tcp"
      THEN [kind |-> "tcp", unit |-> f.fields["address"], host |-> f.fields["host"],
            port |-> f.fields["port"],
            framer |-> [rtu |-> "RTU", socket |-> "SOCKET"][f.fields["framer"]]]
      ELSE [kind |-> "serial", unit |-> f.fields["address"],
            port |-> f.fields["serial_port"], baudrate |-> f.fields["baudrate"],
            stopbits |-> f.fields["stopbits"],
            parity |-> [none |-> "N", even |-> "E", odd |-> "O"][f.fields["parity"]],
            bytesize |-> f.fields["bytesize"]]

Settled == loaded /\ ~due

\* However often a meter was moved between RS485 and TCP, and whatever keys it
\* left behind, its transport is the one the last accepted form described; so
\* is the interval until the options flow was used (config_flow.py:235, 287-296,
\* 328-330, connection.py:42-66).
TransportIsAsAccepted ==
    Settled => /\ client = Means(accepted)
               /\ options = NoInterval => interval = accepted.fields["scan_interval"]

\* A form to reconfigure a loaded entry shows, for the transport it has, what
\* the meter is reached by: sending it back unchanged changes nothing
\* (config_flow.py:111-165, 224-233, connection.py:47-66).
FormShowsTransport ==
    [][form = Closed /\ form' # Closed /\ Settled /\ client.kind = form'.transport
          => Means(form') = client]_vars
-----------------------------------------------------------------------------
(* The inductive invariant behind the properties.                          *)

\* The entry says what the last accepted form said, and the transport of an
\* entry that is loaded is the one of its data.
SettingsInv ==
    /\ IsForm(form) /\ IsForm(accepted) /\ accepted.stage = "accepted"
    /\ \A k \in Keys : Setting(data, k) \in Values[k] \cup {DEFAULTS[k]}
    /\ data # <<>> =>
          /\ Setting(data, "transport") = accepted.transport
          /\ \A k \in FormKeys(accepted.transport) : Setting(data, k) = accepted.fields[k]
          /\ (IF accepted.transport = "tcp" THEN "host" ELSE "serial_port") \in DOMAIN data
    /\ Settled =>
          /\ data # <<>>
          /\ client = ClientFromConfig(data) /\ interval = ScanInterval
=============================================================================
