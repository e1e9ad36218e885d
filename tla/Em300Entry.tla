---------------------------- MODULE Em300Entry ----------------------------
(***************************************************************************)
(* The life of one config entry: set up, polled, reloaded, unloaded.       *)
(*                                                                         *)
(* The code is __init__.py (async_setup_entry, async_unload_entry and the  *)
(* update listener) and coordinator.py.  One action is one stretch of that *)
(* code between two awaits.  Home Assistant's side -- entry states, the    *)
(* per-entry setup lock, the retry timer, callbacks run at unload, the     *)
(* cancelling of an entry's background tasks -- is external: it is         *)
(* modelled as far as the code relies on it.                               *)
(*                                                                         *)
(* A client is the object client_from_config returns, its coordinator and  *)
(* its connection.  Every setup builds a fresh one; a client nobody refers *)
(* to and whose connection is closed is garbage and its name is used again.*)
(***************************************************************************)
EXTENDS Integers

CONSTANTS
    Clients,        \* names for the clients that can exist at one time
    NoClient,       \* the entry has no client
    Series,         \* the meter series an identification code can name
    NoSeries,       \* not identified, and nothing remembered
    Intervals,      \* polling intervals a user can choose
    ReconnectEvery, \* _RECONNECT_EVERY
    MaxReloads,     \* bound: reloads waiting for the setup lock
    Faults          \* the faults of the surroundings that may happen

\* "unexpected"  a transport operation raises something that is not an
\*               Em300Exception, OSError or TimeoutError
\* "requested"   a refresh asked for by a service call is running at unload;
\*               it belongs to no task of the entry, so nothing cancels it
\* "forward"     setting up the sensor platform raises
\* "cancelled"   the task that sets the entry up is cancelled
\* "unload"      the sensor platform refuses to unload
\* "late"        the options are saved while a setup is past reading them
FaultKinds ==
    {"unexpected", "requested", "forward", "cancelled", "unload", "late"}

ASSUME ConstantsAssumption ==
    /\ NoClient \notin Clients
    /\ NoSeries \notin Series
    /\ Intervals # {}
    /\ ReconnectEvery \in Nat \ {0}
    /\ MaxReloads \in Nat
    /\ Faults \subseteq FaultKinds

VARIABLES
    entry,      \* the entry's state, as Home Assistant shows it
    task,       \* the await at which the holder of the setup lock is
    reloading,  \* whether that holder sets the entry up again after unloading
    pending,    \* reloads waiting for the setup lock
    listener,   \* whether the update listener is registered
    cur,        \* the client the running setup or the runtime data refers to
    conn,       \* each client's connection
    poll,       \* each coordinator's update in flight, if any
    failures,   \* each coordinator's _failure_count, modulo ReconnectEvery
    avail,      \* last_update_success of the coordinator the entities show
    interval,   \* update_interval of that coordinator
    narrowed,   \* the series cur's register set was narrowed to
    remembered, \* entry.data[CONF_SERIES]
    options,    \* entry.options[CONF_SCAN_INTERVAL]
    up          \* whether the meter answers on the link

lifecycle == <<entry, task, reloading, cur>>
requests  == <<pending, listener>>
transport == <<conn, poll, failures>>
identity  == <<narrowed, remembered>>
vars == <<lifecycle, requests, transport, identity,
          avail, interval, options, up>>

EntryStates ==
    {"notLoaded", "inProgress", "loaded", "retry", "error", "failedUnload"}
SetupAwaits == {"build", "connect", "identify", "refresh", "reconnect", "forward"}
Awaits == {"idle", "unload"} \cup SetupAwaits

\* Awaits of a setup that has already read the polling interval.
PastInterval == {"refresh", "reconnect", "forward"}

TypeOK ==
    /\ entry \in EntryStates
    /\ task \in Awaits
    /\ reloading \in BOOLEAN
    /\ pending \in 0..MaxReloads
    /\ listener \in BOOLEAN
    /\ cur \in Clients \cup {NoClient}
    /\ conn \in [Clients -> {"closed", "open", "broken"}]
    /\ poll \in [Clients -> {"none", "reading", "connecting"}]
    /\ failures \in [Clients -> 0..(ReconnectEvery - 1)]
    /\ avail \in BOOLEAN
    /\ interval \in Intervals
    /\ narrowed \in Series \cup {NoSeries}
    /\ remembered \in Series \cup {NoSeries}
    /\ options \in Intervals
    /\ up \in BOOLEAN

Init ==
    /\ entry = "notLoaded"
    /\ task = "idle"
    /\ reloading = FALSE
    /\ pending = 0
    /\ listener = FALSE
    /\ cur = NoClient
    /\ conn = [c \in Clients |-> "closed"]
    /\ poll = [c \in Clients |-> "none"]
    /\ failures = [c \in Clients |-> 0]
    /\ avail = FALSE
    /\ options \in Intervals
    /\ interval = options
    /\ narrowed = NoSeries
    /\ remembered \in Series \cup {NoSeries}
    /\ up \in BOOLEAN

---------------------------------------------------------------------------
(* What the setup, the coordinator and the unload share.  A definition      *)
(* called Buggy... is its successor with a mistake in it; no action uses    *)
(* one, they are there to show that the properties would notice.            *)

\* A read returns data; otherwise it is rejected, times out or raises.
Answers(c) == up /\ conn[c] = "open"

\* What await client.connect() can leave behind.  Its result is dropped: a
\* connect that fails quietly is followed by the same code as one that works.
\* A serial port opens even when the meter behind it is dead.
ConnectResults(c) == IF up THEN {"open"} ELSE {"open", conn[c]}

BuggyShouldReconnect(c) == failures[c] % ReconnectEvery = ReconnectEvery

\* _async_try_reconnect: attempt on failures 1, ReconnectEvery + 1, ...
ShouldReconnect(c) == failures[c] % ReconnectEvery = 0

\* += 1, of which nothing is read but the remainder.
CountFailure(c) == [failures EXCEPT ![c] = (@ + 1) % ReconnectEvery]

BuggyResetFailures(c) == failures

ResetFailures(c) == [failures EXCEPT ![c] = 0]

BuggyShow(c, success) == avail' = IF c = cur THEN avail \/ success ELSE avail

\* Of a coordinator the entry has dropped, no entity shows anything.
Show(c, success) == avail' = IF c = cur THEN success ELSE avail

BuggyCloseCurrent == UNCHANGED conn

\* device.close(), after which nothing of the entry refers to the client.
CloseCurrent == conn' = [conn EXCEPT ![cur] = "closed"]

BuggyNotifyListener == UNCHANGED pending

\* The entry was changed: _async_update_listener, if registered, reloads it.
NotifyListener ==
    IF listener
      THEN pending < MaxReloads /\ pending' = pending + 1
      ELSE UNCHANGED pending

\* Home Assistant cancels the entry's background tasks.  A refresh asked for
\* by a service call is none of them and goes on.
CancelPoll ==
    \/ poll' = [poll EXCEPT ![cur] = "none"]
    \/ "requested" \in Faults /\ UNCHANGED poll

\* Home Assistant begins async_setup_entry, under the setup lock.
StartSetup ==
    /\ entry' = "inProgress"
    /\ task' = "build"
    /\ reloading' = FALSE
    /\ cur' = NoClient

\* The setup ends without a loaded entry.  A ConfigEntryNotReady leaves the
\* entry to the retry timer, any other exception in error.
EndSetup(state) ==
    /\ entry' = state
    /\ task' = "idle"
    /\ cur' = NoClient
    /\ avail' = FALSE
    /\ UNCHANGED reloading

\* The except clauses around connect, identify and the first refresh.
AbandonSetup(state) == CloseCurrent /\ EndSetup(state)

---------------------------------------------------------------------------
(* Starting: the user enables the entry, or the retry timer fires.         *)

Enable ==
    /\ task = "idle" /\ entry = "notLoaded"
    /\ StartSetup
    /\ UNCHANGED <<requests, transport, identity, avail, interval, options, up>>

Retry ==
    /\ task = "idle" /\ entry = "retry"
    /\ StartSetup
    /\ UNCHANGED <<requests, transport, identity, avail, interval, options, up>>

---------------------------------------------------------------------------
(* async_setup_entry, one action per await it can be at.                   *)

BuildClient(c) ==
    /\ task = "build"
    /\ conn[c] = "closed" /\ poll[c] = "none"
    /\ cur' = c
    /\ failures' = ResetFailures(c)
    /\ task' = "connect"
    /\ UNCHANGED <<entry, reloading, requests, conn, poll, identity,
                   avail, interval, options, up>>

\* The serial port is not there: an Em300Exception before there is a client.
BuildFails ==
    /\ task = "build" /\ ~up
    /\ EndSetup("retry")
    /\ UNCHANGED <<requests, transport, identity, interval, options, up>>

SetupConnects ==
    /\ task = "connect"
    /\ \E result \in ConnectResults(cur) : conn' = [conn EXCEPT ![cur] = result]
    /\ task' = "identify"
    /\ UNCHANGED <<entry, reloading, cur, requests, poll, failures, identity,
                   avail, interval, options, up>>

ConnectFails ==
    /\ task = "connect" /\ ~up
    /\ AbandonSetup("retry")
    /\ UNCHANGED <<requests, poll, failures, identity, interval, options, up>>

BuggyIdentifiedSeries(code) == code

\* identify() tolerates every failed read, so it always returns; a code that
\* names a series wins over the remembered one.
IdentifiedSeries(code) == IF code = NoSeries THEN remembered ELSE code

\* _async_remember_series; a write to the entry calls its update listener.
RememberSeries(series) ==
    /\ remembered' = IF series = NoSeries THEN remembered ELSE series
    /\ IF remembered' # remembered THEN NotifyListener ELSE UNCHANGED pending

\* _scan_interval: the entry's options, read once per setup.
ScanInterval == options

Identify ==
    /\ task = "identify"
    /\ \E code \in Series \cup {NoSeries} :
          /\ code # NoSeries => Answers(cur)
          /\ narrowed' = IdentifiedSeries(code)
          /\ RememberSeries(IdentifiedSeries(code))
    /\ interval' = ScanInterval
    /\ task' = "refresh"
    /\ UNCHANGED <<entry, reloading, cur, listener, transport, avail, options, up>>

\* Line 45: an exception nobody named, from connect or identify.
SetupBreaks ==
    /\ "unexpected" \in Faults
    /\ task \in {"connect", "identify"} /\ ~Answers(cur)
    /\ AbandonSetup("error")
    /\ UNCHANGED <<requests, poll, failures, identity, interval, options, up>>

FirstRefreshDelivers ==
    /\ task = "refresh" /\ Answers(cur)
    /\ failures' = ResetFailures(cur)
    /\ avail' = TRUE
    /\ task' = "forward"
    /\ UNCHANGED <<entry, reloading, cur, requests, conn, poll, identity,
                   interval, options, up>>

BuggyFirstRefreshFails ==
    /\ task = "refresh" /\ ~Answers(cur)
    /\ failures' = CountFailure(cur)
    /\ UNCHANGED <<lifecycle, requests, conn, poll, identity,
                   avail, interval, options, up>>

FirstRefreshFails ==
    /\ task = "refresh" /\ ~Answers(cur)
    /\ failures' = CountFailure(cur)
    /\ IF ShouldReconnect(cur)
         THEN task' = "reconnect" /\ UNCHANGED <<entry, reloading, cur, conn, avail>>
         ELSE AbandonSetup("retry")
    /\ UNCHANGED <<requests, poll, identity, interval, options, up>>

\* Whatever the read raised, Home Assistant turns it into ConfigEntryNotReady.
FirstRefreshBreaks ==
    /\ "unexpected" \in Faults
    /\ task = "refresh" /\ ~Answers(cur)
    /\ AbandonSetup("retry")
    /\ UNCHANGED <<requests, poll, failures, identity, interval, options, up>>

\* The reconnect of a failed first refresh.  UpdateFailed follows whether it
\* worked or not, and the connection is closed in the same stretch of code.
FirstReconnect ==
    /\ task = "reconnect"
    /\ AbandonSetup("retry")
    /\ UNCHANGED <<requests, poll, failures, identity, interval, options, up>>

ForwardSucceeds ==
    /\ task = "forward"
    /\ entry' = "loaded"
    /\ task' = "idle"
    /\ listener' = TRUE
    /\ UNCHANGED <<reloading, cur, pending, transport, identity,
                   avail, interval, options, up>>

\* An exception that no except clause catches: nothing closes the client.
LeaveSetup ==
    /\ EndSetup("error")
    /\ IF cur = NoClient THEN UNCHANGED poll ELSE CancelPoll
    /\ UNCHANGED <<requests, conn, failures, identity, interval, options, up>>

\* Outside the try.
ForwardFails ==
    /\ "forward" \in Faults
    /\ task = "forward"
    /\ LeaveSetup

\* CancelledError is no Exception: line 45 does not catch it.
SetupCancelled ==
    /\ "cancelled" \in Faults
    /\ task \in SetupAwaits
    /\ LeaveSetup

---------------------------------------------------------------------------
(* The coordinator.  There are polls only while there are entities.        *)

HasEntities ==
    \/ task \in {"forward", "unload"}
    \/ task = "idle" /\ entry \in {"loaded", "failedUnload"}

PollStart(c) ==
    /\ c = cur /\ HasEntities
    /\ poll[c] = "none"
    /\ poll' = [poll EXCEPT ![c] = "reading"]
    /\ UNCHANGED <<lifecycle, requests, conn, failures, identity,
                   avail, interval, options, up>>

PollDelivers(c) ==
    /\ poll[c] = "reading" /\ Answers(c)
    /\ poll' = [poll EXCEPT ![c] = "none"]
    /\ failures' = ResetFailures(c)
    /\ Show(c, TRUE)
    /\ UNCHANGED <<lifecycle, requests, conn, identity, interval, options, up>>

PollFails(c) ==
    /\ poll[c] = "reading" /\ ~Answers(c)
    /\ failures' = CountFailure(c)
    /\ IF ShouldReconnect(c)
         THEN poll' = [poll EXCEPT ![c] = "connecting"] /\ UNCHANGED avail
         ELSE poll' = [poll EXCEPT ![c] = "none"] /\ Show(c, FALSE)
    /\ UNCHANGED <<lifecycle, requests, conn, identity, interval, options, up>>

\* An exception nobody named passes by the reconnect and the count.
PollBreaks(c) ==
    /\ "unexpected" \in Faults
    /\ poll[c] = "reading" /\ ~Answers(c)
    /\ poll' = [poll EXCEPT ![c] = "none"]
    /\ Show(c, FALSE)
    /\ UNCHANGED <<lifecycle, requests, conn, failures, identity,
                   interval, options, up>>

\* Whatever connect() raises is swallowed: its result is the old connection.
PollReconnects(c) ==
    /\ poll[c] = "connecting"
    /\ \E result \in ConnectResults(c) : conn' = [conn EXCEPT ![c] = result]
    /\ poll' = [poll EXCEPT ![c] = "none"]
    /\ Show(c, FALSE)
    /\ UNCHANGED <<lifecycle, requests, failures, identity, interval, options, up>>

---------------------------------------------------------------------------
(* Unloading and reloading.                                                *)

\* The user disables or removes the entry.
Disable ==
    /\ task = "idle" /\ entry = "loaded"
    /\ task' = "unload"
    /\ UNCHANGED <<entry, reloading, cur, requests, transport, identity,
                   avail, interval, options, up>>

\* async_reload gets the setup lock.  An entry that is not loaded is set up
\* straight away; one whose unload failed is left as it is.
BeginReload ==
    /\ task = "idle" /\ pending > 0
    /\ pending' = pending - 1
    /\ \/ /\ entry = "loaded"
          /\ task' = "unload"
          /\ reloading' = TRUE
          /\ UNCHANGED <<entry, cur>>
       \/ entry = "failedUnload" /\ UNCHANGED lifecycle
       \/ entry \notin {"loaded", "failedUnload"} /\ StartSetup
    /\ UNCHANGED <<listener, transport, identity, avail, interval, options, up>>

BuggyRunUnloadCallbacks == CancelPoll /\ UNCHANGED listener

\* entry.async_on_unload: the update listener goes, and so do the polls.
RunUnloadCallbacks == CancelPoll /\ listener' = FALSE

\* The platforms are unloaded: close, run the unload callbacks, cancel.
UnloadSucceeds ==
    /\ task = "unload"
    /\ CloseCurrent
    /\ RunUnloadCallbacks
    /\ avail' = FALSE
    /\ IF reloading
         THEN StartSetup
         ELSE /\ entry' = "notLoaded" /\ task' = "idle" /\ cur' = NoClient
              /\ UNCHANGED reloading
    /\ UNCHANGED <<pending, failures, identity, interval, options, up>>

\* async_unload_platforms returned False: nothing is closed.
UnloadRefused ==
    /\ "unload" \in Faults
    /\ task = "unload"
    /\ entry' = "failedUnload"
    /\ task' = "idle"
    /\ reloading' = FALSE
    /\ UNCHANGED <<cur, requests, transport, identity, avail, interval, options, up>>

---------------------------------------------------------------------------
(* The user and the link.                                                  *)

\* The options flow saves; the update listener, if there is one, reloads.
ChangeOptions ==
    /\ task \in PastInterval => "late" \in Faults
    /\ options' \in Intervals \ {options}
    /\ NotifyListener
    /\ UNCHANGED <<lifecycle, listener, transport, identity, avail, interval, up>>

RequestReload ==
    /\ pending < MaxReloads
    /\ pending' = pending + 1
    /\ UNCHANGED <<lifecycle, listener, transport, identity,
                   avail, interval, options, up>>

\* The meter stops answering; connections to it may be lost for good, and
\* then "do not heal on their own" (coordinator.py:23-25).
LinkDrops ==
    /\ up
    /\ up' = FALSE
    /\ \/ UNCHANGED conn
       \/ conn' = [c \in Clients |-> IF conn[c] = "open" THEN "broken" ELSE conn[c]]
    /\ UNCHANGED <<lifecycle, requests, poll, failures, identity,
                   avail, interval, options>>

LinkReturns ==
    /\ ~up
    /\ up' = TRUE
    /\ UNCHANGED <<lifecycle, requests, transport, identity,
                   avail, interval, options>>

---------------------------------------------------------------------------

Setup ==
    \/ \E c \in Clients : BuildClient(c)
    \/ BuildFails
    \/ SetupConnects \/ ConnectFails
    \/ Identify \/ SetupBreaks
    \/ FirstRefreshDelivers \/ FirstRefreshFails \/ FirstRefreshBreaks
    \/ FirstReconnect
    \/ ForwardSucceeds \/ ForwardFails
    \/ SetupCancelled

Unload == UnloadSucceeds \/ UnloadRefused

PollEnds(c) == PollDelivers(c) \/ PollFails(c) \/ PollBreaks(c) \/ PollReconnects(c)

Next ==
    \/ Enable \/ Retry \/ Setup
    \/ \E c \in Clients : PollStart(c) \/ PollEnds(c)
    \/ Disable \/ BeginReload \/ Unload
    \/ ChangeOptions \/ RequestReload
    \/ LinkDrops \/ LinkReturns

Spec == Init /\ [][Next]_vars

\* Every await of the code ends (requests time out), the event loop runs every
\* task that is ready, and Home Assistant's timers fire.  The user, the link
\* and the faults are free.
Fairness ==
    /\ WF_vars(Setup) /\ WF_vars(Unload)
    /\ WF_vars(Retry) /\ WF_vars(BeginReload)
    /\ \A c \in Clients : WF_vars(PollStart(c)) /\ WF_vars(PollEnds(c))

FairSpec == Spec /\ Fairness

---------------------------------------------------------------------------
(* Properties.                                                             *)

\* __init__.py:45-50, 59-65: a connection that is held belongs to the client
\* the running setup or the loaded entry refers to, so that someone can still
\* close it.  Whatever fails, and wherever, no other client keeps one.
NoLeakedConnection == \A c \in Clients : conn[c] # "closed" => c = cur

\* __init__.py:98-100 with options_flow.py:3-5: a loaded entry polls at the
\* interval its options say, unless the reload that will see to it is on its way.
FreshInterval ==
    entry = "loaded" /\ task = "idle" /\ pending = 0 => interval = options

\* __init__.py:76-95: once the setup is past identify, the register set is the
\* one of the series the entry remembers, whatever could be read this time.
RegistersFollowMemory ==
    task \in PastInterval \/ entry \in {"loaded", "failedUnload"}
        => narrowed = remembered

\* coordinator.py:75-115: while the entities show a delivered update and no
\* later one has failed, the count is zero.  A count left over from earlier
\* failures would put off the first reconnect of the next outage.
DeliveredResetsCount ==
    avail /\ poll[cur] # "connecting" => failures[cur] = 0

\* __init__.py:85-87: writing the series down never reloads the entry, because
\* no update listener is registered while a setup runs.
RememberingNeverReloads ==
    [][remembered' # remembered => pending' <= pending]_vars

\* coordinator.py:23-26: once the meter stays reachable, the entry delivers
\* again and again, unless it is disabled or was left for the user to repair.
Delivering == entry = "loaded" /\ avail
GivenUp == task = "idle" /\ entry \in {"notLoaded", "error", "failedUnload"}
Recovers == <>[]up => []<>(Delivering \/ GivenUp)

\* coordinator.py:85: it does as long as reads fail with nothing but what the
\* coordinator catches.
RecoversOnceCaught ==
    <>[]up /\ <>[][\A c \in Clients : ~PollBreaks(c)]_vars
        => []<>(Delivering \/ GivenUp)

\* sensor.py:57-62 with coordinator.py:78-81: when the meter stops answering for
\* good, its entities stop showing the last values they have, and for good.
StaleValuesExpire == <>[]~up => <>[]~avail

\* options_flow.py:3-5: a new interval takes effect; an entry does not stay
\* loaded with another one.
IntervalTakesEffect ==
    [](entry = "loaded" => <>(interval = options \/ entry # "loaded"))

\* The entry as the rest of Home Assistant sees it.
Phase == [notLoaded |-> "off", retry |-> "off", error |-> "off",
          inProgress |-> "starting", loaded |-> "on", failedUnload |-> "stuck"][entry]
Held == \E c \in Clients : conn[c] # "closed"

Contract == INSTANCE EntryContract WITH phase <- Phase, held <- Held, live <- avail

\* An entry that is not in use holds and shows nothing, in every state it can
\* come to rest in (the whole of __init__.py:21-65 against EntryContract).
KeepsContract == Contract!Spec

\* Every setup ends, with the entry loaded or everything released.
KeepsFairContract == Contract!FairSpec

---------------------------------------------------------------------------
(* Why a setup ends.                                                       *)

\* The awaits between where a setup is and its end, at most.
AwaitsLeft ==
    [build |-> 5, connect |-> 4, identify |-> 3,
     refresh |-> 2, reconnect |-> 1, forward |-> 1][task]

\* Which awaits can end: a client can be built if there is one that nothing of
\* an earlier setup uses, and the series written down if that asks for no reload.
SetupCanGoOn ==
    \/ task = "build" /\ \E c \in Clients : conn[c] = "closed" /\ poll[c] = "none"
    \/ task = "identify" /\ ~listener
    \/ task \in {"connect", "refresh", "reconnect", "forward"}

\* A step of a setup brings it closer to its end, or ends it with the entry
\* loaded or everything released.
SetupProgresses ==
    \/ task' \in SetupAwaits /\ entry' = entry /\ AwaitsLeft' < AwaitsLeft
    \/ task' = "idle" /\ entry' = "loaded"
    \/ task' = "idle" /\ entry' \in {"retry", "error"} /\ ~Held' /\ ~avail'

\* What remains of KeepsFairContract without fairness: a setup can always go on
\* (__init__.py:21-56), its steps make progress, and no others move it.
SetupEndsInTime ==
    /\ [](task \in SetupAwaits => SetupCanGoOn)
    /\ [][IF task \in SetupAwaits /\ Setup THEN SetupProgresses
          ELSE task \in SetupAwaits => UNCHANGED lifecycle]_vars

---------------------------------------------------------------------------
(* The inductive invariants behind the safety properties.                  *)

\* The setup lock: the awaits of a setup go with the state Home Assistant
\* shows for it, an unload with a loaded entry.
TaskMatchesEntry ==
    /\ task \in SetupAwaits <=> entry = "inProgress"
    /\ task = "unload" => entry = "loaded"

ClientMatchesEntry ==
    cur = NoClient <=> task = "build" \/ entry \in {"notLoaded", "retry", "error"}

ListenerMatchesEntry == listener <=> entry \in {"loaded", "failedUnload"}

ValuesNeedEntities == avail => HasEntities

PollsNeedEntities == \A c \in Clients : c = cur /\ poll[c] # "none" => HasEntities

\* Holds whatever the faults.
BaseInv ==
    /\ TypeOK
    /\ TaskMatchesEntry
    /\ ClientMatchesEntry
    /\ ListenerMatchesEntry
    /\ ValuesNeedEntities
    /\ PollsNeedEntities
    /\ RegistersFollowMemory
    /\ DeliveredResetsCount

\* No update outlives its entry.
PollsBelongToEntry == \A c \in Clients : poll[c] # "none" => c = cur

\* Holds unless a requested refresh survives an unload, the platform raises or
\* a setup is cancelled.
OwnershipInv == BaseInv /\ NoLeakedConnection /\ PollsBelongToEntry

\* Holds unless the options change late in a setup.
IntervalInv ==
    /\ BaseInv
    /\ task \in PastInterval => interval = options
    /\ FreshInterval
===========================================================================
