-------------------------- MODULE Em300EntryProofs --------------------------
(***************************************************************************)
(* Proofs about Em300Entry, for every set of clients, series and           *)
(* intervals, every ReconnectEvery and every bound on waiting reloads.     *)
(***************************************************************************)
EXTENDS Em300Entry, TLAPS

\* _failure_count modulo ReconnectEvery stays below ReconnectEvery
\* (coordinator.py:107-108).
LEMMA CountInRange ==
    ASSUME NEW n \in Nat, NEW m \in Nat \ {0}
    PROVE  n % m \in 0..(m - 1)
  OBVIOUS

\* Counting a failure keeps every count in range.
LEMMA CountFailureType ==
    ASSUME TypeOK, NEW c \in Clients
    PROVE  CountFailure(c) \in [Clients -> 0..(ReconnectEvery - 1)]
<1>1. failures[c] + 1 \in Nat
  BY ConstantsAssumption DEF TypeOK
<1>2. (failures[c] + 1) % ReconnectEvery \in 0..(ReconnectEvery - 1)
  BY <1>1, CountInRange, ConstantsAssumption
<1> QED
  BY <1>2 DEF TypeOK, CountFailure

\* A connect leaves a connection in one of its states (client.py:56-58).
LEMMA ConnectResultsType ==
    ASSUME TypeOK, NEW c \in Clients
    PROVE  ConnectResults(c) \subseteq {"closed", "open", "broken"}
  BY DEF TypeOK, ConnectResults

---------------------------------------------------------------------------
(* Type correctness.                                                       *)

\* No step of the code or of its surroundings leaves the types.  While a
\* client is used there is one: ClientMatchesEntry and TaskMatchesEntry.
LEMMA TypeStep ==
    ASSUME TypeOK, TaskMatchesEntry, ClientMatchesEntry, [Next]_vars
    PROVE  TypeOK'
<1> USE DEF TypeOK, EntryStates, Awaits, SetupAwaits,
            lifecycle, requests, transport, identity
<1>a. task \notin {"idle", "build"} => cur \in Clients
  BY DEF TaskMatchesEntry, ClientMatchesEntry
<1>b. 0 \in 0..(ReconnectEvery - 1)
  BY ConstantsAssumption
<1>1. CASE Enable
  BY <1>1 DEF Enable, StartSetup
<1>2. CASE Retry
  BY <1>2 DEF Retry, StartSetup
<1>3. ASSUME NEW c \in Clients, BuildClient(c)
      PROVE  TypeOK'
  BY <1>3, <1>b DEF BuildClient, ResetFailures
<1>4. CASE BuildFails
  BY <1>4 DEF BuildFails, EndSetup
<1>5. CASE SetupConnects
  BY <1>5, <1>a, ConnectResultsType DEF SetupConnects
<1>6. CASE ConnectFails
  BY <1>6 DEF ConnectFails, AbandonSetup, CloseCurrent, EndSetup
<1>7. CASE Identify
  <2>1. PICK code \in Series \cup {NoSeries} :
               /\ narrowed' = IdentifiedSeries(code)
               /\ RememberSeries(IdentifiedSeries(code))
    BY <1>7 DEF Identify
  <2>2. IdentifiedSeries(code) \in Series \cup {NoSeries}
    BY DEF IdentifiedSeries
  <2>3. /\ narrowed' \in Series \cup {NoSeries}
        /\ remembered' \in Series \cup {NoSeries}
    BY <2>1, <2>2 DEF RememberSeries
  <2>4. pending' \in 0..MaxReloads
    BY <2>1, ConstantsAssumption DEF RememberSeries, NotifyListener
  <2> QED
    BY <1>7, <2>3, <2>4 DEF Identify, ScanInterval
<1>8. CASE SetupBreaks
  BY <1>8 DEF SetupBreaks, AbandonSetup, CloseCurrent, EndSetup
<1>9. CASE FirstRefreshDelivers
  BY <1>9, <1>b DEF FirstRefreshDelivers, ResetFailures
<1>10. CASE FirstRefreshFails
  <2>1. failures' \in [Clients -> 0..(ReconnectEvery - 1)]
    BY <1>10, <1>a, CountFailureType DEF FirstRefreshFails
  <2>2. CASE ShouldReconnect(cur)
    BY <1>10, <2>1, <2>2 DEF FirstRefreshFails
  <2>3. CASE ~ShouldReconnect(cur)
    BY <1>10, <2>1, <2>3 DEF FirstRefreshFails, AbandonSetup, CloseCurrent, EndSetup
  <2> QED
    BY <2>2, <2>3
<1>11. CASE FirstRefreshBreaks
  BY <1>11 DEF FirstRefreshBreaks, AbandonSetup, CloseCurrent, EndSetup
<1>12. CASE FirstReconnect
  BY <1>12 DEF FirstReconnect, AbandonSetup, CloseCurrent, EndSetup
<1>13. CASE ForwardSucceeds
  BY <1>13 DEF ForwardSucceeds
<1>14. CASE ForwardFails \/ SetupCancelled
  BY <1>14 DEF ForwardFails, SetupCancelled, LeaveSetup, EndSetup, CancelPoll
<1>15. ASSUME NEW c \in Clients, PollStart(c)
       PROVE  TypeOK'
  BY <1>15 DEF PollStart
<1>16. ASSUME NEW c \in Clients, PollDelivers(c)
       PROVE  TypeOK'
  <2>1. /\ failures' \in [Clients -> 0..(ReconnectEvery - 1)]
        /\ poll' \in [Clients -> {"none", "reading", "connecting"}]
    BY <1>16, <1>b DEF PollDelivers, ResetFailures
  <2>2. avail' \in BOOLEAN
    BY <1>16 DEF PollDelivers, Show
  <2> QED
    BY <1>16, <2>1, <2>2 DEF PollDelivers
<1>17. ASSUME NEW c \in Clients, PollFails(c)
       PROVE  TypeOK'
  <2>1. failures' \in [Clients -> 0..(ReconnectEvery - 1)]
    BY <1>17, CountFailureType DEF PollFails
  <2>2. /\ poll' \in [Clients -> {"none", "reading", "connecting"}]
        /\ avail' \in BOOLEAN
    BY <1>17 DEF PollFails, Show
  <2> QED
    BY <1>17, <2>1, <2>2 DEF PollFails
<1>18. ASSUME NEW c \in Clients, PollBreaks(c)
       PROVE  TypeOK'
  <2>1. /\ poll' \in [Clients -> {"none", "reading", "connecting"}]
        /\ avail' \in BOOLEAN
    BY <1>18 DEF PollBreaks, Show
  <2> QED
    BY <1>18, <2>1 DEF PollBreaks
<1>19. ASSUME NEW c \in Clients, PollReconnects(c)
       PROVE  TypeOK'
  <2>1. conn' \in [Clients -> {"closed", "open", "broken"}]
    BY <1>19, ConnectResultsType DEF PollReconnects
  <2>2. /\ poll' \in [Clients -> {"none", "reading", "connecting"}]
        /\ avail' \in BOOLEAN
    BY <1>19 DEF PollReconnects, Show
  <2> QED
    BY <1>19, <2>1, <2>2 DEF PollReconnects
<1>20. CASE Disable
  BY <1>20 DEF Disable
<1>21. CASE BeginReload
  <2>1. pending' \in 0..MaxReloads
    BY <1>21, ConstantsAssumption DEF BeginReload
  <2>2. /\ entry' \in EntryStates /\ task' \in Awaits
        /\ reloading' \in BOOLEAN /\ cur' \in Clients \cup {NoClient}
    BY <1>21 DEF BeginReload, StartSetup
  <2> QED
    BY <1>21, <2>1, <2>2 DEF BeginReload
<1>22. CASE UnloadSucceeds
  BY <1>22 DEF UnloadSucceeds, CloseCurrent, CancelPoll, RunUnloadCallbacks, StartSetup
<1>23. CASE UnloadRefused
  BY <1>23 DEF UnloadRefused
<1>24. CASE ChangeOptions
  BY <1>24, ConstantsAssumption DEF ChangeOptions, NotifyListener
<1>25. CASE RequestReload
  BY <1>25, ConstantsAssumption DEF RequestReload
<1>26. CASE LinkDrops
  <2>1. conn' \in [Clients -> {"closed", "open", "broken"}]
    BY <1>26 DEF LinkDrops
  <2>2. /\ up' \in BOOLEAN
        /\ UNCHANGED <<lifecycle, requests, poll, failures, identity,
                       avail, interval, options>>
    BY <1>26 DEF LinkDrops
  <2> QED
    BY <2>1, <2>2
<1>27. CASE LinkReturns
  BY <1>27 DEF LinkReturns
<1>28. CASE UNCHANGED vars
  BY <1>28 DEF vars
<1> QED
  BY <1>1, <1>2, <1>3, <1>4, <1>5, <1>6, <1>7, <1>8, <1>9, <1>10, <1>11,
     <1>12, <1>13, <1>14, <1>15, <1>16, <1>17, <1>18, <1>19, <1>20, <1>21,
     <1>22, <1>23, <1>24, <1>25, <1>26, <1>27, <1>28
  DEF Next, Setup, Unload, PollEnds

---------------------------------------------------------------------------
(* The invariant that needs no assumption about faults.                    *)

\* The setup lock is respected: no step of the surroundings or of the polls
\* moves the lifecycle, and the lifecycle's own steps keep await and state
\* together (__init__.py:21-65).
LEMMA TaskStep ==
    ASSUME TaskMatchesEntry, [Next]_vars
    PROVE  TaskMatchesEntry'
<1> USE DEF TaskMatchesEntry, SetupAwaits, lifecycle
<1>1. CASE Enable \/ Retry \/ Disable \/ BeginReload \/ Unload
  BY <1>1 DEF Enable, Retry, Disable, BeginReload, Unload, UnloadSucceeds,
              UnloadRefused, StartSetup
<1>2. CASE Setup
  BY <1>2 DEF Setup, BuildClient, BuildFails, SetupConnects, ConnectFails,
              Identify, SetupBreaks, FirstRefreshDelivers, FirstRefreshFails,
              FirstRefreshBreaks, FirstReconnect, ForwardSucceeds,
              ForwardFails, SetupCancelled, LeaveSetup, AbandonSetup, EndSetup
<1>3. CASE \E c \in Clients : PollStart(c) \/ PollEnds(c)
  BY <1>3 DEF PollStart, PollEnds, PollDelivers, PollFails, PollBreaks,
              PollReconnects
<1>4. CASE ChangeOptions \/ RequestReload \/ LinkDrops \/ LinkReturns
  BY <1>4 DEF ChangeOptions, RequestReload, LinkDrops, LinkReturns
<1>5. CASE UNCHANGED vars
  BY <1>5 DEF vars
<1> QED
  BY <1>1, <1>2, <1>3, <1>4, <1>5 DEF Next

\* The entry refers to a client from the moment one is built until it is
\* given up, and not longer.
LEMMA ClientStep ==
    ASSUME TaskMatchesEntry, ClientMatchesEntry, [Next]_vars
    PROVE  ClientMatchesEntry'
<1> USE DEF TaskMatchesEntry, ClientMatchesEntry, SetupAwaits, lifecycle
<1>1. CASE Enable \/ Retry \/ Disable \/ BeginReload \/ Unload
  BY <1>1 DEF Enable, Retry, Disable, BeginReload, Unload, UnloadSucceeds,
              UnloadRefused, StartSetup
<1>2. CASE Setup
  BY <1>2, ConstantsAssumption
  DEF Setup, BuildClient, BuildFails, SetupConnects, ConnectFails,
      Identify, SetupBreaks, FirstRefreshDelivers, FirstRefreshFails,
      FirstRefreshBreaks, FirstReconnect, ForwardSucceeds,
      ForwardFails, SetupCancelled, LeaveSetup, AbandonSetup, EndSetup
<1>3. CASE \E c \in Clients : PollStart(c) \/ PollEnds(c)
  BY <1>3 DEF PollStart, PollEnds, PollDelivers, PollFails, PollBreaks,
              PollReconnects
<1>4. CASE ChangeOptions \/ RequestReload \/ LinkDrops \/ LinkReturns
  BY <1>4 DEF ChangeOptions, RequestReload, LinkDrops, LinkReturns
<1>5. CASE UNCHANGED vars
  BY <1>5 DEF vars
<1> QED
  BY <1>1, <1>2, <1>3, <1>4, <1>5 DEF Next

\* The listener is there exactly as long as a reload has something to unload.
LEMMA ListenerStep ==
    ASSUME TaskMatchesEntry, ListenerMatchesEntry, [Next]_vars
    PROVE  ListenerMatchesEntry'
<1> USE DEF TaskMatchesEntry, ListenerMatchesEntry, SetupAwaits, lifecycle, requests
<1>1. CASE Enable \/ Retry \/ Disable \/ BeginReload \/ Unload
  BY <1>1 DEF Enable, Retry, Disable, BeginReload, Unload, UnloadSucceeds, RunUnloadCallbacks,
              UnloadRefused, StartSetup
<1>2. CASE Setup
  BY <1>2 DEF Setup, BuildClient, BuildFails, SetupConnects, ConnectFails,
              Identify, SetupBreaks, FirstRefreshDelivers, FirstRefreshFails,
              FirstRefreshBreaks, FirstReconnect, ForwardSucceeds,
              ForwardFails, SetupCancelled, LeaveSetup, AbandonSetup, EndSetup
<1>3. CASE \E c \in Clients : PollStart(c) \/ PollEnds(c)
  BY <1>3 DEF PollStart, PollEnds, PollDelivers, PollFails, PollBreaks,
              PollReconnects
<1>4. CASE ChangeOptions \/ RequestReload \/ LinkDrops \/ LinkReturns
  BY <1>4 DEF ChangeOptions, RequestReload, LinkDrops, LinkReturns
<1>5. CASE UNCHANGED vars
  BY <1>5 DEF vars
<1> QED
  BY <1>1, <1>2, <1>3, <1>4, <1>5 DEF Next

\* An update of the entry's own coordinator runs only while the entry has
\* entities: a fresh client has none in flight.
LEMMA PollsStep ==
    ASSUME TypeOK, TaskMatchesEntry, ClientMatchesEntry, PollsNeedEntities, [Next]_vars
    PROVE  PollsNeedEntities'
<1> USE DEF TypeOK, TaskMatchesEntry, ClientMatchesEntry, PollsNeedEntities, HasEntities,
            SetupAwaits, lifecycle, transport
<1>1. CASE Enable \/ Retry \/ Disable \/ BeginReload
  BY <1>1, ConstantsAssumption DEF Enable, Retry, Disable, BeginReload, StartSetup
<1>2. CASE Unload
  BY <1>2, ConstantsAssumption
  DEF Unload, UnloadSucceeds, UnloadRefused, StartSetup
<1>3. ASSUME NEW c \in Clients, BuildClient(c)
      PROVE  PollsNeedEntities'
  BY <1>3 DEF BuildClient
<1>4. CASE BuildFails \/ ConnectFails \/ SetupBreaks \/ FirstRefreshBreaks
           \/ FirstReconnect \/ ForwardFails \/ SetupCancelled
  BY <1>4, ConstantsAssumption
  DEF BuildFails, ConnectFails, SetupBreaks, FirstRefreshBreaks, FirstReconnect,
      ForwardFails, SetupCancelled, LeaveSetup, AbandonSetup, EndSetup
<1>5. CASE SetupConnects \/ Identify \/ FirstRefreshDelivers \/ ForwardSucceeds
  BY <1>5 DEF SetupConnects, Identify, FirstRefreshDelivers, ForwardSucceeds
<1>6. CASE FirstRefreshFails
  BY <1>6, ConstantsAssumption DEF FirstRefreshFails, AbandonSetup, EndSetup
<1>7. ASSUME NEW c \in Clients, PollStart(c) \/ PollEnds(c)
      PROVE  PollsNeedEntities'
  BY <1>7 DEF PollStart, PollEnds, PollDelivers, PollFails, PollBreaks,
              PollReconnects
<1>8. CASE ChangeOptions \/ RequestReload \/ LinkDrops \/ LinkReturns
  BY <1>8 DEF ChangeOptions, RequestReload, LinkDrops, LinkReturns
<1>9. CASE UNCHANGED vars
  BY <1>9 DEF vars
<1> QED
  BY <1>1, <1>2, <1>3, <1>4, <1>5, <1>6, <1>7, <1>8, <1>9 DEF Next, Setup

\* Values are shown only by entities, and an update shows them only through
\* the coordinator the entry still refers to.
LEMMA ValuesStep ==
    ASSUME TypeOK, TaskMatchesEntry, PollsNeedEntities, ValuesNeedEntities, [Next]_vars
    PROVE  ValuesNeedEntities'
<1> USE DEF TypeOK, TaskMatchesEntry, PollsNeedEntities, ValuesNeedEntities, HasEntities,
            SetupAwaits, lifecycle
<1>1. CASE Enable \/ Retry \/ Disable \/ BeginReload \/ Unload
  BY <1>1 DEF Enable, Retry, Disable, BeginReload, Unload, UnloadSucceeds,
              UnloadRefused, StartSetup
<1>2. CASE Setup
  BY <1>2 DEF Setup, BuildClient, BuildFails, SetupConnects, ConnectFails,
              Identify, SetupBreaks, FirstRefreshDelivers, FirstRefreshFails,
              FirstRefreshBreaks, FirstReconnect, ForwardSucceeds,
              ForwardFails, SetupCancelled, LeaveSetup, AbandonSetup, EndSetup
<1>3. ASSUME NEW c \in Clients, PollStart(c) \/ PollEnds(c)
      PROVE  ValuesNeedEntities'
  <2>1. CASE PollStart(c)
    BY <2>1 DEF PollStart
  <2>2. CASE PollEnds(c)
    BY <2>2 DEF PollEnds, PollDelivers, PollFails, PollBreaks, PollReconnects, Show
  <2> QED
    BY <1>3, <2>1, <2>2
<1>4. CASE ChangeOptions \/ RequestReload \/ LinkDrops \/ LinkReturns
  BY <1>4 DEF ChangeOptions, RequestReload, LinkDrops, LinkReturns
<1>5. CASE UNCHANGED vars
  BY <1>5 DEF vars
<1> QED
  BY <1>1, <1>2, <1>3, <1>4, <1>5 DEF Next

\* identify, the fallback and _async_remember_series agree: past them the
\* register set is that of the remembered series.
LEMMA RegistersStep ==
    ASSUME TaskMatchesEntry, RegistersFollowMemory, [Next]_vars
    PROVE  RegistersFollowMemory'
<1> USE DEF TaskMatchesEntry, RegistersFollowMemory, PastInterval, SetupAwaits,
            lifecycle, identity
<1>1. CASE Enable \/ Retry \/ Disable \/ BeginReload \/ Unload
  BY <1>1 DEF Enable, Retry, Disable, BeginReload, Unload, UnloadSucceeds,
              UnloadRefused, StartSetup
<1>2. CASE Identify
  <2>1. PICK code \in Series \cup {NoSeries} :
               /\ narrowed' = IdentifiedSeries(code)
               /\ RememberSeries(IdentifiedSeries(code))
    BY <1>2 DEF Identify
  <2>2. CASE IdentifiedSeries(code) = NoSeries
    BY <2>1, <2>2 DEF IdentifiedSeries, RememberSeries
  <2>3. CASE IdentifiedSeries(code) # NoSeries
    BY <2>1, <2>3 DEF RememberSeries
  <2> QED
    BY <2>2, <2>3
<1>3. CASE Setup /\ ~Identify
  BY <1>3 DEF Setup, BuildClient, BuildFails, SetupConnects, ConnectFails,
              SetupBreaks, FirstRefreshDelivers, FirstRefreshFails,
              FirstRefreshBreaks, FirstReconnect, ForwardSucceeds,
              ForwardFails, SetupCancelled, LeaveSetup, AbandonSetup, EndSetup
<1>4. CASE \E c \in Clients : PollStart(c) \/ PollEnds(c)
  BY <1>4 DEF PollStart, PollEnds, PollDelivers, PollFails, PollBreaks,
              PollReconnects
<1>5. CASE ChangeOptions \/ RequestReload \/ LinkDrops \/ LinkReturns
  BY <1>5 DEF ChangeOptions, RequestReload, LinkDrops, LinkReturns
<1>6. CASE UNCHANGED vars
  BY <1>6 DEF vars
<1> QED
  BY <1>1, <1>2, <1>3, <1>4, <1>5, <1>6 DEF Next

\* The count is zero whenever an update was delivered and none failed since.
LEMMA CountStep ==
    ASSUME TypeOK, TaskMatchesEntry, ClientMatchesEntry, ValuesNeedEntities,
           DeliveredResetsCount, [Next]_vars
    PROVE  DeliveredResetsCount'
<1> USE DEF TypeOK, TaskMatchesEntry, ClientMatchesEntry, ValuesNeedEntities,
            HasEntities, DeliveredResetsCount, SetupAwaits, lifecycle, transport
<1>1. CASE Enable \/ Retry \/ Disable \/ BeginReload
  BY <1>1 DEF Enable, Retry, Disable, BeginReload, StartSetup
<1>2. CASE Unload
  BY <1>2 DEF Unload, UnloadSucceeds, UnloadRefused
<1>3. CASE \E c \in Clients : BuildClient(c)
  BY <1>3 DEF BuildClient
<1>4. CASE BuildFails \/ ConnectFails \/ SetupBreaks \/ FirstRefreshBreaks
           \/ FirstReconnect \/ ForwardFails \/ SetupCancelled
  BY <1>4
  DEF BuildFails, ConnectFails, SetupBreaks, FirstRefreshBreaks, FirstReconnect,
      ForwardFails, SetupCancelled, LeaveSetup, AbandonSetup, EndSetup
<1>5. CASE SetupConnects \/ Identify \/ ForwardSucceeds
  BY <1>5 DEF SetupConnects, Identify, ForwardSucceeds
<1>6. CASE FirstRefreshDelivers
  BY <1>6 DEF FirstRefreshDelivers, ResetFailures
<1>7. CASE FirstRefreshFails
  BY <1>7 DEF FirstRefreshFails, AbandonSetup, EndSetup
<1>8. ASSUME NEW c \in Clients, PollStart(c) \/ PollEnds(c)
      PROVE  DeliveredResetsCount'
  <2>1. CASE PollStart(c)
    BY <2>1 DEF PollStart
  <2>2. CASE PollDelivers(c)
    BY <2>2 DEF PollDelivers, ResetFailures, Show
  <2>3. CASE PollFails(c)
    BY <2>3 DEF PollFails, CountFailure, Show
  <2>4. CASE PollBreaks(c)
    BY <2>4 DEF PollBreaks, Show
  <2>5. CASE PollReconnects(c)
    BY <2>5 DEF PollReconnects, Show
  <2> QED
    BY <1>8, <2>1, <2>2, <2>3, <2>4, <2>5 DEF PollEnds
<1>9. CASE ChangeOptions \/ RequestReload \/ LinkDrops \/ LinkReturns
  BY <1>9 DEF ChangeOptions, RequestReload, LinkDrops, LinkReturns
<1>10. CASE UNCHANGED vars
  BY <1>10 DEF vars
<1> QED
  BY <1>1, <1>2, <1>3, <1>4, <1>5, <1>6, <1>7, <1>8, <1>9, <1>10 DEF Next, Setup

LEMMA BaseInit == Init => BaseInv
<1> SUFFICES ASSUME Init PROVE BaseInv
  OBVIOUS
<1>1. TypeOK
  <2>1. /\ 0 \in 0..(ReconnectEvery - 1)
        /\ 0 \in 0..MaxReloads
    BY ConstantsAssumption
  <2> QED
    BY <2>1 DEF Init, TypeOK, EntryStates, Awaits
<1>2. /\ TaskMatchesEntry /\ ClientMatchesEntry /\ ListenerMatchesEntry
      /\ ValuesNeedEntities /\ PollsNeedEntities
      /\ RegistersFollowMemory /\ DeliveredResetsCount
  BY DEF Init, TaskMatchesEntry, ClientMatchesEntry, ListenerMatchesEntry,
         ValuesNeedEntities, PollsNeedEntities, RegistersFollowMemory,
         DeliveredResetsCount, SetupAwaits, PastInterval
<1> QED
  BY <1>1, <1>2 DEF BaseInv

LEMMA BaseStep == BaseInv /\ [Next]_vars => BaseInv'
  BY TypeStep, TaskStep, ClientStep, ListenerStep, ValuesStep, PollsStep,
     RegistersStep, CountStep
  DEF BaseInv

\* The part of the invariant that holds whatever the surroundings do.
THEOREM BaseInvariant == Spec => []BaseInv
  BY BaseInit, BaseStep, PTL DEF Spec

\* Every variable keeps its type (all of __init__.py and coordinator.py).
THEOREM TypeCorrect == Spec => []TypeOK
<1>1. BaseInv => TypeOK
  BY DEF BaseInv
<1> QED
  BY <1>1, BaseInvariant, PTL

\* Whatever could be read, the entities a setup creates are those of the series
\* the entry remembers (__init__.py:35-40, device.py:86-110).
THEOREM RegistersAreRemembered == Spec => []RegistersFollowMemory
<1>1. BaseInv => RegistersFollowMemory
  BY DEF BaseInv
<1> QED
  BY <1>1, BaseInvariant, PTL

\* The first failure after a delivered update is the first failure of the
\* count, and so attempts a reconnect (coordinator.py:102, 107-110).
THEOREM CountIsReset == Spec => []DeliveredResetsCount
<1>1. BaseInv => DeliveredResetsCount
  BY DEF BaseInv
<1> QED
  BY <1>1, BaseInvariant, PTL

---------------------------------------------------------------------------
(* No connection is leaked, unless a requested refresh outlives an unload, *)
(* the platform setup raises or a setup is cancelled.  With each of these  *)
(* faults TLC finds a leak.                                                *)

\* Every other exit of async_setup_entry and of async_unload_entry closes the
\* client it drops, and only the entry's own coordinator can open one.
LEMMA OwnershipStep ==
    ASSUME "requested" \notin Faults, "forward" \notin Faults, "cancelled" \notin Faults,
           OwnershipInv, [Next]_vars
    PROVE  NoLeakedConnection' /\ PollsBelongToEntry'
<1> USE DEF OwnershipInv, BaseInv, TypeOK, TaskMatchesEntry, ClientMatchesEntry,
            PollsNeedEntities, HasEntities, NoLeakedConnection, PollsBelongToEntry,
            SetupAwaits, lifecycle, transport
<1>1. CASE Enable \/ Retry \/ Disable \/ BeginReload
  BY <1>1, ConstantsAssumption
  DEF Enable, Retry, Disable, BeginReload, StartSetup, EntryStates
<1>2. CASE UnloadSucceeds
  BY <1>2 DEF UnloadSucceeds, CloseCurrent, CancelPoll, RunUnloadCallbacks
<1>3. CASE UnloadRefused
  BY <1>3 DEF UnloadRefused
<1>4. CASE \E c \in Clients : BuildClient(c)
  BY <1>4, ConstantsAssumption DEF BuildClient
<1>5. CASE BuildFails
  BY <1>5 DEF BuildFails, EndSetup
<1>6. CASE ConnectFails \/ SetupBreaks \/ FirstRefreshBreaks \/ FirstReconnect
  BY <1>6
  DEF ConnectFails, SetupBreaks, FirstRefreshBreaks, FirstReconnect,
      AbandonSetup, CloseCurrent, EndSetup
<1>7. CASE SetupConnects
  BY <1>7 DEF SetupConnects
<1>8. CASE Identify \/ FirstRefreshDelivers \/ ForwardSucceeds
  BY <1>8 DEF Identify, FirstRefreshDelivers, ForwardSucceeds
<1>9. CASE FirstRefreshFails
  BY <1>9 DEF FirstRefreshFails, AbandonSetup, CloseCurrent, EndSetup
<1>10. CASE ForwardFails \/ SetupCancelled
  BY <1>10 DEF ForwardFails, SetupCancelled
<1>11. ASSUME NEW c \in Clients, PollStart(c) \/ PollEnds(c)
       PROVE  NoLeakedConnection' /\ PollsBelongToEntry'
  <2>1. CASE PollStart(c)
    BY <2>1 DEF PollStart
  <2>2. CASE PollDelivers(c) \/ PollFails(c) \/ PollBreaks(c)
    BY <2>2 DEF PollDelivers, PollFails, PollBreaks
  <2>3. CASE PollReconnects(c)
    BY <2>3 DEF PollReconnects
  <2> QED
    BY <1>11, <2>1, <2>2, <2>3 DEF PollEnds
<1>12. CASE ChangeOptions \/ RequestReload \/ LinkReturns
  BY <1>12 DEF ChangeOptions, RequestReload, LinkReturns
<1>13. CASE LinkDrops
  BY <1>13 DEF LinkDrops
<1>14. CASE UNCHANGED vars
  BY <1>14 DEF vars
<1> QED
  BY <1>1, <1>2, <1>3, <1>4, <1>5, <1>6, <1>7, <1>8, <1>9, <1>10, <1>11,
     <1>12, <1>13, <1>14
  DEF Next, Setup, Unload

\* No poll and no connection is without an entry that refers to its client.
THEOREM Ownership ==
    ASSUME "requested" \notin Faults, "forward" \notin Faults, "cancelled" \notin Faults
    PROVE  Spec => []OwnershipInv
<1>1. Init => OwnershipInv
  BY BaseInit DEF Init, OwnershipInv, NoLeakedConnection, PollsBelongToEntry
<1>2. OwnershipInv /\ [Next]_vars => OwnershipInv'
  BY BaseStep, OwnershipStep DEF OwnershipInv
<1> QED
  BY <1>1, <1>2, PTL DEF Spec

\* A connection that is held can still be closed: its client is the one the
\* running setup or the loaded entry refers to (__init__.py:42-50, 59-65).
THEOREM ConnectionsNeverLeak ==
    ASSUME "requested" \notin Faults, "forward" \notin Faults, "cancelled" \notin Faults
    PROVE  Spec => []NoLeakedConnection
<1>1. OwnershipInv => NoLeakedConnection
  BY DEF OwnershipInv
<1> QED
  BY <1>1, Ownership, PTL

---------------------------------------------------------------------------
(* The polling interval, unless the options change late in a setup.  With  *)
(* that fault TLC finds an entry loaded with the old interval.             *)

\* Where the interval could go stale there is a listener to reload for it.
LEMMA IntervalStep ==
    ASSUME "late" \notin Faults, IntervalInv, [Next]_vars
    PROVE  /\ (task \in PastInterval => interval = options)'
           /\ FreshInterval'
<1> USE DEF IntervalInv, BaseInv, TypeOK, TaskMatchesEntry, ListenerMatchesEntry,
            FreshInterval, PastInterval, SetupAwaits, lifecycle, requests
<1>1. CASE Enable \/ Retry \/ Disable \/ BeginReload \/ Unload
  BY <1>1 DEF Enable, Retry, Disable, BeginReload, Unload, UnloadSucceeds,
              UnloadRefused, StartSetup
<1>2. CASE Setup
  BY <1>2 DEF ScanInterval, Setup, BuildClient, BuildFails, SetupConnects, ConnectFails,
              Identify, SetupBreaks, FirstRefreshDelivers, FirstRefreshFails,
              FirstRefreshBreaks, FirstReconnect, ForwardSucceeds,
              ForwardFails, SetupCancelled, LeaveSetup, AbandonSetup, EndSetup
<1>3. CASE \E c \in Clients : PollStart(c) \/ PollEnds(c)
  BY <1>3 DEF PollStart, PollEnds, PollDelivers, PollFails, PollBreaks,
              PollReconnects
<1>4. CASE ChangeOptions
  BY <1>4, ConstantsAssumption DEF ChangeOptions, NotifyListener
<1>5. CASE RequestReload
  BY <1>5, ConstantsAssumption DEF RequestReload
<1>6. CASE LinkDrops \/ LinkReturns
  BY <1>6 DEF LinkDrops, LinkReturns
<1>7. CASE UNCHANGED vars
  BY <1>7 DEF vars
<1> QED
  BY <1>1, <1>2, <1>3, <1>4, <1>5, <1>6, <1>7 DEF Next

\* A loaded entry polls at the interval of its options, or a reload is waiting
\* to see to it (__init__.py:40, 55, 98-100).
THEOREM IntervalIsFresh ==
    ASSUME "late" \notin Faults
    PROVE  Spec => []FreshInterval
<1>1. Init => IntervalInv
  BY BaseInit DEF Init, IntervalInv, FreshInterval, PastInterval
<1>2. IntervalInv /\ [Next]_vars => IntervalInv'
  BY BaseStep, IntervalStep DEF IntervalInv
<1>3. IntervalInv => FreshInterval
  BY DEF IntervalInv
<1> QED
  BY <1>1, <1>2, <1>3, PTL DEF Spec

---------------------------------------------------------------------------
(* Action properties and the contract.                                     *)

\* Writing the identified series to the entry reloads nothing: no listener is
\* registered while a setup runs (__init__.py:85-87).
THEOREM RememberingIsQuiet == Spec => RememberingNeverReloads
<1>1. BaseInv /\ [Next]_vars => [remembered' # remembered => pending' <= pending]_vars
  <2> SUFFICES ASSUME BaseInv, [Next]_vars, remembered' # remembered
               PROVE  pending' <= pending
    OBVIOUS
  <2>1. CASE Identify
    BY <2>1 DEF Identify, RememberSeries, NotifyListener, BaseInv, TypeOK, TaskMatchesEntry,
                ListenerMatchesEntry, SetupAwaits
  <2>2. CASE ~Identify
    BY <2>2
    DEF Next, Setup, Unload, PollEnds, vars, identity,
        Enable, Retry, Disable, BeginReload, UnloadSucceeds, UnloadRefused,
        BuildClient, BuildFails, SetupConnects, ConnectFails,
        SetupBreaks, FirstRefreshDelivers, FirstRefreshFails,
        FirstRefreshBreaks, FirstReconnect, ForwardSucceeds, ForwardFails,
        SetupCancelled, LeaveSetup, EndSetup, AbandonSetup,
        PollStart, PollDelivers, PollFails, PollBreaks, PollReconnects,
        ChangeOptions, RequestReload, LinkDrops, LinkReturns
  <2> QED
    BY <2>1, <2>2
<1> QED
  BY <1>1, BaseInvariant, PTL DEF Spec, RememberingNeverReloads

---------------------------------------------------------------------------
(* The entry keeps its contract: every step is a step of EntryContract or  *)
(* changes nothing the contract speaks about.                              *)

\* An entry without a client holds nothing and shows nothing.
LEMMA ReleasedIsClean == OwnershipInv /\ cur = NoClient => ~Held /\ ~avail
<1> SUFFICES ASSUME OwnershipInv, cur = NoClient
             PROVE  ~Held /\ ~avail
  OBVIOUS
<1>1. ~Held
  BY ConstantsAssumption DEF OwnershipInv, NoLeakedConnection, Held
<1>2. ~avail
  BY DEF OwnershipInv, BaseInv, ClientMatchesEntry, TaskMatchesEntry,
         ValuesNeedEntities, HasEntities, SetupAwaits
<1> QED
  BY <1>1, <1>2

\* A connection that answers is held.
LEMMA AnsweringIsHeld ==
    ASSUME NEW c \in Clients, Answers(c)
    PROVE  Held
  BY DEF Answers, Held

\* Where the phase stays, values turn current only over a connection.
LEMMA ServeStep ==
    ASSUME OwnershipInv, OwnershipInv', entry' = entry, avail' => avail \/ Held
    PROVE  [Contract!Next]_(Contract!vars)
<1>1. /\ Held \in BOOLEAN /\ avail \in BOOLEAN
      /\ Held' \in BOOLEAN /\ avail' \in BOOLEAN
  BY DEF Held, OwnershipInv, BaseInv, TypeOK
<1>2. Phase' = Phase
  BY DEF Phase
<1>3. CASE Phase # "off"
  <2>1. Contract!Serve
    BY <1>1, <1>2, <1>3 DEF Contract!Serve
  <2> QED
    BY <2>1 DEF Contract!Next
<1>4. CASE Phase = "off"
  <2>1. entry \in {"notLoaded", "retry", "error"}
    BY <1>4 DEF Phase, OwnershipInv, BaseInv, TypeOK, EntryStates
  <2>2. cur = NoClient /\ cur' = NoClient
    BY <2>1 DEF OwnershipInv, BaseInv, ClientMatchesEntry
  <2>3. ~Held /\ ~avail
    BY <2>2, ReleasedIsClean
  <2>4. ~Held' /\ ~avail'
    BY <2>2, ConstantsAssumption
    DEF OwnershipInv, NoLeakedConnection, Held, BaseInv, ClientMatchesEntry,
        TaskMatchesEntry, ValuesNeedEntities, HasEntities, SetupAwaits
  <2> QED
    BY <1>1, <1>2, <2>3, <2>4 DEF Contract!vars
<1> QED
  BY <1>3, <1>4

\* Steps of the lifecycle and its surroundings that change the entry's state.
LEMMA PhaseStep ==
    ASSUME OwnershipInv, OwnershipInv', Next, entry' # entry
    PROVE  [Contract!Next]_(Contract!vars)
<1> USE DEF Phase, lifecycle
<1>a. cur' = NoClient => ~Held' /\ ~avail'
  BY ConstantsAssumption
  DEF OwnershipInv, NoLeakedConnection, Held, BaseInv, ClientMatchesEntry,
      TaskMatchesEntry, ValuesNeedEntities, HasEntities, SetupAwaits
<1>b. /\ Held \in BOOLEAN /\ avail \in BOOLEAN
      /\ Held' \in BOOLEAN /\ avail' \in BOOLEAN
  BY DEF Held, OwnershipInv, BaseInv, TypeOK
<1>1. CASE /\ entry \in {"notLoaded", "retry", "error"}
           /\ StartSetup /\ UNCHANGED conn /\ UNCHANGED avail
  <2>1. Held' = Held
    BY <1>1 DEF Held
  <2>2. Contract!Start
    BY <1>1, <2>1 DEF StartSetup, Contract!Start
  <2> QED
    BY <2>2 DEF Contract!Next
<1>2. CASE entry = "inProgress" /\ entry' \in {"retry", "error"} /\ cur' = NoClient
  <2>1. Contract!GiveUp
    BY <1>2, <1>a DEF Contract!GiveUp, Contract!Release
  <2> QED
    BY <2>1 DEF Contract!Next
<1>3. CASE ForwardSucceeds
  <2>1. entry = "inProgress"
    BY <1>3 DEF ForwardSucceeds, OwnershipInv, BaseInv, TaskMatchesEntry, SetupAwaits
  <2>2. Held' = Held
    BY <1>3 DEF ForwardSucceeds, transport, Held
  <2>3. Contract!GoOn
    BY <1>3, <2>1, <2>2 DEF ForwardSucceeds, Contract!GoOn
  <2> QED
    BY <2>3 DEF Contract!Next
<1>4. CASE UnloadSucceeds
  <2>1. entry = "loaded"
    BY <1>4 DEF UnloadSucceeds, OwnershipInv, BaseInv, TaskMatchesEntry
  <2>2. entry' \in {"notLoaded", "inProgress"} /\ cur' = NoClient
    BY <1>4 DEF UnloadSucceeds, StartSetup
  <2>3. Contract!Stop
    BY <2>1, <2>2, <1>a DEF Contract!Stop, Contract!Release
  <2> QED
    BY <2>3 DEF Contract!Next
<1>5. CASE UnloadRefused
  <2>1. entry = "loaded"
    BY <1>5 DEF UnloadRefused, OwnershipInv, BaseInv, TaskMatchesEntry
  <2>2. Held' = Held
    BY <1>5 DEF UnloadRefused, transport, Held
  <2>3. Contract!Stick
    BY <1>5, <2>1, <2>2 DEF UnloadRefused, Contract!Stick
  <2> QED
    BY <2>3 DEF Contract!Next
<1>6. CASE Enable \/ Retry
  BY <1>6, <1>1 DEF Enable, Retry, transport
<1>7. CASE BeginReload
  <2>1. entry \in {"notLoaded", "retry", "error"} /\ StartSetup
    BY <1>7 DEF BeginReload, OwnershipInv, BaseInv, TypeOK, EntryStates,
                TaskMatchesEntry, SetupAwaits
  <2> QED
    BY <1>7, <2>1, <1>1 DEF BeginReload, transport
<1>8. CASE Setup /\ ~ForwardSucceeds
  <2>1. entry = "inProgress"
    BY <1>8 DEF Setup, BuildClient, BuildFails, SetupConnects, ConnectFails,
                Identify, SetupBreaks, FirstRefreshDelivers, FirstRefreshFails,
                FirstRefreshBreaks, FirstReconnect, ForwardFails,
                SetupCancelled, OwnershipInv, BaseInv, TaskMatchesEntry, SetupAwaits
  <2>2. entry' \in {"retry", "error"} /\ cur' = NoClient
    BY <1>8 DEF Setup, BuildClient, BuildFails, SetupConnects, ConnectFails,
                Identify, SetupBreaks, FirstRefreshDelivers, FirstRefreshFails,
                FirstRefreshBreaks, FirstReconnect, ForwardFails,
                SetupCancelled, LeaveSetup, AbandonSetup, EndSetup
  <2> QED
    BY <2>1, <2>2, <1>2
<1>9. CASE \/ \E c \in Clients : PollStart(c) \/ PollEnds(c)
           \/ Disable \/ ChangeOptions \/ RequestReload \/ LinkDrops \/ LinkReturns
  BY <1>9 DEF PollStart, PollEnds, PollDelivers, PollFails, PollBreaks,
              PollReconnects, Disable, ChangeOptions, RequestReload, LinkDrops,
              LinkReturns
<1> QED
  BY <1>3, <1>4, <1>5, <1>6, <1>7, <1>8, <1>9 DEF Next, Unload

\* A step that shows values shows them because a read was answered.
LEMMA ShowStep ==
    ASSUME OwnershipInv, [Next]_vars, avail'
    PROVE  avail \/ Held
<1> SUFFICES ASSUME ~avail PROVE Held
  OBVIOUS
<1>1. CASE FirstRefreshDelivers
  <2>1. cur \in Clients
    BY <1>1 DEF FirstRefreshDelivers, OwnershipInv, BaseInv, TypeOK,
                ClientMatchesEntry, TaskMatchesEntry, SetupAwaits
  <2> QED
    BY <1>1, <2>1, AnsweringIsHeld DEF FirstRefreshDelivers
<1>2. ASSUME NEW c \in Clients, PollDelivers(c)
      PROVE  Held
  BY <1>2, AnsweringIsHeld DEF PollDelivers
<1>3. CASE ~FirstRefreshDelivers /\ ~ \E c \in Clients : PollDelivers(c)
  BY <1>3
  DEF Next, Setup, Unload, PollEnds, vars,
      Enable, Retry, Disable, BeginReload, UnloadSucceeds, UnloadRefused,
      StartSetup, EndSetup, AbandonSetup, Show,
      BuildClient, BuildFails, SetupConnects, ConnectFails, Identify,
      SetupBreaks, FirstRefreshFails, FirstRefreshBreaks, FirstReconnect,
      ForwardSucceeds, ForwardFails, SetupCancelled, LeaveSetup, PollStart, PollFails,
      PollBreaks, PollReconnects, ChangeOptions, RequestReload, LinkDrops, LinkReturns
<1> QED
  BY <1>1, <1>2, <1>3

\* The detailed entry implements the contract, unless a requested refresh
\* outlives an unload, the platform setup raises or a setup is cancelled
\* (__init__.py:21-65).
THEOREM EntryKeepsContract ==
    ASSUME "requested" \notin Faults, "forward" \notin Faults, "cancelled" \notin Faults
    PROVE  Spec => KeepsContract
<1>1. Init => Contract!Init
  BY ConstantsAssumption DEF Init, Contract!Init, Phase, Held
<1>2. OwnershipInv /\ OwnershipInv' /\ [Next]_vars => [Contract!Next]_(Contract!vars)
  <2> SUFFICES ASSUME OwnershipInv, OwnershipInv', [Next]_vars
               PROVE  [Contract!Next]_(Contract!vars)
    OBVIOUS
  <2>1. CASE entry' = entry
    BY <2>1, ServeStep, ShowStep
  <2>2. CASE entry' # entry
    <3>1. Next
      BY <2>2 DEF vars, lifecycle
    <3> QED
      BY <2>2, <3>1, PhaseStep
  <2> QED
    BY <2>1, <2>2
<1> QED
  BY <1>1, <1>2, Ownership, PTL DEF Spec, KeepsContract, Contract!Spec

---------------------------------------------------------------------------
(* Every setup ends: it can always go on, and only towards its end.        *)

\* Between two setups every client is free, and during one nothing listens.
LEMMA SetupsGoOn ==
    ASSUME Clients # {}, OwnershipInv, task \in SetupAwaits
    PROVE  SetupCanGoOn
<1> USE DEF OwnershipInv, BaseInv, SetupAwaits, SetupCanGoOn
<1>1. CASE task = "build"
  <2>1. PICK c \in Clients : TRUE
    OBVIOUS
  <2>2. cur = NoClient
    BY <1>1 DEF ClientMatchesEntry
  <2>3. conn[c] = "closed"
    BY <2>2, ConstantsAssumption DEF NoLeakedConnection
  <2>4. poll[c] = "none"
    BY <2>2, ConstantsAssumption DEF PollsBelongToEntry
  <2> QED
    BY <1>1, <2>3, <2>4
<1>2. CASE task = "identify"
  BY <1>2 DEF TaskMatchesEntry, ListenerMatchesEntry
<1> QED
  BY <1>1, <1>2

\* One disjunct of Setup after the other.
LEMMA SetupsProgress ==
    ASSUME "forward" \notin Faults, "cancelled" \notin Faults, OwnershipInv, OwnershipInv', Setup
    PROVE  SetupProgresses
<1>1. CASE task' = "idle" /\ entry' \in {"retry", "error"} /\ cur' = NoClient
  <2>1. ~Held' /\ ~avail'
    BY <1>1, ConstantsAssumption
    DEF OwnershipInv, NoLeakedConnection, Held, BaseInv, ClientMatchesEntry,
        TaskMatchesEntry, ValuesNeedEntities, HasEntities, SetupAwaits
  <2> QED
    BY <1>1, <2>1 DEF SetupProgresses
<1>2. CASE \E state \in {"retry", "error"} : EndSetup(state)
  BY <1>1, <1>2 DEF EndSetup
<1>3. CASE /\ task' \in SetupAwaits /\ entry' = entry
           /\ \/ task = "build" /\ task' = "connect"
              \/ task = "connect" /\ task' = "identify"
              \/ task = "identify" /\ task' = "refresh"
              \/ task = "refresh" /\ task' \in {"reconnect", "forward"}
  <2>1. AwaitsLeft' < AwaitsLeft
    BY <1>3 DEF AwaitsLeft
  <2> QED
    BY <1>3, <2>1 DEF SetupProgresses
<1>4. CASE ForwardSucceeds
  BY <1>4 DEF ForwardSucceeds, SetupProgresses
<1>5. CASE (\E c \in Clients : BuildClient(c)) \/ SetupConnects \/ Identify \/ FirstRefreshDelivers
  BY <1>3, <1>5 DEF BuildClient, SetupConnects, Identify, FirstRefreshDelivers, SetupAwaits
<1>6. CASE \/ BuildFails \/ ConnectFails \/ SetupBreaks
           \/ FirstRefreshBreaks \/ FirstReconnect
  BY <1>2, <1>6 DEF BuildFails, ConnectFails, SetupBreaks, FirstRefreshBreaks,
                    FirstReconnect, AbandonSetup
<1>7. CASE FirstRefreshFails
  BY <1>2, <1>3, <1>7 DEF FirstRefreshFails, AbandonSetup, SetupAwaits
<1> QED
  BY <1>4, <1>5, <1>6, <1>7 DEF Setup, ForwardFails, SetupCancelled

\* No other action touches the lifecycle while a setup runs.
LEMMA OthersLeaveSetups ==
    ASSUME task \in SetupAwaits, [Next]_vars, ~Setup
    PROVE  UNCHANGED lifecycle
  BY DEF Next, Unload, PollEnds, vars, lifecycle, SetupAwaits,
         Enable, Retry, Disable, BeginReload, UnloadSucceeds, UnloadRefused,
         PollStart, PollDelivers, PollFails, PollBreaks, PollReconnects,
         ChangeOptions, RequestReload, LinkDrops, LinkReturns

\* A setup that is under way can always go on, each of its steps brings it closer
\* to its end, and no other step moves it: with a scheduler that runs what is
\* ready, every async_setup_entry ends, loaded or with everything released
\* (__init__.py:21-56).  Every setup makes a client of its own; the bounded set
\* Clients stands for them and only must not be empty.
THEOREM SetupsMakeProgress ==
    ASSUME Clients # {},
           "requested" \notin Faults, "forward" \notin Faults, "cancelled" \notin Faults
    PROVE  Spec => SetupEndsInTime
<1>1. OwnershipInv => (task \in SetupAwaits => SetupCanGoOn)
  BY SetupsGoOn
<1>2. OwnershipInv /\ OwnershipInv' /\ [Next]_vars
      => [IF task \in SetupAwaits /\ Setup THEN SetupProgresses
          ELSE task \in SetupAwaits => UNCHANGED lifecycle]_vars
  BY SetupsProgress, OthersLeaveSetups
<1> QED
  BY <1>1, <1>2, Ownership, PTL DEF Spec, SetupEndsInTime
=============================================================================
