--------------------------- MODULE EntryContract ---------------------------
(***************************************************************************)
(* What a config entry promises to the rest of Home Assistant, whatever    *)
(* happens inside it: it holds a connection only while it is being set up  *)
(* or in use, shows values only while it is, starts to show them only with *)
(* a connection in hand, and every setup ends.                             *)
(***************************************************************************)
VARIABLES
    phase,  \* "off", "starting", "on" or "stuck" (its unload failed)
    held,   \* whether any connection to the meter is held
    live    \* whether its values are shown as current

vars == <<phase, held, live>>

Init == phase = "off" /\ ~held /\ ~live

\* Nothing is held and nothing shown any more.
Release == ~held' /\ ~live'

Start == /\ phase = "off"
         /\ phase' = "starting"
         /\ UNCHANGED <<held, live>>

\* Connections come and go and values turn stale; they turn current only
\* over a connection.
Serve == /\ phase # "off"
         /\ held' \in BOOLEAN /\ live' \in BOOLEAN
         /\ live' => live \/ held
         /\ UNCHANGED phase

GoOn == /\ phase = "starting"
        /\ phase' = "on"
        /\ UNCHANGED <<held, live>>

GiveUp == /\ phase = "starting"
          /\ phase' = "off"
          /\ Release

\* The unload of a reload goes straight on to the next setup.
Stop == /\ phase = "on"
        /\ phase' \in {"off", "starting"}
        /\ Release

Stick == /\ phase = "on"
         /\ phase' = "stuck"
         /\ UNCHANGED <<held, live>>

Next == Start \/ Serve \/ GoOn \/ GiveUp \/ Stop \/ Stick

Spec == Init /\ [][Next]_vars

FairSpec == Spec /\ WF_vars(GoOn \/ GiveUp)
============================================================================
