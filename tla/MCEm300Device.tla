--------------------------- MODULE MCEm300Device ---------------------------
(***************************************************************************)
(* Em300Device for TLC: words of two bits, a map of four registers and a   *)
(* limit of four words in a request.                                       *)
(***************************************************************************)
EXTENDS Em300Device, TLC

Both == {"EM", "ET"}

Register(address, length, on) ==
    [address |-> address, length |-> length, signed |-> TRUE, series |-> on]

Volt == Register(0, 2, Both)
Energy == Register(2, 2, Both)
PowerFactor == Register(4, 1, Both)
Exported == Register(6, 2, {"ET"})

Map == {Volt, Energy, PowerFactor, Exported}

Energies == {Energy, Exported}

Codes == 0 :> "None" @@ 1 :> "EM" @@ 2 :> "None" @@ 3 :> "ET"

\* Energy carries into its second word; the second words of Volt are codes.
Measurements ==
    Volt :> {-8, 6} @@ Energy :> 3 .. 6 @@ PowerFactor :> {-2, 1} @@
    Exported :> {4}

Plans ==
    Map :> <<0 .. 3, {4}, 6 .. 7>> @@ Map \ {Exported} :> <<0 .. 3, {4}>>
=============================================================================
