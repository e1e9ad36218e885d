---------------------------- MODULE MCConfigFlow ----------------------------
(***************************************************************************)
(* ConfigFlow for TLC: two meters and what they say of themselves.  No     *)
(* property names an entry, a flow or a place.                             *)
(***************************************************************************)
EXTENDS ConfigFlow, TLC

CONSTANTS m1, m2, s1, s2, EM340, ET340

Numbered == m1 :> s1 @@ m2 :> s2                 \* both have serial numbers
OneNumbered == m1 :> s1 @@ m2 :> NoSerial

Known == m1 :> EM340 @@ m2 :> ET340              \* both codes are known
OneKnown == m1 :> EM340 @@ m2 :> NoSeries

Symmetry ==
    Permutations(Entries) \cup Permutations(Flows) \cup Permutations(Places)
=============================================================================
