--------------------------- MODULE EntryRegistry ---------------------------
(***************************************************************************)
(* What the entries of the integration promise as a whole: an id is given  *)
(* to one entry at a time and for life, since entity ids and with them the *)
(* history hang on it; and an entry that knows its meter's serial number   *)
(* never comes to know it by another.                                      *)
(***************************************************************************)
CONSTANTS Entries, Ids, NoId, Serials, NoSerial

VARIABLES
    id,     \* each entry's unique id, NoId while there is no such entry
    serial  \* the serial number each entry knows its meter by

vars == <<id, serial>>

Init ==
    /\ id = [e \in Entries |-> NoId]
    /\ serial = [e \in Entries |-> NoSerial]

Claim(e) ==
    /\ id[e] = NoId
    /\ \E new \in Ids :
          /\ \A f \in Entries : id[f] # new
          /\ id' = [id EXCEPT ![e] = new]
    /\ \E known \in Serials \cup {NoSerial} :
          serial' = [serial EXCEPT ![e] = known]

Learn(e) ==
    /\ id[e] # NoId /\ serial[e] = NoSerial
    /\ \E known \in Serials : serial' = [serial EXCEPT ![e] = known]
    /\ UNCHANGED id

Release(e) ==
    /\ id' = [id EXCEPT ![e] = NoId]
    /\ serial' = [serial EXCEPT ![e] = NoSerial]

Next == \E e \in Entries : Claim(e) \/ Learn(e) \/ Release(e)

Spec == Init /\ [][Next]_vars
============================================================================
