-------------------------- MODULE MCEntrySettings --------------------------
(***************************************************************************)
(* EntrySettings for TLC: two values for the fields that are converted or  *)
(* that tell places apart, one for those that are passed on.               *)
(***************************************************************************)
EXTENDS EntrySettings

Choices ==
    [serial_port |-> {"ttyUSB0", "ttyUSB1"}, baudrate |-> {9600},
     parity |-> {"none", "even"}, stopbits |-> {1}, bytesize |-> {8},
     host |-> {"gateway"}, port |-> {502}, framer |-> {"socket", "rtu"},
     address |-> {2}, scan_interval |-> {60}]
=============================================================================
