---------------------------- MODULE MCRadioHal ----------------------------
EXTENDS RadioHal

\* Every packet type, reception mode and exit of a scan, with lengths that differ.
MCConfigurations ==
  {[type |-> "LORA", rxMode |-> 2, cadExit |-> 1, length |-> 1],
   [type |-> "LORA", rxMode |-> 1, cadExit |-> 0, length |-> 2],
   [type |-> "FSK", rxMode |-> 0, cadExit |-> 0, length |-> 2],
   [type |-> "MSK", rxMode |-> 0, cadExit |-> 0, length |-> 1],
   [type |-> "BPSK", rxMode |-> 0, cadExit |-> 0, length |-> 1]}
=============================================================================
