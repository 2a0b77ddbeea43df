---------------------------- MODULE MCRfManager ----------------------------
EXTENDS RfManager

Configuration(t, m, x) == [type |-> t, rxMode |-> m, cadExit |-> x]

\* Every admission and reception behaviour once; BPSK and MSK have no RX modes.
AllConfigurations ==
  {Configuration("LORA", m, x) : m \in RxModes, x \in CadExitModes}
    \cup {Configuration("FSK", m, 0) : m \in RxModes}
    \cup {Configuration(t, 0, 0) : t \in {"BPSK", "MSK"}}

\* The configurations whose receptions end with a packet.
EndingConfigurations ==
  {Configuration("LORA", 0, 1), Configuration("FSK", 0, 0)}

AllReceptions == {{"RX_DONE"}, {"RX_DONE", "CRC_ERROR"}}
GoodReceptions == {{"RX_DONE"}}
=============================================================================
