--------------------------- MODULE RfManagerProofs ---------------------------
(***************************************************************************)
(* For every set of configurations and receptions: the rf_manager handlers *)
(* and the radio interrupt never deliver an indication of a cancelled      *)
(* operation, never let one run on, and never leave the antenna switch on  *)
(* the wrong path.  The three hold together, by one inductive invariant;   *)
(* on it rests a second one: no assertion fails, the queue has room, and   *)
(* the state machine, its diagnostics and the radio agree.                 *)
(***************************************************************************)
EXTENDS RfManager, FiniteSetTheorems, SequenceTheorems, TLAPS

(* The handler's position fixes what the interrupt may find. *)
Stopped ==
  pc \in {"standby", "clear", "release", "perform", "arm"} => radioOperationActive = FALSE

Cleared == pc \in {"release", "perform", "arm", "command"} => irq = {}

Started ==
  pc \in {"arm", "command"} =>
    event.sig \in StartSignals /\ active_operation = OperationOf(event.sig)

(* The radio runs the operation that is recorded as active. *)
RadioRunsOperation ==
  /\ radio = "tx" => active_operation = "PACKET_TX"
  /\ radio = "carrier" =>
       active_operation \in {"CONTINUOUS_WAVE_TX", "CONTINUOUS_PREAMBLE_TX"}
  /\ radio \in {"rx", "rxContinuous", "rxDutyCycle"} => active_operation = "RX"
  /\ radio \in {"cad", "cadRx"} => active_operation = "CAD"

(* The HAL's direction flag and the antenna switch follow that operation. *)
Prepared ==
  radioOperationActive = TRUE \/ pc \in {"arm", "command"} =>
    /\ transmitting = (active_operation \in TxOperations)
    /\ rf_switch = IF active_operation \in TxOperations THEN "tx" ELSE "rx"

IInv ==
  /\ TypeOK
  /\ CurrentIndications
  /\ CancelledStaysCancelled
  /\ SwitchFollowsRadio
  /\ Stopped
  /\ Cleared
  /\ Started
  /\ RadioRunsOperation
  /\ Prepared

-----------------------------------------------------------------------------
LEMMA EventFields ==
  \A e \in Requests \cup {OperationComplete} :
    e.sig \in Signals /\ e.configuration \in ConfigurationSpace
  <1>1. ZeroConfiguration \in ConfigurationSpace
    BY DEF ZeroConfiguration, ConfigurationSpace, PacketTypes, RxModes, CadExitModes
  <1> QED
    BY <1>1, ConfigurationsAssumption
    DEF Requests, OperationComplete, Event, Signals, StartSignals

LEMMA CompletionIsEvent == OperationComplete \in Requests \cup {OperationComplete}
  OBVIOUS

LEMMA OperationOfType == \A sig \in StartSignals : OperationOf(sig) \in Operations
  BY DEF OperationOf, StartSignals, Operations

LEMMA StateOfType == \A sig \in StartSignals : StateOf(sig) \in {"tx", "rx", "cad"}
  BY DEF StateOf, StartSignals

(* Reception modes select a radio mode that receives. *)
LEMMA RadioModeOfType ==
  ASSUME TypeOK, NEW sig \in StartSignals
  PROVE  /\ sig = "TX_PACKET" => RadioModeOf(sig) = "tx"
         /\ sig = "RX_START" => RadioModeOf(sig) \in {"rx", "rxContinuous", "rxDutyCycle"}
         /\ sig = "CAD_START" => RadioModeOf(sig) = "cad"
         /\ sig \in {"TX_CONTINUOUS_WAVE", "TX_CONTINUOUS_PREAMBLE"} =>
              RadioModeOf(sig) = "carrier"
  <1>1. configuration.rxMode \in 0..2
    BY DEF TypeOK, ConfigurationSpace, RxModes
  <1>2. RxRadioMode \in {"rx", "rxContinuous", "rxDutyCycle"}
    BY <1>1 DEF RxRadioMode
  <1> QED
    BY <1>2 DEF RadioModeOf

(* A start's state is tx exactly when its operation transmits. *)
LEMMA StartDirection ==
  \A sig \in StartSignals : (StateOf(sig) = "tx") = (OperationOf(sig) \in TxOperations)
  BY DEF StateOf, OperationOf, TxOperations, StartSignals

LEMMA PairIsFinite ==
  ASSUME NEW x, NEW y
  PROVE  IsFiniteSet({x, y})
  <1>1. IsFiniteSet({x})
    BY FS_Singleton, Zenon
  <1>2. IsFiniteSet({x} \cup {y})
    BY <1>1, FS_AddElement, Zenon
  <1>3. {x} \cup {y} = {x, y}
    OBVIOUS
  <1> QED
    BY <1>2, <1>3

LEMMA CallbackCount == Cardinality({cb \in Callbacks : Completes(cb)}) \in Nat
  <1> DEFINE Tx   == {"tx_done", "tx_timeout"}
             Rx   == {"rx_done", "rx_timeout"}
             Cad  == {"cad_detected", "cad_clear"}
             Err  == {"rx_error", "rx_error"}
             Sub  == {cb \in Callbacks : Completes(cb)}
  <1>1. IsFiniteSet(Tx) /\ IsFiniteSet(Rx) /\ IsFiniteSet(Cad) /\ IsFiniteSet(Err)
    BY PairIsFinite
  <1>2. Sub \subseteq (Tx \cup Rx) \cup (Cad \cup Err)
    BY DEF Callbacks
  <1> HIDE DEF Tx, Rx, Cad, Err, Sub
  <1>3. IsFiniteSet(Tx \cup Rx) /\ IsFiniteSet(Cad \cup Err)
    BY <1>1, FS_Union
  <1>4. IsFiniteSet((Tx \cup Rx) \cup (Cad \cup Err))
    BY <1>3, FS_Union
  <1>5. Cardinality(Sub) \in Nat
    BY <1>2, <1>4, FS_Subset, FS_CardinalityType
  <1> QED
    BY <1>5 DEF Sub

-----------------------------------------------------------------------------
LEMMA InitIInv == Init => IInv
  <1> SUFFICES ASSUME Init PROVE IInv
    OBVIOUS
  <1> USE DEF Init
  <1>1. TypeOK
    <2>1. configuration \in ConfigurationSpace
      BY DEF ZeroConfiguration, ConfigurationSpace, PacketTypes, RxModes, CadExitModes
    <2>2. queue \in Seq(Requests \cup {OperationComplete})
      OBVIOUS
    <2> QED
      BY <2>1, <2>2, CompletionIsEvent DEF TypeOK, States, Operations, RadioModes
  <1>2. CurrentIndications /\ CancelledStaysCancelled /\ Stopped /\ Cleared /\ Started
    BY DEF CurrentIndications, CancelledStaysCancelled, Stopped, Cleared, Started
  <1>3. SwitchFollowsRadio /\ RadioRunsOperation /\ Prepared
    BY DEF SwitchFollowsRadio, RadioRunsOperation, Prepared, Transmitting, Receiving
  <1> QED
    BY <1>1, <1>2, <1>3 DEF IInv

(* What the interrupt may restart, when it restarts anything. *)
LEMMA RestartsAreCurrent ==
  ASSUME IInv, NEW cb \in Callbacks
  PROVE  /\ radioOperationActive = TRUE
         /\ RestartsCad(cb) => active_operation = "CAD"
         /\ RearmsRx(cb) /\ ~(active_operation = "CAD") => active_operation = "RX"
  <1> USE DEF IInv
  <1>1. radioOperationActive = TRUE
    BY DEF Callbacks, Indications, Rejected, TypeOK
  <1>2. irq \subseteq FlagsOf(active_operation)
    BY <1>1 DEF CurrentIndications
  <1>3. transmitting = (active_operation \in TxOperations)
    BY <1>1 DEF Prepared
  <1>4. active_operation \in Operations
    BY DEF TypeOK
  <1>5. cb = "cad_clear" => active_operation = "CAD"
    BY <1>1, <1>2, <1>4 DEF Callbacks, Indications, FlagsOf, RxFlags, Operations
  <1>6. cb = "rx_done" => active_operation \in {"RX", "CAD"}
    BY <1>1, <1>2, <1>4 DEF Callbacks, Indications, FlagsOf, RxFlags, Operations
  <1>7. cb = "rx_timeout" => active_operation \in {"RX", "CAD"}
    BY <1>1, <1>2, <1>3, <1>4
    DEF Callbacks, Indications, FlagsOf, RxFlags, Operations, TxOperations
  <1> QED
    BY <1>1, <1>5, <1>6, <1>7 DEF RestartsCad, RearmsRx, Scanning

-----------------------------------------------------------------------------
LEMMA TakeEventTypes ==
  ASSUME TypeOK, TakeEvent
  PROVE  /\ event' \in Requests \cup {OperationComplete}
         /\ queue' \in Seq(Requests \cup {OperationComplete})
         /\ event' = Head(queue)
  BY DEF TypeOK, TakeEvent

(* Only pc, the queue, the event and the refused tx move when an event is taken. *)
LEMMA DispatchKeepsIInv ==
  ASSUME IInv, DispatchStopping \/ DispatchWithoutEffect
  PROVE  IInv'
  <1> USE DEF IInv
  <1>0. pc = "wait" /\ pc' \in {"wait", "disable"}
    BY DEF DispatchStopping, DispatchWithoutEffect, TakeEvent
  <1>1. UNCHANGED <<configuration, configuration_valid, active_operation,
                    radioOperationActive, transmitting, rf_switch, radio, irq, failed>>
    BY DEF DispatchStopping, DispatchWithoutEffect, object, hal
  <1>2. TypeOK'
    <2>1. state' \in States
      BY DEF DispatchStopping, DispatchWithoutEffect, object, TypeOK, States
    <2>2. TakeEvent
      BY DEF DispatchStopping, DispatchWithoutEffect
    <2> QED
      BY <1>0, <1>1, <2>1, <2>2, TakeEventTypes DEF TypeOK
  <1>3. (CurrentIndications /\ CancelledStaysCancelled /\ Stopped /\ Cleared /\ Started)'
    BY <1>0, <1>1
    DEF CurrentIndications, CancelledStaysCancelled, Stopped, Cleared, Started
  <1>4. (SwitchFollowsRadio /\ RadioRunsOperation /\ Prepared)'
    BY <1>0, <1>1 DEF SwitchFollowsRadio, RadioRunsOperation, Prepared
  <1> QED
    BY <1>2, <1>3, <1>4

LEMMA HostKeepsIInv ==
  ASSUME IInv, NEW r \in Requests, HostPublishes(r)
  PROVE  IInv'
  <1> USE DEF IInv
  <1>1. UNCHANGED <<state, configuration, configuration_valid, active_operation,
                    radioOperationActive, transmitting, rf_switch, radio, irq, pc, event>>
    BY DEF HostPublishes, object, hal
  <1>2. TypeOK'
    <2>1. queue' \in Seq(Requests \cup {OperationComplete})
      BY DEF HostPublishes, TypeOK
    <2>2. failed' \in BOOLEAN
      BY DEF HostPublishes, TypeOK
    <2> QED
      BY <1>1, <2>1, <2>2 DEF TypeOK
  <1>3. (CurrentIndications /\ CancelledStaysCancelled /\ Stopped /\ Cleared /\ Started)'
    BY <1>1
    DEF CurrentIndications, CancelledStaysCancelled, Stopped, Cleared, Started
  <1>4. (SwitchFollowsRadio /\ RadioRunsOperation /\ Prepared)'
    BY <1>1 DEF SwitchFollowsRadio, RadioRunsOperation, Prepared
  <1> QED
    BY <1>2, <1>3, <1>4

LEMMA StopKeepsIInv ==
  ASSUME IInv, Disable \/ Standby \/ ClearIrqStatus \/ ReleaseSwitch
  PROVE  IInv'
  <1> USE DEF IInv, At, object, hal
  <1>1. CASE Disable
    <2>1. TypeOK'
      BY <1>1 DEF Disable, TypeOK
    <2>2. (CurrentIndications /\ CancelledStaysCancelled /\ Stopped /\ Cleared /\ Started)'
      BY <1>1
      DEF Disable, CurrentIndications, CancelledStaysCancelled, Stopped, Cleared, Started
    <2>3. (SwitchFollowsRadio /\ RadioRunsOperation /\ Prepared)'
      BY <1>1 DEF Disable, SwitchFollowsRadio, RadioRunsOperation, Prepared
    <2> QED
      BY <2>1, <2>2, <2>3
  <1>2. CASE Standby
    <2>1. TypeOK'
      BY <1>2 DEF Standby, TypeOK, RadioModes
    <2>2. (CurrentIndications /\ CancelledStaysCancelled /\ Stopped /\ Cleared /\ Started)'
      BY <1>2
      DEF Standby, CurrentIndications, CancelledStaysCancelled, Stopped, Cleared, Started
    <2>3. (SwitchFollowsRadio /\ RadioRunsOperation /\ Prepared)'
      BY <1>2
      DEF Standby, SwitchFollowsRadio, RadioRunsOperation, Prepared, Stopped,
          Transmitting, Receiving
    <2> QED
      BY <2>1, <2>2, <2>3
  <1>3. CASE ClearIrqStatus
    <2>1. TypeOK'
      BY <1>3 DEF ClearIrqStatus, TypeOK
    <2>2. (CurrentIndications /\ CancelledStaysCancelled /\ Stopped /\ Cleared /\ Started)'
      BY <1>3
      DEF ClearIrqStatus, CurrentIndications, CancelledStaysCancelled, Stopped, Cleared,
          Started
    <2>3. (SwitchFollowsRadio /\ RadioRunsOperation /\ Prepared)'
      BY <1>3 DEF ClearIrqStatus, SwitchFollowsRadio, RadioRunsOperation, Prepared
    <2> QED
      BY <2>1, <2>2, <2>3
  <1>4. CASE ReleaseSwitch
    <2>1. TypeOK'
      BY <1>4 DEF ReleaseSwitch, TypeOK
    <2>2. (CurrentIndications /\ CancelledStaysCancelled /\ Stopped /\ Cleared /\ Started)'
      BY <1>4
      DEF ReleaseSwitch, CurrentIndications, CancelledStaysCancelled, Stopped, Cleared,
          Started
    <2>3. (SwitchFollowsRadio /\ RadioRunsOperation /\ Prepared)'
      BY <1>4
      DEF ReleaseSwitch, SwitchFollowsRadio, RadioRunsOperation, Prepared, Stopped,
          CancelledStaysCancelled, Transmitting, Receiving
    <2> QED
      BY <2>1, <2>2, <2>3
  <1> QED
    BY <1>1, <1>2, <1>3, <1>4
LEMMA PerformKeepsIInv ==
  ASSUME IInv, EndOperation \/ SetConfiguration \/ Calibrate
  PROVE  IInv'
  <1> USE DEF IInv, At, object, hal
  <1>1. CASE EndOperation
    <2>1. TypeOK'
      BY <1>1 DEF EndOperation, TypeOK, States, Operations
    <2>2. (CurrentIndications /\ CancelledStaysCancelled /\ Stopped /\ Cleared /\ Started)'
      BY <1>1
      DEF EndOperation, CurrentIndications, CancelledStaysCancelled, Stopped, Cleared,
          Started
    <2>3. (SwitchFollowsRadio /\ RadioRunsOperation /\ Prepared)'
      BY <1>1
      DEF EndOperation, SwitchFollowsRadio, RadioRunsOperation, Prepared, Stopped,
          CancelledStaysCancelled, Transmitting, Receiving
    <2> QED
      BY <2>1, <2>2, <2>3
  <1>2. CASE SetConfiguration
    <2>1. TypeOK'
      BY <1>2, EventFields DEF SetConfiguration, TypeOK, States, Operations
    <2>2. (CurrentIndications /\ CancelledStaysCancelled /\ Stopped /\ Cleared /\ Started)'
      BY <1>2
      DEF SetConfiguration, CurrentIndications, CancelledStaysCancelled, Stopped, Cleared,
          Started
    <2>3. (SwitchFollowsRadio /\ RadioRunsOperation /\ Prepared)'
      BY <1>2
      DEF SetConfiguration, SwitchFollowsRadio, RadioRunsOperation, Prepared, Stopped,
          CancelledStaysCancelled, Transmitting, Receiving
    <2> QED
      BY <2>1, <2>2, <2>3
  <1>3. CASE Calibrate
    <2>1. TypeOK'
      <3>1. queue' \in Seq(Requests \cup {OperationComplete})
        BY <1>3, CompletionIsEvent DEF Calibrate, TypeOK
      <3>2. failed' \in BOOLEAN
        BY <1>3 DEF Calibrate, TypeOK
      <3> QED
        BY <1>3, <3>1, <3>2 DEF Calibrate, TypeOK, States, Operations
    <2>2. (CurrentIndications /\ CancelledStaysCancelled /\ Stopped /\ Cleared /\ Started)'
      BY <1>3
      DEF Calibrate, CurrentIndications, CancelledStaysCancelled, Stopped, Cleared,
          Started
    <2>3. (SwitchFollowsRadio /\ RadioRunsOperation /\ Prepared)'
      BY <1>3
      DEF Calibrate, SwitchFollowsRadio, RadioRunsOperation, Prepared, Stopped,
          CancelledStaysCancelled, Transmitting, Receiving
    <2> QED
      BY <2>1, <2>2, <2>3
  <1> QED
    BY <1>1, <1>2, <1>3

LEMMA StartKeepsIInv ==
  ASSUME IInv, PrepareStart \/ Arm \/ CommandRadio
  PROVE  IInv'
  <1> USE DEF IInv, At, object, hal
  <1>1. CASE PrepareStart
    <2>1. TypeOK'
      BY <1>1, OperationOfType DEF PrepareStart, TypeOK
    <2>2. (CurrentIndications /\ CancelledStaysCancelled /\ Stopped /\ Cleared /\ Started)'
      BY <1>1
      DEF PrepareStart, CurrentIndications, CancelledStaysCancelled, Stopped, Cleared,
          Started
    <2>3. (SwitchFollowsRadio /\ RadioRunsOperation /\ Prepared)'
      BY <1>1, StartDirection
      DEF PrepareStart, SwitchFollowsRadio, RadioRunsOperation, Prepared, Stopped,
          CancelledStaysCancelled, Transmitting, Receiving
    <2> QED
      BY <2>1, <2>2, <2>3
  <1>2. CASE Arm
    <2>1. TypeOK'
      BY <1>2 DEF Arm, TypeOK
    <2>2. (CurrentIndications /\ CancelledStaysCancelled /\ Stopped /\ Cleared /\ Started)'
      BY <1>2
      DEF Arm, CurrentIndications, CancelledStaysCancelled, Stopped, Cleared,
          Started
    <2>3. (SwitchFollowsRadio /\ RadioRunsOperation /\ Prepared)'
      BY <1>2
      DEF Arm, SwitchFollowsRadio, RadioRunsOperation, Prepared, Stopped,
          CancelledStaysCancelled, Transmitting, Receiving
    <2> QED
      BY <2>1, <2>2, <2>3
  <1>3. CASE CommandRadio
    <2>1. TypeOK'
      <3>1. radio' \in RadioModes
        BY <1>3, RadioModeOfType
        DEF CommandRadio, Started, StartSignals, RadioModes, Transmitting, Receiving
      <3>2. state' \in States
        BY <1>3, StateOfType DEF CommandRadio, Started, States
      <3> QED
        BY <1>3, <3>1, <3>2 DEF CommandRadio, TypeOK
    <2>2. (CurrentIndications /\ CancelledStaysCancelled /\ Stopped /\ Cleared /\ Started)'
      BY <1>3
      DEF CommandRadio, CurrentIndications, CancelledStaysCancelled, Stopped, Cleared,
          Started
    <2>3. (SwitchFollowsRadio /\ RadioRunsOperation /\ Prepared)'
      BY <1>3, RadioModeOfType
      DEF CommandRadio, SwitchFollowsRadio, RadioRunsOperation, Prepared, Stopped,
          CancelledStaysCancelled, Transmitting, Receiving, Started, StartSignals, OperationOf, TxOperations
    <2> QED
      BY <2>1, <2>2, <2>3
  <1> QED
    BY <1>1, <1>2, <1>3

-----------------------------------------------------------------------------
LEMMA RadioModesAre ==
  RadioModes = {"tx", "carrier", "rx", "rxContinuous", "rxDutyCycle", "cad", "cadRx",
                "standby"}
  BY DEF RadioModes, Transmitting, Receiving

(* The radio only ends, with flags of its own operation, what it was doing. *)
LEMMA RadioStep ==
  ASSUME IInv, Radio
  PROVE  /\ UNCHANGED <<object, hal, queue, pc, event, failed>>
         /\ radio # "standby"
         /\ radio' \in RadioModes
         /\ radio' \in {"standby", radio} \/ (radio = "cad" /\ radio' = "cadRx")
         /\ irq' \subseteq irq \cup FlagsOf(active_operation)
  <1> USE DEF IInv, RadioRunsOperation, FlagsOf, RxFlags
  <1>1. CASE TransmissionEnds
    BY <1>1 DEF TransmissionEnds, RadioBecomes, RadioModes
  <1>2. CASE ReceptionEnds
    <2>1. CASE radio \in {"rx", "rxDutyCycle", "cadRx"}
      <3>1. PICK flags \in Receptions \cup {{"TIMEOUT"}} : RadioBecomes("standby", flags)
        BY <1>2, <2>1 DEF ReceptionEnds
      <3>2. flags \subseteq RxFlags \cup {"TIMEOUT"}
        BY ReceptionsAssumption
      <3>3. active_operation \in {"RX", "CAD"}
        BY <2>1
      <3> QED
        BY <2>1, <3>1, <3>2, <3>3 DEF RadioBecomes, RadioModes
    <2>2. CASE radio = "rxContinuous"
      <3>1. PICK flags \in Receptions : RadioBecomes("rxContinuous", flags)
        BY <1>2, <2>2 DEF ReceptionEnds
      <3>2. flags \subseteq RxFlags
        BY ReceptionsAssumption
      <3>3. active_operation = "RX"
        BY <2>2
      <3> QED
        BY <2>2, <3>1, <3>2, <3>3 DEF RadioBecomes, RadioModes, Receiving
    <2> QED
      BY <1>2, <2>1, <2>2 DEF ReceptionEnds
  <1>3. CASE ScanEnds
    BY <1>3 DEF ScanEnds, RadioBecomes, RadioModes, Receiving
  <1> QED
    BY <1>1, <1>2, <1>3 DEF Radio

LEMMA FlagsOfType == \A op \in Operations : FlagsOf(op) \subseteq Flags
  BY DEF Operations, FlagsOf, Flags, RxFlags

LEMMA RadioKeepsIInv ==
  ASSUME IInv, Radio
  PROVE  IInv'
  <1> USE DEF IInv, object, hal
  <1>1. TypeOK'
    BY RadioStep, FlagsOfType DEF TypeOK
  <1>2. CurrentIndications'
    BY RadioStep DEF CurrentIndications
  <1>5. pc \notin {"clear", "release", "perform", "arm", "command"}
    BY RadioStep DEF CancelledStaysCancelled
  <1>6. (CancelledStaysCancelled /\ Stopped /\ Cleared /\ Started)'
    BY RadioStep, <1>5 DEF CancelledStaysCancelled, Stopped, Cleared, Started
  <1>3. SwitchFollowsRadio'
    BY RadioStep, RadioModesAre DEF SwitchFollowsRadio, Transmitting, Receiving, TypeOK
  <1>4. (RadioRunsOperation /\ Prepared)'
    BY RadioStep DEF RadioRunsOperation, Prepared
  <1> QED
    BY <1>1, <1>2, <1>3, <1>4, <1>6

LEMMA RadioIrqKeepsIInv ==
  ASSUME IInv, RadioIrq
  PROVE  IInv'
  <1> DEFINE restartCad == \E cb \in Callbacks : RestartsCad(cb)
             rearmRx == \E cb \in Callbacks : RearmsRx(cb)
  <1> USE DEF IInv
  <1>1. UNCHANGED <<state, configuration, configuration_valid, active_operation, pc, event>>
        /\ irq' = {} /\ irq # {}
    BY DEF RadioIrq, object
  <1>2. TypeOK'
    <2>1. queue' \in Seq(Requests \cup {OperationComplete})
      <3> DEFINE n == [i \in 1..Cardinality({cb \in Callbacks : Completes(cb)})
                         |-> OperationComplete]
      <3>1. queue' = queue \/ queue' = queue \o n
        BY DEF RadioIrq
      <3>2. n \in Seq(Requests \cup {OperationComplete})
        BY CallbackCount
      <3> HIDE DEF n
      <3> QED
        BY <3>1, <3>2, ConcatProperties, Zenon DEF TypeOK
    <2>2. failed' \in BOOLEAN
      BY DEF RadioIrq, TypeOK
    <2>3. radio' \in RadioModes
      BY RadioModesAre DEF RadioIrq, TypeOK
    <2>4. transmitting' \in BOOLEAN /\ rf_switch' \in {"rx", "tx"}
          /\ radioOperationActive' \in BOOLEAN
      BY DEF RadioIrq, TypeOK, hal
    <2> QED
      BY <1>1, <2>1, <2>2, <2>3, <2>4 DEF TypeOK
  <1>3. CASE restartCad \/ rearmRx
    <2>1. radioOperationActive = TRUE
      BY <1>3, RestartsAreCurrent
    <2>2. pc \notin {"standby", "clear", "release", "perform", "arm", "command"}
      BY <1>1, <2>1 DEF Stopped, Cleared
    <2>3. radio' = IF restartCad THEN "cad" ELSE "rxDutyCycle"
      BY <1>3 DEF RadioIrq
    <2>4. transmitting' = FALSE /\ rf_switch' = "rx" /\ radioOperationActive' = TRUE
      BY <1>3 DEF RadioIrq
    <2>5. restartCad => active_operation = "CAD"
      BY RestartsAreCurrent
    <2>6. ~restartCad => active_operation = "RX"
      <3> SUFFICES ASSUME ~restartCad PROVE active_operation = "RX"
        OBVIOUS
      <3>1. PICK cb \in Callbacks : RearmsRx(cb)
        BY <1>3
      <3>2. ~(active_operation = "CAD")
        BY <3>1 DEF RearmsRx, RestartsCad, Scanning
      <3> QED
        BY <3>1, <3>2, RestartsAreCurrent
    <2> HIDE DEF restartCad, rearmRx
    <2>7. (CurrentIndications /\ CancelledStaysCancelled /\ Stopped /\ Cleared /\ Started)'
      BY <1>1, <2>2
      DEF CurrentIndications, CancelledStaysCancelled, Stopped, Cleared, Started
    <2>8. (SwitchFollowsRadio /\ RadioRunsOperation /\ Prepared)'
      <3>1. \/ radio' = "cad" /\ active_operation' = "CAD"
            \/ radio' = "rxDutyCycle" /\ active_operation' = "RX"
        BY <1>1, <2>3, <2>5, <2>6
      <3>2. SwitchFollowsRadio'
        BY <3>1, <2>4 DEF SwitchFollowsRadio, Transmitting, Receiving
      <3>3. RadioRunsOperation'
        BY <3>1 DEF RadioRunsOperation
      <3>4. Prepared'
        <4>1. (active_operation' \in TxOperations) = FALSE
          BY <3>1 DEF TxOperations
        <4>2. transmitting' = (active_operation' \in TxOperations)
          BY <4>1, <2>4, Zenon
        <4>3. rf_switch' = IF active_operation' \in TxOperations THEN "tx" ELSE "rx"
          BY <4>1, <2>4
        <4> QED
          BY <4>2, <4>3 DEF Prepared, TxOperations
      <3> QED
        BY <3>2, <3>3, <3>4
    <2> QED
      BY <1>2, <2>7, <2>8
  <1>4. CASE ~restartCad /\ ~rearmRx
    <2>1. UNCHANGED <<radio, radioOperationActive, transmitting, rf_switch>>
      BY <1>4 DEF RadioIrq, hal
    <2>2. (CurrentIndications /\ CancelledStaysCancelled /\ Stopped /\ Cleared /\ Started)'
      BY <1>1, <2>1
      DEF CurrentIndications, CancelledStaysCancelled, Stopped, Cleared, Started
    <2>3. (SwitchFollowsRadio /\ RadioRunsOperation /\ Prepared)'
      BY <1>1, <2>1 DEF SwitchFollowsRadio, RadioRunsOperation, Prepared
    <2> QED
      BY <1>2, <2>2, <2>3
  <1> QED
    BY <1>3, <1>4

LEMMA StutterKeepsIInv ==
  ASSUME IInv, UNCHANGED vars
  PROVE  IInv'
  <1> USE DEF IInv, vars
  <1>1. TypeOK'
    BY DEF TypeOK
  <1>2. (CurrentIndications /\ CancelledStaysCancelled /\ Stopped /\ Cleared /\ Started)'
    BY DEF CurrentIndications, CancelledStaysCancelled, Stopped, Cleared, Started
  <1>3. (SwitchFollowsRadio /\ RadioRunsOperation /\ Prepared)'
    BY DEF SwitchFollowsRadio, RadioRunsOperation, Prepared
  <1> QED
    BY <1>1, <1>2, <1>3

(* Every reachable state of the object, its interrupt and the radio satisfies   *)
(* the inductive invariant.                                                     *)
THEOREM Inductive == Spec => []IInv
  <1>1. ASSUME IInv, [Next]_vars PROVE IInv'
    <2>1. CASE Host
      BY <1>1, <2>1, HostKeepsIInv DEF Host
    <2>2. CASE Thread
      BY <1>1, <2>2, DispatchKeepsIInv, StopKeepsIInv, PerformKeepsIInv, StartKeepsIInv
      DEF Thread
    <2>3. CASE RadioIrq
      BY <1>1, <2>3, RadioIrqKeepsIInv
    <2>4. CASE Radio
      BY <1>1, <2>4, RadioKeepsIInv
    <2>5. CASE UNCHANGED vars
      BY <1>1, <2>5, StutterKeepsIInv
    <2> QED
      BY <1>1, <2>1, <2>2, <2>3, <2>4, <2>5 DEF Next
  <1> QED
    BY InitIInv, <1>1, PTL DEF Spec

(* Every variable of the object, its HAL and the radio keeps to its type.       *)
THEOREM TypeCorrect == Spec => []TypeOK
  <1>1. IInv => TypeOK
    BY DEF IInv
  <1> QED
    BY <1>1, Inductive, PTL

(* The indications of a cancelled operation are never delivered, for every      *)
(* interleaving of rfManagerHal_stop, the starts and SUBGHZ_Radio_IRQHandler.   *)
THEOREM IndicationsStayCurrent == Spec => []CurrentIndications
  <1>1. IInv => CurrentIndications
    BY DEF IInv
  <1> QED
    BY <1>1, Inductive, PTL

(* No interrupt revives an operation that a handler is cancelling.              *)
THEOREM CancellationHolds == Spec => []CancelledStaysCancelled
  <1>1. IInv => CancelledStaysCancelled
    BY DEF IInv
  <1> QED
    BY <1>1, Inductive, PTL

(* The antenna switch selects the path the radio uses, in every state.          *)
THEOREM SwitchIsSafe == Spec => []SwitchFollowsRadio
  <1>1. IInv => SwitchFollowsRadio
    BY DEF IInv
  <1> QED
    BY <1>1, Inductive, PTL

-----------------------------------------------------------------------------
(* That the modes agree and that nothing fails needs a second invariant, which  *)
(* rests on the first: what an operation was admitted for, which indications it *)
(* can leave, and how many completions it still owes the queue.                 *)

(* The configuration an operation runs with is one it was admitted for. *)
OperationAdmitted ==
  /\ active_operation = "RX" => configuration.type \in {"LORA", "FSK"}
  /\ active_operation = "CAD" => configuration.type = "LORA"
  /\ active_operation \notin {"IDLE", "CALIBRATION"} => configuration_valid = TRUE

RequestAdmitted ==
  pc # "wait" =>
    \/ event.sig \in {"SET_CONFIG", "CALIBRATE", "STOP", "OPERATION_COMPLETE"}
    \/ event.sig \in StartSignals /\ Admitted(event.sig)

(* What the radio leaves behind by the operation that completes with it. *)
OneIndication ==
  radioOperationActive = TRUE =>
    /\ active_operation = "PACKET_TX" =>
         irq \in {{}, {"TX_DONE"}, {"TIMEOUT"}} /\ (radio = "standby" \/ irq = {})
    /\ active_operation = "RX" /\ configuration.rxMode = 0 =>
         /\ radio = "standby" \/ (radio = "rx" /\ irq = {})
         /\ "TIMEOUT" \in irq => irq = {"TIMEOUT"}
    /\ active_operation = "RX" /\ configuration.rxMode = 1 =>
         radio \in {"standby", "rxContinuous"} /\ "TIMEOUT" \notin irq
    /\ active_operation = "CAD" /\ configuration.cadExit = 0 =>
         /\ radio = "standby" \/ (radio = "cad" /\ irq = {})
         /\ irq \subseteq {"CAD_DONE", "CAD_DETECTED"}

StateIsOperation ==
  pc = "wait" =>
    /\ state = "idle" => active_operation = "IDLE"
    /\ state = "calibration" => active_operation = "CALIBRATION"
    /\ state = "rx" => active_operation = "RX"
    /\ state = "cad" => active_operation = "CAD"
    /\ state = "tx" =>
         IF configuration_valid = TRUE
         THEN active_operation \in TxOperations ELSE active_operation = "IDLE"
    /\ active_operation \in {"IDLE", "CALIBRATION"} => radioOperationActive = FALSE

(* A calibration is left with the completion it posted itself. *)
CalibrationEnds ==
  state = "calibration" =>
    IF pc = "wait" THEN queue # <<>> /\ Head(queue) = OperationComplete
    ELSE event = OperationComplete

(* The completion an operation still owes, once its radio operation has begun. *)
Owed ==
  IF radioOperationActive = TRUE /\ (radio # "standby" \/ irq # {}) THEN 1 ELSE 0

OnlyCompletions == \A i \in DOMAIN queue : queue[i] = OperationComplete

(* One request at most, behind two completions and before one, if any. *)
QueueIsShort ==
  /\ \A i \in DOMAIN queue :
       queue[i] # OperationComplete =>
         /\ i <= 3 /\ Len(queue) + Owed <= i + 1
         /\ \A j \in DOMAIN queue : queue[j] # OperationComplete => j = i
  /\ OnlyCompletions => Len(queue) + Owed <= 2
  /\ pc # "wait" /\ event # OperationComplete => OnlyCompletions /\ Len(queue) + Owed <= 1

MInv ==
  /\ OperationAdmitted
  /\ RequestAdmitted
  /\ OneIndication
  /\ StateIsOperation
  /\ CalibrationEnds
  /\ QueueIsShort
  /\ NeverFails

-----------------------------------------------------------------------------
LEMMA InitMInv == Init => MInv
  <1> SUFFICES ASSUME Init PROVE MInv
    OBVIOUS
  <1> USE DEF Init
  <1>1. OperationAdmitted /\ RequestAdmitted /\ OneIndication /\ StateIsOperation
        /\ CalibrationEnds /\ NeverFails
    BY DEF OperationAdmitted, RequestAdmitted, OneIndication, StateIsOperation,
           CalibrationEnds, NeverFails
  <1>2. QueueIsShort
    BY DEF QueueIsShort, Owed, OnlyCompletions
  <1> QED
    BY <1>1, <1>2 DEF MInv

LEMMA OwedType == Owed \in 0..1 /\ Owed' \in 0..1
  BY DEF Owed

(* A step that leaves the queue alone keeps it short unless it incurs a debt.   *)
LEMMA QueueKept ==
  ASSUME QueueIsShort, TypeOK, queue' = queue, Owed' <= Owed,
         pc' # "wait" /\ event' # OperationComplete =>
           pc # "wait" /\ event # OperationComplete
  PROVE  QueueIsShort'
  <1>1. Len(queue) \in Nat
    BY DEF TypeOK
  <1>2. OnlyCompletions' = OnlyCompletions
    BY DEF OnlyCompletions
  <1>3. ASSUME NEW i \in DOMAIN queue', queue'[i] # OperationComplete
        PROVE  /\ i <= 3 /\ Len(queue') + Owed' <= i + 1
               /\ \A j \in DOMAIN queue' : queue'[j] # OperationComplete => j = i
    BY <1>1, <1>3, OwedType DEF QueueIsShort
  <1>4. OnlyCompletions' => Len(queue') + Owed' <= 2
    BY <1>1, <1>2, OwedType DEF QueueIsShort
  <1>5. pc' # "wait" /\ event' # OperationComplete =>
          OnlyCompletions' /\ Len(queue') + Owed' <= 1
    BY <1>1, <1>2, OwedType DEF QueueIsShort
  <1> QED
    BY <1>3, <1>4, <1>5 DEF QueueIsShort

LEMMA StopKeepsMInv ==
  ASSUME IInv, MInv, Disable \/ Standby \/ ClearIrqStatus \/ ReleaseSwitch
  PROVE  MInv'
  <1> USE DEF IInv, MInv
  <1>1. /\ pc # "wait" /\ pc' # "wait"
        /\ UNCHANGED <<object, queue, event, failed>>
        /\ radioOperationActive' = FALSE
    BY DEF Disable, Standby, ClearIrqStatus, ReleaseSwitch, At, hal, Stopped
  <1>2. (OperationAdmitted /\ RequestAdmitted /\ OneIndication /\ StateIsOperation
         /\ CalibrationEnds /\ NeverFails)'
    BY <1>1 DEF OperationAdmitted, RequestAdmitted, OneIndication, StateIsOperation,
           CalibrationEnds, NeverFails, object, Admitted
  <1>3. Owed' <= Owed
    BY <1>1, OwedType DEF Owed
  <1>4. QueueIsShort'
    BY <1>1, <1>3, QueueKept
  <1> QED
    BY <1>2, <1>4

(* Taking an event moves every other one up. *)
LEMMA TakenQueue ==
  ASSUME IInv, MInv, TakeEvent
  PROVE  /\ Len(queue) \in Nat \ {0} /\ Len(queue') = Len(queue) - 1
         /\ queue' \in Seq(Requests \cup {OperationComplete})
         /\ \A i \in DOMAIN queue' : i + 1 \in DOMAIN queue /\ queue'[i] = queue[i + 1]
         /\ event' = queue[1] /\ 1 \in DOMAIN queue
  BY DEF IInv, TypeOK, TakeEvent

LEMMA TakeKeepsQueueShort ==
  ASSUME IInv, MInv, TakeEvent, Owed' = Owed, pc' \in {"wait", "disable"}
  PROVE  QueueIsShort'
  <1> USE DEF MInv
  <1>1. /\ Len(queue) \in Nat \ {0} /\ Len(queue') = Len(queue) - 1
        /\ queue' \in Seq(Requests \cup {OperationComplete})
        /\ \A i \in DOMAIN queue' : i + 1 \in DOMAIN queue /\ queue'[i] = queue[i + 1]
        /\ event' = queue[1] /\ 1 \in DOMAIN queue
    BY TakenQueue
  <1>2. DOMAIN queue' \subseteq Nat \ {0}
    BY <1>1
  <1>3. ASSUME NEW i \in DOMAIN queue', queue'[i] # OperationComplete
        PROVE  /\ i <= 3 /\ Len(queue') + Owed' <= i + 1
               /\ \A j \in DOMAIN queue' : queue'[j] # OperationComplete => j = i
    <2>1. i + 1 \in DOMAIN queue /\ queue[i + 1] # OperationComplete /\ i \in Nat
      BY <1>1, <1>2, <1>3
    <2>2. /\ i + 1 <= 3 /\ Len(queue) + Owed <= i + 1 + 1
          /\ \A j \in DOMAIN queue : queue[j] # OperationComplete => j = i + 1
      BY <2>1 DEF QueueIsShort
    <2>3. \A j \in DOMAIN queue' : queue'[j] # OperationComplete => j + 1 = i + 1
      BY <2>2, <1>1
    <2>4. \A j \in DOMAIN queue' : queue'[j] # OperationComplete => j = i
      BY <2>3, <1>2, <2>1
    <2> QED
      BY <1>1, <2>1, <2>2, <2>4, OwedType
  <1>4. CASE queue[1] = OperationComplete
    <2>1. OnlyCompletions' => OnlyCompletions
      <3> SUFFICES ASSUME OnlyCompletions', NEW i \in DOMAIN queue
                   PROVE  queue[i] = OperationComplete
        BY DEF OnlyCompletions
      <3>1. DOMAIN queue = 1..Len(queue) /\ DOMAIN queue' = 1..Len(queue')
        BY <1>1 DEF IInv, TypeOK
      <3>2. CASE i = 1
        BY <3>2, <1>4
      <3>3. CASE i # 1
        <4>1. i - 1 \in DOMAIN queue' /\ (i - 1) + 1 = i
          BY <1>1, <3>1, <3>3
        <4> QED
          BY <4>1, <1>1 DEF OnlyCompletions
      <3> QED
        BY <3>2, <3>3
    <2>2. OnlyCompletions' => Len(queue') + Owed' <= 2
      BY <2>1, <1>1, OwedType DEF QueueIsShort
    <2> QED
      BY <1>3, <1>1, <1>4, <2>2 DEF QueueIsShort
  <1>5. CASE queue[1] # OperationComplete
    <2>1. /\ Len(queue) + Owed <= 2
          /\ \A j \in DOMAIN queue : queue[j] # OperationComplete => j = 1
      BY <1>1, <1>5 DEF QueueIsShort
    <2>2. \A j \in DOMAIN queue' : j + 1 # 1
      BY <1>2
    <2>3. OnlyCompletions'
      BY <1>1, <2>1, <2>2 DEF OnlyCompletions
    <2>4. Len(queue') + Owed' <= 1
      BY <1>1, <2>1, OwedType
    <2> QED
      BY <1>3, <1>1, <2>3, <2>4, OwedType DEF QueueIsShort
  <1> QED
    BY <1>4, <1>5

LEMMA DispatchKeepsMInv ==
  ASSUME IInv, MInv, DispatchStopping \/ DispatchWithoutEffect
  PROVE  MInv'
  <1> USE DEF IInv, MInv
  <1>1. /\ pc = "wait" /\ TakeEvent
        /\ UNCHANGED <<configuration, configuration_valid, active_operation, hal, radio,
                       irq, failed>>
    BY DEF DispatchStopping, DispatchWithoutEffect, TakeEvent, object
  <1>2. event' = queue[1] /\ event' = Head(queue)
        /\ event' \in Requests \cup {OperationComplete}
    BY <1>1, TakenQueue, TakeEventTypes
  <1>3. event'.sig \in Signals
    BY <1>2, EventFields
  <1>4. (OperationAdmitted /\ OneIndication /\ NeverFails)'
    BY <1>1 DEF OperationAdmitted, OneIndication, NeverFails, hal
  <1>5. Owed' = Owed /\ pc' \in {"wait", "disable"}
    BY <1>1 DEF Owed, hal, DispatchStopping, DispatchWithoutEffect
  <1>6. QueueIsShort'
    BY <1>1, <1>5, TakeKeepsQueueShort
  <1>7. CASE DispatchStopping
    <2>1. pc' = "disable" /\ state' = state /\ Stops(event')
      BY <1>7, <1>2 DEF DispatchStopping, object
    <2>2. RequestAdmitted'
      BY <1>1, <2>1 DEF RequestAdmitted, Stops, Admitted
    <2>3. CalibrationEnds'
      BY <1>1, <1>2, <2>1 DEF CalibrationEnds
    <2>4. StateIsOperation'
      BY <2>1 DEF StateIsOperation
    <2> QED
      BY <1>4, <1>6, <2>2, <2>3, <2>4
  <1>8. CASE DispatchWithoutEffect
    <2>1. /\ pc' = "wait" /\ ~Stops(event')
          /\ state' = IF event'.sig \in UnconditionalTx THEN "tx" ELSE state
      BY <1>8, <1>1, <1>2 DEF DispatchWithoutEffect
    <2>2. RequestAdmitted'
      BY <2>1 DEF RequestAdmitted
    <2>3. state # "calibration"
      BY <1>1, <1>2, <2>1 DEF CalibrationEnds, Stops, OperationComplete, Event
    <2>4. CalibrationEnds'
      BY <2>1, <2>3 DEF CalibrationEnds
    <2>5. CASE event'.sig \in UnconditionalTx
      <3>1. ~configuration_valid
        BY <2>1, <2>5 DEF Stops, Admitted, UnconditionalTx, StartSignals
      <3>2. active_operation = "IDLE"
        BY <1>1, <2>3, <3>1
        DEF OperationAdmitted, StateIsOperation, TypeOK, States
      <3> QED
        BY <1>1, <1>4, <1>6, <2>1, <2>2, <2>4, <2>5, <3>1, <3>2 DEF StateIsOperation, hal
    <2>6. CASE event'.sig \notin UnconditionalTx
      BY <1>1, <1>4, <1>6, <2>1, <2>2, <2>4, <2>6 DEF StateIsOperation, hal
    <2> QED
      BY <2>5, <2>6
  <1> QED
    BY <1>7, <1>8

LEMMA PerformKeepsMInv ==
  ASSUME IInv, MInv, EndOperation \/ SetConfiguration \/ Calibrate
  PROVE  MInv'
  <1> USE DEF IInv, MInv
  <1>1. /\ pc = "perform" /\ pc' = "wait" /\ radioOperationActive = FALSE
        /\ UNCHANGED <<hal, radio, irq, event>>
    BY DEF EndOperation, SetConfiguration, Calibrate, At, Stopped
  <1>2. Owed' = Owed /\ Owed = 0
    BY <1>1 DEF Owed, hal
  <1>3. RequestAdmitted' /\ OneIndication'
    BY <1>1 DEF RequestAdmitted, OneIndication, hal
  <1>4. CASE EndOperation \/ SetConfiguration
    <2>1. /\ state' = "idle" /\ active_operation' = "IDLE"
          /\ UNCHANGED <<queue, failed>>
      BY <1>4 DEF EndOperation, SetConfiguration
    <2>2. (OperationAdmitted /\ StateIsOperation /\ CalibrationEnds /\ NeverFails)'
      BY <1>1, <2>1
      DEF OperationAdmitted, StateIsOperation, CalibrationEnds, NeverFails, hal
    <2>3. QueueIsShort'
      BY <1>1, <1>2, <2>1, QueueKept
    <2> QED
      BY <1>3, <2>2, <2>3
  <1>5. CASE Calibrate
    <2>1. event # OperationComplete
      BY <1>5 DEF Calibrate, OperationComplete, Event
    <2>2. OnlyCompletions /\ Len(queue) <= 1 /\ Len(queue) \in Nat
      BY <1>1, <1>2, <2>1 DEF QueueIsShort, TypeOK
    <2>3. queue' = Append(queue, OperationComplete) /\ UNCHANGED failed
      BY <1>5, <2>2 DEF Calibrate, FitsQueue, QUEUE_CAPACITY
    <2>4. /\ Len(queue') = Len(queue) + 1
          /\ \A i \in DOMAIN queue' : queue'[i] = OperationComplete
          /\ queue' # <<>> /\ Head(queue') = OperationComplete
      BY <2>2, <2>3 DEF OnlyCompletions, TypeOK
    <2>5. QueueIsShort'
      BY <1>1, <1>2, <2>2, <2>4 DEF QueueIsShort, OnlyCompletions
    <2>6. (OperationAdmitted /\ StateIsOperation /\ CalibrationEnds /\ NeverFails)'
      BY <1>1, <1>5, <2>3, <2>4
      DEF Calibrate, OperationAdmitted, StateIsOperation, CalibrationEnds, NeverFails, hal
    <2> QED
      BY <1>3, <2>5, <2>6
  <1> QED
    BY <1>4, <1>5

LEMMA StartKeepsMInv ==
  ASSUME IInv, MInv, PrepareStart \/ Arm \/ CommandRadio
  PROVE  MInv'
  <1> USE DEF IInv, MInv
  <1>1. /\ pc \in {"perform", "arm", "command"} /\ radio = "standby" /\ irq = {}
        /\ irq' = {} /\ UNCHANGED <<configuration, configuration_valid, queue, event, failed>>
    BY DEF PrepareStart, Arm, CommandRadio, At, CancelledStaysCancelled, Cleared, object
  <1>2. event.sig \in StartSignals /\ Admitted(event.sig)
    BY <1>1 DEF PrepareStart, Arm, CommandRadio, At, Started, RequestAdmitted, StartSignals
  <1>3. event # OperationComplete
    BY <1>2 DEF OperationComplete, Event, StartSignals
  <1>4. OnlyCompletions /\ Len(queue) <= 1 /\ Len(queue) \in Nat
    BY <1>1, <1>3, OwedType DEF QueueIsShort, TypeOK
  <1>5. NeverFails' /\ RequestAdmitted'
    BY <1>1, <1>2 DEF NeverFails, RequestAdmitted, Admitted
  <1>6. active_operation' = OperationOf(event.sig)
    BY <1>1 DEF PrepareStart, Arm, CommandRadio, At, Started, object
  <1>7. OperationAdmitted'
    BY <1>1, <1>2, <1>6 DEF OperationAdmitted, OperationOf, Admitted, StartSignals
  <1>8. CASE PrepareStart \/ Arm
    <2>1. pc' \in {"arm", "command"} /\ radio' = radio /\ state' = state
      BY <1>8 DEF PrepareStart, Arm, object
    <2>2. Owed' = 0
      BY <1>1, <2>1 DEF Owed
    <2>3. QueueIsShort'
      BY <1>1, <1>3, <2>1, <2>2, OwedType, QueueKept
    <2>4. (OneIndication /\ StateIsOperation)'
      BY <1>1, <2>1 DEF OneIndication, StateIsOperation
    <2>5. state # "calibration"
      BY <1>1, <1>3 DEF CalibrationEnds
    <2>6. CalibrationEnds'
      BY <2>1, <2>5 DEF CalibrationEnds
    <2> QED
      BY <1>5, <1>7, <2>3, <2>4, <2>6
  <1>9. CASE CommandRadio
    <2>1. /\ pc' = "wait" /\ radio' = RadioModeOf(event.sig) /\ state' = StateOf(event.sig)
          /\ UNCHANGED hal /\ pc = "command"
      BY <1>9 DEF CommandRadio, At
    <2>2. QueueIsShort'
      <3>1. OnlyCompletions' /\ Len(queue') + Owed' <= 2
        BY <1>1, <1>4, OwedType DEF OnlyCompletions
      <3> QED
        BY <3>1, <2>1 DEF QueueIsShort, OnlyCompletions
    <2>3. StateIsOperation' /\ CalibrationEnds'
      BY <1>1, <1>2, <1>6, <2>1
      DEF StateIsOperation, CalibrationEnds, StateOf, OperationOf, StartSignals, TxOperations,
          Admitted
    <2>4. OneIndication'
      BY <1>1, <1>2, <1>6, <2>1
      DEF OneIndication, RadioModeOf, RxRadioMode, OperationOf, StartSignals
    <2> QED
      BY <1>5, <1>7, <2>2, <2>3, <2>4
  <1> QED
    BY <1>8, <1>9

-----------------------------------------------------------------------------
LEMMA HostKeepsMInv ==
  ASSUME IInv, MInv, NEW r \in Requests, HostPublishes(r)
  PROVE  MInv'
  <1> USE DEF IInv, MInv
  <1>1. /\ pc = "wait" /\ pc' = "wait" /\ OnlyCompletions
        /\ UNCHANGED <<object, hal, radio, irq, event>>
    BY DEF HostPublishes, OnlyCompletions
  <1>2. Owed' = Owed
    BY <1>1 DEF Owed, hal
  <1>3. Len(queue) \in Nat /\ Len(queue) + Owed <= 2
    BY <1>1, OwedType DEF QueueIsShort, TypeOK
  <1>4. queue' = Append(queue, r) /\ UNCHANGED failed
    BY <1>3, OwedType DEF HostPublishes, FitsQueue, QUEUE_CAPACITY
  <1>5. /\ Len(queue') = Len(queue) + 1 /\ DOMAIN queue' = 1..(Len(queue) + 1)
        /\ \A i \in 1..Len(queue) : queue'[i] = queue[i]
        /\ queue' # <<>> /\ (queue # <<>> => Head(queue') = Head(queue))
    BY <1>4 DEF TypeOK
  <1>6. (OperationAdmitted /\ RequestAdmitted /\ OneIndication /\ StateIsOperation
         /\ CalibrationEnds /\ NeverFails)'
    BY <1>1, <1>4, <1>5 DEF OperationAdmitted, RequestAdmitted, OneIndication,
           StateIsOperation, CalibrationEnds, NeverFails, object, hal
  <1>7. QueueIsShort'
    <2>1. \A i \in DOMAIN queue' :
            queue'[i] # OperationComplete => i = Len(queue) + 1
      BY <1>1, <1>3, <1>5 DEF OnlyCompletions, TypeOK
    <2>2. queue'[Len(queue) + 1] = r
      BY <1>4 DEF TypeOK
    <2>3. r # OperationComplete
      BY DEF Requests, OperationComplete, Event, Signals, StartSignals
    <2>4. ~OnlyCompletions'
      BY <1>3, <1>5, <2>2, <2>3 DEF OnlyCompletions
    <2> QED
      BY <1>1, <1>2, <1>3, <1>5, <2>1, <2>4, OwedType DEF QueueIsShort
  <1> QED
    BY <1>6, <1>7

LEMMA RadioKeepsMInv ==
  ASSUME IInv, MInv, Radio
  PROVE  MInv'
  <1> USE DEF IInv, MInv
  <1>1. /\ UNCHANGED <<object, hal, queue, pc, event, failed>>
        /\ radio # "standby"
    BY RadioStep
  <1>2. (OperationAdmitted /\ RequestAdmitted /\ StateIsOperation
         /\ CalibrationEnds /\ NeverFails)'
    BY <1>1 DEF OperationAdmitted, RequestAdmitted, StateIsOperation, CalibrationEnds,
           NeverFails, object, hal, Admitted
  <1>3. Owed' <= Owed
    BY <1>1 DEF Owed, hal
  <1>4. QueueIsShort'
    BY <1>1, <1>3, QueueKept
  <1>5. OneIndication'
    <2>1. CASE TransmissionEnds
      BY <1>1, <2>1
      DEF TransmissionEnds, RadioBecomes, OneIndication, RadioRunsOperation, object, hal
    <2>2. CASE ReceptionEnds
      <3>1. \A flags \in Receptions : flags \subseteq RxFlags /\ "TIMEOUT" \notin flags
        BY ReceptionsAssumption DEF RxFlags
      <3>2. CASE radio \in {"rx", "rxDutyCycle", "cadRx"}
        <4>1. PICK flags \in Receptions \cup {{"TIMEOUT"}} : RadioBecomes("standby", flags)
          BY <2>2, <3>2 DEF ReceptionEnds
        <4> QED
          BY <1>1, <3>1, <3>2, <4>1
          DEF RadioBecomes, OneIndication, RadioRunsOperation, object, hal
      <3>3. CASE radio = "rxContinuous"
        <4>1. PICK flags \in Receptions : RadioBecomes("rxContinuous", flags)
          BY <2>2, <3>3 DEF ReceptionEnds
        <4> QED
          BY <1>1, <3>1, <3>3, <4>1
          DEF RadioBecomes, OneIndication, RadioRunsOperation, object, hal
      <3> QED
        BY <2>2, <3>2, <3>3 DEF ReceptionEnds
    <2>3. CASE ScanEnds
      BY <1>1, <2>3
      DEF ScanEnds, RadioBecomes, OneIndication, RadioRunsOperation, object, hal
    <2> QED
      BY <2>1, <2>2, <2>3 DEF Radio
  <1> QED
    BY <1>2, <1>4, <1>5

-----------------------------------------------------------------------------
LEMMA CardinalityOfOneAtMost ==
  ASSUME NEW S, \A x, y \in S : x = y
  PROVE  Cardinality(S) \in 0..1
  <1>1. CASE S = {}
    BY <1>1, FS_EmptySet
  <1>2. CASE S # {}
    <2>1. PICK x \in S : S = {x}
      BY <1>2
    <2> QED
      BY <2>1, FS_Singleton
  <1> QED
    BY <1>1, <1>2

(* A callback finds the configuration its operation was admitted for. *)
LEMMA AssertionsHold ==
  ASSUME IInv, MInv, NEW cb \in Callbacks
  PROVE  AssertionHolds(cb)
  <1> USE DEF IInv, MInv
  <1>1. radioOperationActive = TRUE
    BY RestartsAreCurrent
  <1>2. irq \subseteq FlagsOf(active_operation)
    BY <1>1 DEF CurrentIndications
  <1>3. transmitting = (active_operation \in TxOperations)
    BY <1>1 DEF Prepared
  <1>4. active_operation \in Operations
    BY DEF TypeOK
  <1>5. cb \in {"rx_done", "rx_timeout"} => active_operation \in {"RX", "CAD"}
    BY <1>1, <1>2, <1>3, <1>4
    DEF Callbacks, Indications, FlagsOf, RxFlags, Operations, TxOperations
  <1>6. RestartsCad(cb) => configuration.type = "LORA"
    BY RestartsAreCurrent DEF OperationAdmitted
  <1> QED
    BY <1>5, <1>6 DEF AssertionHolds, OperationAdmitted, Scanning

(* A callback completes the operation once, when the radio is done with it. *)
LEMMA CompletionsAreSettled ==
  ASSUME IInv, MInv, NEW cb \in Callbacks, Completes(cb)
  PROVE  /\ radio = "standby"
         /\ \A other \in Callbacks : ~RestartsCad(other) /\ ~RearmsRx(other)
         /\ \A other \in Callbacks : Completes(other) => other = cb
  <1> USE DEF IInv, MInv
  <1>1. radioOperationActive = TRUE
    BY RestartsAreCurrent
  <1>2. /\ irq \subseteq FlagsOf(active_operation) /\ irq # {}
        /\ transmitting = (active_operation \in TxOperations)
        /\ active_operation \in Operations
    BY <1>1 DEF CurrentIndications, Prepared, TypeOK, Callbacks, Indications, Rejected
  <1>3. /\ configuration.rxMode \in {0, 1, 2}
        /\ configuration.cadExit \in {0, 1}
    BY DEF TypeOK, ConfigurationSpace, RxModes, CadExitModes
  <1>4. CASE active_operation = "PACKET_TX"
    <2>1. irq \in {{"TX_DONE"}, {"TIMEOUT"}} /\ radio = "standby" /\ transmitting
      BY <1>1, <1>2, <1>4 DEF OneIndication, TxOperations
    <2>2. \A other \in Callbacks : other = IF "TX_DONE" \in irq THEN "tx_done" ELSE "tx_timeout"
      BY <1>1, <2>1 DEF Callbacks, Indications, Rejected
    <2> QED
      BY <1>4, <2>1, <2>2 DEF RestartsCad, RearmsRx, Scanning
  <1>5. CASE active_operation = "RX"
    <2>1. ~transmitting /\ irq \subseteq RxFlags \cup {"TIMEOUT"}
      BY <1>2, <1>5 DEF TxOperations, FlagsOf
    <2>2. \A other \in Callbacks : other \in {"rx_done", "rx_error", "rx_timeout"}
      BY <1>1, <2>1 DEF Callbacks, Indications, Rejected, RxFlags
    <2>3. configuration.rxMode = 0
      BY <1>1, <1>3, <1>5, <2>2
      DEF Completes, OneIndication, Scanning, Callbacks, Indications
    <2>4. radio = "standby"
      BY <1>1, <1>2, <1>5, <2>3 DEF OneIndication
    <2>5. \A other \in Callbacks : ~RestartsCad(other) /\ ~RearmsRx(other)
      BY <1>5, <2>2, <2>3 DEF RestartsCad, RearmsRx, Scanning
    <2>6. "TIMEOUT" \in irq => irq = {"TIMEOUT"}
      BY <1>1, <1>5, <2>3 DEF OneIndication
    <2>7. "rx_done" \in Callbacks /\ "rx_timeout" \in Callbacks => FALSE
      BY <1>1, <2>6 DEF Callbacks, Indications
    <2>8. \A other \in Callbacks : Completes(other) => other \in {"rx_done", "rx_timeout"}
      BY <2>2 DEF Completes
    <2> QED
      BY <2>4, <2>5, <2>7, <2>8
  <1>6. CASE active_operation = "CAD"
    <2>1. ~transmitting /\ irq \subseteq RxFlags \cup {"TIMEOUT", "CAD_DONE", "CAD_DETECTED"}
      BY <1>2, <1>6 DEF TxOperations, FlagsOf
    <2>2. \A other \in Callbacks : Completes(other) => other = "cad_detected"
      BY <1>1, <1>6, <2>1 DEF Callbacks, Indications, Completes, Scanning, RxFlags
    <2>3. configuration.cadExit = 0 /\ {"CAD_DONE", "CAD_DETECTED"} \subseteq irq
      BY <1>1, <2>2 DEF Completes, Callbacks, Indications
    <2>4. radio = "standby" /\ irq \subseteq {"CAD_DONE", "CAD_DETECTED"}
      BY <1>1, <1>6, <2>3 DEF OneIndication
    <2>5. \A other \in Callbacks : other = "cad_detected"
      BY <1>1, <2>3, <2>4 DEF Callbacks, Indications, Rejected
    <2> QED
      BY <2>2, <2>4, <2>5 DEF RestartsCad, RearmsRx
  <1>7. CASE active_operation \notin {"PACKET_TX", "RX", "CAD"}
    BY <1>2, <1>7 DEF FlagsOf
  <1> QED
    BY <1>4, <1>5, <1>6, <1>7


LEMMA QueueBound ==
  ASSUME TypeOK, QueueIsShort
  PROVE  Len(queue) \in Nat /\ Len(queue) + Owed <= 4
  <1>1. CASE OnlyCompletions
    BY <1>1, OwedType DEF QueueIsShort, TypeOK
  <1>2. CASE ~OnlyCompletions
    BY <1>2, OwedType DEF QueueIsShort, OnlyCompletions, TypeOK
  <1> QED
    BY <1>1, <1>2

(* The interrupt posts one completion at most, and then owes none. *)
LEMMA IrqCompletes ==
  ASSUME IInv, MInv, RadioIrq
  PROVE  /\ UNCHANGED failed
         /\ \/ queue' = queue /\ Owed' <= Owed
            \/ queue' = Append(queue, OperationComplete) /\ Owed = 1 /\ Owed' = 0
  <1> DEFINE n == Cardinality({cb \in Callbacks : Completes(cb)})
             restarts == \E cb \in Callbacks : RestartsCad(cb) \/ RearmsRx(cb)
  <1> USE DEF IInv, MInv
  <1>1. irq' = {} /\ irq # {} /\ (~restarts => UNCHANGED <<radio, hal>>)
    BY DEF RadioIrq
  <1>2. n \in 0..1
    BY CompletionsAreSettled, CardinalityOfOneAtMost
  <1>3. \A cb \in Callbacks : AssertionHolds(cb)
    BY AssertionsHold
  <1>4. CASE n = 0
    <2>1. FitsQueue(0)
      BY QueueBound, OwedType DEF FitsQueue, QUEUE_CAPACITY
    <2>2. queue' = queue /\ UNCHANGED failed
      BY <1>3, <1>4, <2>1 DEF RadioIrq, TypeOK
    <2>3. radioOperationActive = TRUE => Owed = 1
      BY <1>1 DEF Owed
    <2>4. radioOperationActive # TRUE => Owed' = 0
      <3>1. radioOperationActive # TRUE => ~restarts
        BY RestartsAreCurrent
      <3> QED
        BY <3>1, <1>1 DEF Owed, hal
    <2>5. Owed' <= Owed
      <3>1. CASE radioOperationActive = TRUE
        BY <2>3, <3>1, OwedType
      <3>2. CASE radioOperationActive # TRUE
        BY <2>4, <3>2, OwedType
      <3> QED
        BY <3>1, <3>2
    <2> QED
      BY <2>2, <2>5
  <1>5. CASE n = 1
    <2>1. FitsQueue(1)
      BY QueueBound, OwedType DEF FitsQueue, QUEUE_CAPACITY
    <2>2. queue' = queue \o [i \in 1..1 |-> OperationComplete] /\ UNCHANGED failed
      <3> DEFINE c == [i \in 1..n |-> OperationComplete]
      <3>1. IF FitsQueue(Len(c)) /\ \A cb \in Callbacks : AssertionHolds(cb)
            THEN queue' = queue \o c /\ UNCHANGED failed
            ELSE failed' = TRUE /\ UNCHANGED queue
        BY DEF RadioIrq
      <3> HIDE DEF n
      <3>2. c = [i \in 1..1 |-> OperationComplete]
        BY <1>5
      <3>4. Len([i \in 1..1 |-> OperationComplete]) = 1
        OBVIOUS
      <3> HIDE DEF c
      <3>3. Len(c) = 1
        BY <3>2, <3>4
      <3> QED
        BY <1>3, <2>1, <3>1, <3>2, <3>3
    <2>6. queue' = Append(queue, OperationComplete)
      <3> HIDE DEF n
      <3> QED
        BY <2>2 DEF TypeOK
    <2>3. PICK cb \in Callbacks : Completes(cb)
      BY <1>5, FS_EmptySet
    <2>4. radioOperationActive = TRUE /\ radio = "standby" /\ ~restarts
      BY <2>3, CompletionsAreSettled, RestartsAreCurrent
    <2>5. Owed = 1 /\ Owed' = 0
      BY <1>1, <2>4 DEF Owed
    <2> QED
      BY <2>2, <2>5, <2>6
  <1> QED
    BY <1>2, <1>4, <1>5

LEMMA IrqKeepsQueueShort ==
  ASSUME IInv, MInv, RadioIrq
  PROVE  QueueIsShort'
  <1> USE DEF IInv, MInv
  <1>1. UNCHANGED <<pc, event>>
    BY DEF RadioIrq
  <1>2. CASE queue' = queue /\ Owed' <= Owed
    BY <1>1, <1>2, QueueKept
  <1>3. CASE queue' = Append(queue, OperationComplete) /\ Owed = 1 /\ Owed' = 0
    <2>1. /\ Len(queue) \in Nat /\ Len(queue') = Len(queue) + 1
          /\ \A i \in DOMAIN queue' :
               queue'[i] # OperationComplete => i \in DOMAIN queue /\ queue'[i] = queue[i]
          /\ \A i \in DOMAIN queue : i \in DOMAIN queue' /\ queue'[i] = queue[i]
      BY <1>3 DEF TypeOK
    <2>2. OnlyCompletions' = OnlyCompletions
      BY <2>1 DEF OnlyCompletions
    <2> QED
      BY <1>1, <1>3, <2>1, <2>2 DEF QueueIsShort
  <1> QED
    BY <1>2, <1>3, IrqCompletes

LEMMA RadioIrqKeepsMInv ==
  ASSUME IInv, MInv, RadioIrq
  PROVE  MInv'
  <1> DEFINE restarts == \E cb \in Callbacks : RestartsCad(cb) \/ RearmsRx(cb)
  <1> USE DEF IInv, MInv
  <1>1. /\ UNCHANGED <<state, configuration, configuration_valid, active_operation, pc,
                       event>>
        /\ irq' = {} /\ (~restarts => UNCHANGED <<radio, hal>>)
    BY DEF RadioIrq, object
  <1>2. (OperationAdmitted /\ RequestAdmitted /\ NeverFails)'
    <2>1. UNCHANGED failed
      BY IrqCompletes
    <2> QED
      BY <1>1, <2>1 DEF OperationAdmitted, RequestAdmitted, NeverFails, Admitted
  <1>3. CalibrationEnds'
    BY <1>1, IrqCompletes DEF CalibrationEnds, TypeOK
  <1>4. StateIsOperation' /\ OneIndication'
    <2>1. CASE restarts
      <3>1. radioOperationActive = TRUE
        BY <2>1, RestartsAreCurrent DEF restarts
      <3>2. /\ radioOperationActive' = TRUE
            /\ radio' = IF \E cb \in Callbacks : RestartsCad(cb) THEN "cad" ELSE "rxDutyCycle"
        BY <2>1 DEF RadioIrq, restarts
      <3>3. \/ active_operation = "CAD" /\ radio' = "cad"
            \/ active_operation = "RX" /\ radio' = "rxDutyCycle" /\ configuration.rxMode = 2
        <4>1. CASE \E cb \in Callbacks : RestartsCad(cb)
          BY <3>2, <4>1, RestartsAreCurrent
        <4>2. CASE ~\E cb \in Callbacks : RestartsCad(cb)
          <5>1. PICK cb \in Callbacks : RearmsRx(cb)
            BY <2>1, <4>2 DEF restarts
          <5>2. active_operation # "CAD"
            BY <4>2, <5>1 DEF RearmsRx, RestartsCad, Scanning
          <5> QED
            BY <3>2, <4>2, <5>1, <5>2, RestartsAreCurrent DEF RearmsRx
        <4> QED
          BY <4>1, <4>2
      <3> QED
        BY <1>1, <3>1, <3>2, <3>3 DEF StateIsOperation, OneIndication
    <2>2. CASE ~restarts
      BY <1>1, <2>2 DEF StateIsOperation, OneIndication, hal
    <2> QED
      BY <2>1, <2>2
  <1> QED
    BY <1>2, <1>3, <1>4, IrqKeepsQueueShort

LEMMA StutterKeepsMInv ==
  ASSUME IInv, MInv, UNCHANGED vars
  PROVE  MInv'
  <1> USE DEF IInv, MInv, vars
  <1>1. (OperationAdmitted /\ RequestAdmitted /\ OneIndication /\ StateIsOperation
         /\ CalibrationEnds /\ NeverFails)'
    BY DEF OperationAdmitted, RequestAdmitted, OneIndication, StateIsOperation,
           CalibrationEnds, NeverFails, Admitted
  <1>2. Owed' <= Owed
    BY OwedType DEF Owed
  <1>3. QueueIsShort'
    BY <1>2, QueueKept
  <1> QED
    BY <1>1, <1>3

(* Every reachable state satisfies the second invariant as well.                *)
THEOREM ModeInductive == Spec => []MInv
  <1>1. ASSUME IInv, MInv, [Next]_vars PROVE MInv'
    <2>1. CASE Host
      BY <1>1, <2>1, HostKeepsMInv DEF Host
    <2>2. CASE Thread
      BY <1>1, <2>2, DispatchKeepsMInv, StopKeepsMInv, PerformKeepsMInv, StartKeepsMInv
      DEF Thread
    <2>3. CASE RadioIrq
      BY <1>1, <2>3, RadioIrqKeepsMInv
    <2>4. CASE Radio
      BY <1>1, <2>4, RadioKeepsMInv
    <2>5. CASE UNCHANGED vars
      BY <1>1, <2>5, StutterKeepsMInv
    <2> QED
      BY <1>1, <2>1, <2>2, <2>3, <2>4, <2>5 DEF Next
  <1> QED
    BY InitMInv, Inductive, <1>1, PTL DEF Spec

(* No EAF assertion of a callback fails and no event is refused by a full       *)
(* queue, for every set of configurations and every way a reception ends.       *)
THEOREM NothingFails == Spec => []NeverFails
  <1>1. MInv => NeverFails
    BY DEF MInv
  <1> QED
    BY <1>1, ModeInductive, PTL

(* Between events the state machine, the operation reported to the host and the *)
(* radio agree, whatever interrupts came in between.                            *)
THEOREM ModesAgree == Spec => []ModeAgreesWithRadio
  <1>1. IInv /\ MInv => ModeAgreesWithRadio
    BY RadioModesAre DEF IInv, MInv, StateIsOperation, RadioRunsOperation, TypeOK,
       ModeAgreesWithRadio, TxOperations, Transmitting, States
  <1> QED
    BY <1>1, Inductive, ModeInductive, PTL
=============================================================================
