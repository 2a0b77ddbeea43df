------------------------------ MODULE RfManager ------------------------------
(***************************************************************************)
(* The rf_manager active object: its state machine (rf_manager.c), its     *)
(* activities (rf_manager_activities.c) and the flags of its HAL           *)
(* (target/rf_manager_hal.c), run by one active-object thread that the     *)
(* radio interrupt may enter between any two of its steps.  The radio      *)
(* itself is external: it ends an operation, raises its flags, and the     *)
(* interrupt handler reads and clears them.                                *)
(*                                                                         *)
(* The thread's position in a handler is pc; radio commands are atomic,    *)
(* since the HAL masks the radio interrupt during each SPI transaction.    *)
(***************************************************************************)
EXTENDS Naturals, Sequences, FiniteSets

CONSTANTS
  Configurations,  \* the configurations a host may send: records [type, rxMode, cadExit]
  Receptions       \* the sets of flags with which the radio ends a reception

PacketTypes  == {"FSK", "LORA", "BPSK", "MSK"}
RxModes      == 0..2      \* single, continuous, duty cycle
CadExitModes == 0..1      \* stop or receive on detection
ConfigurationSpace ==
  [type : PacketTypes, rxMode : RxModes, cadExit : CadExitModes]
RxFlags == {"RX_DONE", "CRC_ERROR", "HEADER_ERROR"}
Flags   == RxFlags \cup {"TX_DONE", "TIMEOUT", "CAD_DONE", "CAD_DETECTED"}

ASSUME ConfigurationsAssumption == Configurations \subseteq ConfigurationSpace
ASSUME ReceptionsAssumption == Receptions \subseteq (SUBSET RxFlags) \ {{}}

VARIABLES
  state,                 \* the state of the HSM
  configuration,
  configuration_valid,
  active_operation,
  radioOperationActive,  \* the HAL's volatile flags
  transmitting,
  rf_switch,             \* PA4: which RF path the antenna switch selects
  radio,                 \* external: what the radio is doing
  irq,                   \* external: the radio's interrupt status
  queue,                 \* the active object's event queue
  pc,                    \* where the active object's thread is
  event,                 \* the event it dispatches
  failed                 \* an EAF assertion has stopped the program

vars == <<state, configuration, configuration_valid, active_operation,
          radioOperationActive, transmitting, rf_switch, radio, irq, queue,
          pc, event, failed>>

object == <<state, configuration, configuration_valid, active_operation>>
hal    == <<radioOperationActive, transmitting, rf_switch>>

States == {"idle", "tx", "rx", "cad", "calibration"}
Operations == {"IDLE", "PACKET_TX", "RX", "CAD", "CONTINUOUS_WAVE_TX",
               "CONTINUOUS_PREAMBLE_TX", "CALIBRATION"}
StartSignals == {"TX_PACKET", "RX_START", "CAD_START", "TX_CONTINUOUS_WAVE",
                 "TX_CONTINUOUS_PREAMBLE"}
\* GET_CONFIG_REQUEST and GET_DIAGNOSTICS_REQUEST only publish a response and
\* re-enter the state: GET_REQUEST stands for both.
Signals == StartSignals \cup
           {"GET_REQUEST", "SET_CONFIG", "CALIBRATE", "STOP", "OPERATION_COMPLETE"}

\* Zero-initialised storage: RF_TYPES_PACKET_TYPE_FSK is 0.
ZeroConfiguration == [type |-> "FSK", rxMode |-> 0, cadExit |-> 0]

\* An event; only SET_CONFIG carries a configuration the handlers read.
Event(sig, c) == [sig |-> sig, configuration |-> c]
OperationComplete == Event("OPERATION_COMPLETE", ZeroConfiguration)
Requests ==
  {Event(s, ZeroConfiguration) :
     s \in Signals \ {"SET_CONFIG", "OPERATION_COMPLETE"}}
    \cup {Event("SET_CONFIG", c) : c \in Configurations}

Transmitting == {"tx", "carrier"}          \* what radio may be doing
Receiving    == {"rx", "rxContinuous", "rxDutyCycle", "cad", "cadRx"}
RadioModes   == Transmitting \cup Receiving \cup {"standby"}

QUEUE_CAPACITY == 6   \* EVENT_QUEUE_STORAGE_SIZE and the front slot of the queue
FitsQueue(n) == Len(queue) + n <= QUEUE_CAPACITY

Init ==
  /\ state = "idle"
  /\ configuration = ZeroConfiguration
  /\ configuration_valid = FALSE
  /\ active_operation = "IDLE"
  /\ radioOperationActive = FALSE
  /\ transmitting = FALSE
  /\ rf_switch = "rx"
  /\ radio = "standby"
  /\ irq = {}
  /\ queue = <<>>
  /\ pc = "wait"
  /\ event = OperationComplete
  /\ failed = FALSE

-----------------------------------------------------------------------------
(* The host.  host_command_manager has the lower priority: while this object *)
(* has work it does not run, so at most one request waits, among completions *)
(* the interrupt posted while the publisher held the scheduler lock.         *)

HostPublishes(r) ==
  /\ ~failed
  /\ pc = "wait"
  /\ \A i \in DOMAIN queue : queue[i] = OperationComplete
  /\ IF FitsQueue(1)
     THEN queue' = Append(queue, r) /\ UNCHANGED failed
     ELSE failed' = TRUE /\ UNCHANGED queue
  /\ UNCHANGED <<object, hal, radio, irq, pc, event>>

-----------------------------------------------------------------------------
(* The state machine and its activities. *)

\* Mutant: CAD admitted for every packet type.
AdmitsAnyCad(sig) ==
  configuration_valid /\ (sig = "RX_START" => configuration.type \in {"LORA", "FSK"})

\* The start requests each activity admits.
Admitted(sig) ==
  /\ configuration_valid
  /\ sig = "RX_START" => configuration.type \in {"LORA", "FSK"}
  /\ sig = "CAD_START" => configuration.type = "LORA"
  /\ sig = "TX_CONTINUOUS_PREAMBLE" => configuration.type \in {"LORA", "FSK", "MSK"}

\* TX_PACKET and TX_CONTINUOUS_WAVE make the transition to tx admitted or not.
UnconditionalTx == {"TX_PACKET", "TX_CONTINUOUS_WAVE"}

\* Mutant: the signal stored in place of the operation.
OperationIsSignal(sig) == sig

OperationOf(sig) ==
  CASE sig = "TX_PACKET" -> "PACKET_TX"
    [] sig = "RX_START" -> "RX"
    [] sig = "CAD_START" -> "CAD"
    [] sig = "TX_CONTINUOUS_WAVE" -> "CONTINUOUS_WAVE_TX"
    [] sig = "TX_CONTINUOUS_PREAMBLE" -> "CONTINUOUS_PREAMBLE_TX"

StateOf(sig) ==
  CASE sig = "RX_START" -> "rx" [] sig = "CAD_START" -> "cad" [] OTHER -> "tx"

RxRadioMode == <<"rx", "rxContinuous", "rxDutyCycle">>[configuration.rxMode + 1]

RadioModeOf(sig) ==
  CASE sig = "TX_PACKET" -> "tx"
    [] sig = "RX_START" -> RxRadioMode
    [] sig = "CAD_START" -> "cad"
    [] OTHER -> "carrier"

\* Whether the handler of e reaches rfManagerHal_stop() in the current state.
Stops(e) ==
  \/ e.sig \in {"SET_CONFIG", "CALIBRATE", "STOP"}
  \/ e.sig \in StartSignals /\ Admitted(e.sig)
  \/ e.sig = "OPERATION_COMPLETE" /\ state # "idle"

TakeEvent ==
  /\ ~failed
  /\ pc = "wait"
  /\ queue # <<>>
  /\ event' = Head(queue)
  /\ queue' = Tail(queue)

DispatchStopping ==
  /\ TakeEvent
  /\ Stops(Head(queue))
  /\ pc' = "disable"
  /\ UNCHANGED <<object, hal, radio, irq, failed>>

\* Queries, refused requests and a completion in idle touch no operation.
DispatchWithoutEffect ==
  /\ TakeEvent
  /\ ~Stops(Head(queue))
  /\ state' = IF Head(queue).sig \in UnconditionalTx THEN "tx" ELSE state
  /\ UNCHANGED <<configuration, configuration_valid, active_operation, hal,
                 radio, irq, pc, failed>>

(* rfManagerHal_stop(), one step per effect the interrupt can observe. *)
At(label) == ~failed /\ pc = label

Disable ==
  /\ At("disable")
  /\ radioOperationActive' = FALSE
  /\ transmitting' = FALSE
  /\ pc' = "standby"
  /\ UNCHANGED <<object, rf_switch, radio, irq, queue, event, failed>>

Standby ==
  /\ At("standby")
  /\ radio' = "standby"
  /\ pc' = "clear"
  /\ UNCHANGED <<object, hal, irq, queue, event, failed>>

\* Mutant: stop leaves the radio's indications pending.
ClearNothing ==
  /\ At("clear")
  /\ pc' = "release"
  /\ UNCHANGED <<object, hal, radio, irq, queue, event, failed>>

ClearIrqStatus ==
  /\ At("clear")
  /\ irq' = {}
  /\ pc' = "release"
  /\ UNCHANGED <<object, hal, radio, queue, event, failed>>

ReleaseSwitch ==
  /\ At("release")
  /\ rf_switch' = "rx"
  /\ pc' = "perform"
  /\ UNCHANGED <<object, radioOperationActive, transmitting, radio, irq, queue,
                 event, failed>>

(* What each handler does after the stop. *)
\* Mutant: the completed operation stays recorded as active.
EndKeepsOperation ==
  /\ At("perform")
  /\ event.sig \in {"STOP", "OPERATION_COMPLETE"}
  /\ state' = "idle"
  /\ pc' = "wait"
  /\ UNCHANGED <<configuration, configuration_valid, active_operation, hal, radio,
                 irq, queue, event, failed>>

EndOperation ==
  /\ At("perform")
  /\ event.sig \in {"STOP", "OPERATION_COMPLETE"}
  /\ active_operation' = "IDLE"
  /\ state' = "idle"
  /\ pc' = "wait"
  /\ UNCHANGED <<configuration, configuration_valid, hal, radio, irq, queue,
                 event, failed>>

SetConfiguration ==
  /\ At("perform")
  /\ event.sig = "SET_CONFIG"
  /\ configuration' = event.configuration
  /\ configuration_valid' = TRUE
  /\ active_operation' = "IDLE"
  /\ state' = "idle"
  /\ pc' = "wait"
  /\ UNCHANGED <<hal, radio, irq, queue, event, failed>>

Calibrate ==
  /\ At("perform")
  /\ event.sig = "CALIBRATE"
  /\ active_operation' = "CALIBRATION"
  /\ state' = "calibration"
  /\ IF FitsQueue(1)
     THEN queue' = Append(queue, OperationComplete) /\ UNCHANGED failed
     ELSE failed' = TRUE /\ UNCHANGED queue
  /\ pc' = "wait"
  /\ UNCHANGED <<configuration, configuration_valid, hal, radio, irq, event>>

\* Mutant: the antenna switch is left where rfManagerHal_stop() put it.
PrepareKeepsSwitch ==
  /\ At("perform")
  /\ event.sig \in StartSignals
  /\ active_operation' = OperationOf(event.sig)
  /\ transmitting' = (StateOf(event.sig) = "tx")
  /\ pc' = "arm"
  /\ UNCHANGED <<state, configuration, configuration_valid, radioOperationActive,
                 rf_switch, radio, irq, queue, event, failed>>

PrepareStart ==
  /\ At("perform")
  /\ event.sig \in StartSignals
  /\ active_operation' = OperationOf(event.sig)
  /\ transmitting' = (StateOf(event.sig) = "tx")
  /\ rf_switch' = IF StateOf(event.sig) = "tx" THEN "tx" ELSE "rx"
  /\ pc' = "arm"
  /\ UNCHANGED <<state, configuration, configuration_valid,
                 radioOperationActive, radio, irq, queue, event, failed>>

Arm ==
  /\ At("arm")
  /\ radioOperationActive' = TRUE
  /\ pc' = "command"
  /\ UNCHANGED <<object, transmitting, rf_switch, radio, irq, queue, event, failed>>

CommandRadio ==
  /\ At("command")
  /\ radio' = RadioModeOf(event.sig)
  /\ state' = StateOf(event.sig)
  /\ pc' = "wait"
  /\ UNCHANGED <<configuration, configuration_valid, active_operation, hal, irq,
                 queue, event, failed>>

-----------------------------------------------------------------------------
(* The radio interrupt: the callbacks the indications select.  It is atomic:  *)
(* nothing has a higher priority.  A start from a callback clears transmitting*)
(* before the timeout branch reads it, which matters only if one set of       *)
(* indications could mix transmission and reception (CurrentIndications).     *)

\* Mutant: the handler delivers the indications of a cancelled operation.
AllIndications == irq

Indications == IF radioOperationActive THEN irq ELSE {}

Rejected(flags) == flags \cap {"HEADER_ERROR", "CRC_ERROR"} # {}

Callbacks ==
  LET f == Indications IN
    {cb \in {"tx_done", "rx_error", "rx_done", "tx_timeout", "rx_timeout",
             "cad_detected", "cad_clear"} :
       CASE cb = "tx_done" -> "TX_DONE" \in f
         [] cb = "rx_error" -> Rejected(f)
         [] cb = "rx_done" -> "RX_DONE" \in f /\ ~Rejected(f)
         [] cb = "tx_timeout" -> "TIMEOUT" \in f /\ transmitting
         [] cb = "rx_timeout" -> "TIMEOUT" \in f /\ ~transmitting
         [] cb = "cad_detected" -> {"CAD_DONE", "CAD_DETECTED"} \subseteq f
         [] cb = "cad_clear" -> "CAD_DONE" \in f /\ "CAD_DETECTED" \notin f}

Scanning == active_operation = "CAD"

\* Mutant: a timeout completes nothing.
CompletesWithoutTimeout(cb) ==
  \/ cb \in {"tx_done", "tx_timeout"}
  \/ cb = "rx_done" /\ ~Scanning /\ configuration.rxMode = 0
  \/ cb = "cad_detected" /\ configuration.cadExit = 0

\* The callbacks that publish OPERATION_COMPLETE.
Completes(cb) ==
  \/ cb \in {"tx_done", "tx_timeout"}
  \/ cb = "rx_done" /\ ~Scanning /\ configuration.rxMode = 0
  \/ cb = "rx_timeout" /\ ~Scanning /\ configuration.rxMode # 2
  \/ cb = "cad_detected" /\ configuration.cadExit = 0

\* The callbacks that start a scan or a duty-cycle reception again.
RestartsCad(cb) ==
  cb = "cad_clear" \/ (cb \in {"rx_done", "rx_timeout"} /\ Scanning)

RearmsRx(cb) ==
  /\ configuration.rxMode = 2
  /\ \/ cb \in {"rx_done", "rx_timeout"} /\ ~Scanning
     \/ cb = "rx_error" /\ active_operation = "RX"

\* The assertions of getRxMode(), readReceivedPacket() and startCad().
AssertionHolds(cb) ==
  /\ \/ cb = "rx_done"
     \/ cb = "rx_timeout" /\ ~Scanning
     \/ cb = "rx_error" /\ active_operation = "RX"
     => configuration.type \in {"LORA", "FSK"}
  /\ RestartsCad(cb) => configuration.type = "LORA"

RadioIrq ==
  LET completions ==
        [i \in 1..Cardinality({cb \in Callbacks : Completes(cb)}) |-> OperationComplete]
      restartCad == \E cb \in Callbacks : RestartsCad(cb)
      rearmRx    == \E cb \in Callbacks : RearmsRx(cb)
  IN
  /\ ~failed
  /\ irq # {}
  /\ irq' = {}
  /\ IF FitsQueue(Len(completions)) /\ \A cb \in Callbacks : AssertionHolds(cb)
     THEN queue' = queue \o completions /\ UNCHANGED failed
     ELSE failed' = TRUE /\ UNCHANGED queue
  /\ radio' = IF restartCad THEN "cad" ELSE IF rearmRx THEN "rxDutyCycle" ELSE radio
  /\ IF restartCad \/ rearmRx
     THEN transmitting' = FALSE /\ rf_switch' = "rx" /\ radioOperationActive' = TRUE
     ELSE UNCHANGED hal
  /\ UNCHANGED <<object, pc, event>>

-----------------------------------------------------------------------------
(* External: the radio, as the code and the commands it sends presume it. *)

RadioBecomes(mode, flags) ==
  /\ ~failed
  /\ radio' = mode
  /\ irq' = irq \cup flags
  /\ UNCHANGED <<object, hal, queue, pc, event, failed>>

TransmissionEnds ==
  radio = "tx" /\ \E f \in {"TX_DONE", "TIMEOUT"} : RadioBecomes("standby", {f})

\* Every mode but the continuous one ends with the first packet.
ReceptionEnds ==
  \/ radio \in {"rx", "rxDutyCycle", "cadRx"}
     /\ \E flags \in Receptions \cup {{"TIMEOUT"}} : RadioBecomes("standby", flags)
  \/ radio = "rxContinuous"
     /\ \E flags \in Receptions : RadioBecomes("rxContinuous", flags)

ScanEnds ==
  /\ radio = "cad"
  /\ \/ RadioBecomes("standby", {"CAD_DONE"})
     \/ RadioBecomes(IF configuration.cadExit = 0 THEN "standby" ELSE "cadRx",
                     {"CAD_DONE", "CAD_DETECTED"})

-----------------------------------------------------------------------------
Thread ==
  \/ DispatchStopping \/ DispatchWithoutEffect
  \/ Disable \/ Standby \/ ClearIrqStatus \/ ReleaseSwitch
  \/ EndOperation \/ SetConfiguration \/ Calibrate
  \/ PrepareStart \/ Arm \/ CommandRadio

Radio == TransmissionEnds \/ ReceptionEnds \/ ScanEnds
Host  == \E r \in Requests : HostPublishes(r)

Next == Host \/ Thread \/ RadioIrq \/ Radio

Spec == Init /\ [][Next]_vars

\* The kernel runs a ready object and the NVIC takes an enabled interrupt; the
\* host and the radio promise nothing.
FairSpec == Spec /\ WF_vars(Thread) /\ WF_vars(RadioIrq)

-----------------------------------------------------------------------------
(* Properties *)

\* Every variable keeps to its type.
TypeOK ==
  /\ state \in States
  /\ configuration \in ConfigurationSpace
  /\ configuration_valid \in BOOLEAN
  /\ active_operation \in Operations
  /\ radioOperationActive \in BOOLEAN
  /\ transmitting \in BOOLEAN
  /\ rf_switch \in {"rx", "tx"}
  /\ radio \in RadioModes
  /\ irq \subseteq Flags
  /\ queue \in Seq(Requests \cup {OperationComplete})
  /\ pc \in {"wait", "disable", "standby", "clear", "release", "perform", "arm",
            "command"}
  /\ event \in Requests \cup {OperationComplete}
  /\ failed \in BOOLEAN

FlagsOf(operation) ==
  CASE operation = "PACKET_TX" -> {"TX_DONE", "TIMEOUT"}
    [] operation = "RX" -> RxFlags \cup {"TIMEOUT"}
    [] operation = "CAD" -> RxFlags \cup {"TIMEOUT", "CAD_DONE", "CAD_DETECTED"}
    [] OTHER -> {}

\* No callback is ever made for the indication of a cancelled operation: whenever
\* the handler would deliver the radio's flags, they are those of the operation
\* that is active (rfManagerHal_stop and SUBGHZ_Radio_IRQHandler together).
CurrentIndications ==
  radioOperationActive => irq \subseteq FlagsOf(active_operation)

\* From the standby command of rfManagerHal_stop until the next operation's own
\* command, the radio stays in standby: no interrupt starts a cancelled reception
\* or scan again behind the handler that cancelled it.
CancelledStaysCancelled ==
  pc \in {"clear", "release", "perform", "arm", "command"} => radio = "standby"

\* The antenna switch selects the path the radio uses in every state, also while
\* an operation is stopped or restarted from the interrupt: the power amplifier
\* never drives the receive path.
SwitchFollowsRadio ==
  /\ radio \in Transmitting => rf_switch = "tx"
  /\ radio \in Receiving => rf_switch = "rx"

TxOperations == {"PACKET_TX", "CONTINUOUS_WAVE_TX", "CONTINUOUS_PREAMBLE_TX"}

\* Between events the state machine, the operation diagnostics report and the
\* radio tell the same story, whatever interrupts came in between.  A transmit request
\* before any configuration is the exception: the state is tx, and nothing transmits.
ModeAgreesWithRadio ==
  pc = "wait" /\ ~failed =>
    /\ state = "idle" =>
         active_operation = "IDLE" /\ radio = "standby" /\ ~radioOperationActive
    /\ state = "calibration" =>
         active_operation = "CALIBRATION" /\ radio = "standby" /\ ~radioOperationActive
    /\ state = "rx" =>
         active_operation = "RX"
         /\ radio \in {"standby", "rx", "rxContinuous", "rxDutyCycle"}
    /\ state = "cad" =>
         active_operation = "CAD" /\ radio \in {"standby", "cad", "cadRx"}
    /\ state = "tx" =>
         IF configuration_valid
         THEN active_operation \in TxOperations /\ radio \in Transmitting \cup {"standby"}
         ELSE active_operation = "IDLE" /\ radio = "standby" /\ ~radioOperationActive

\* No assertion of the callbacks fails and the event queue never overflows: an
\* interrupt never meets a configuration its operation was not admitted for, and
\* completions never pile up behind a request.
NeverFails == ~failed

\* An OPERATION_COMPLETE ends only an operation the radio has ended itself: the
\* indication of an earlier operation never reaches a later one (rf_manager.md).
CompletionIsDue ==
  pc = "disable" /\ event = OperationComplete => radio = "standby"

\* An operation that the radio has ended is completed or started again, and not left
\* active over an idle radio (rfManagerActivities_rxDone, _rxTimeout, _rxError, _cadDone
\* with the handlers of OPERATION_COMPLETE).  A packet that is rejected is left out unless
\* the reception has more to come: see RejectionIsOvercome.
RadioHasEnded == radioOperationActive /\ radio = "standby" /\ irq # {}
RejectsPacket == irq \cap {"CRC_ERROR", "HEADER_ERROR"} # {}
HasMoreToReceive == active_operation = "RX" /\ configuration.rxMode # 0
EndedOperationIsHandled ==
  RadioHasEnded /\ (RejectsPacket => HasMoreToReceive)
    ~> ~radioOperationActive \/ radio # "standby"

\* A single reception ends once the radio no longer receives, and scanning resumes after
\* the reception that follows a detection, also when the packet is rejected
\* (sys/req/sys_interfaces.md, RX operation and CAD operation).
ReceivesOnce ==
  \/ state = "rx" /\ configuration.rxMode = 0
  \/ state = "cad" /\ configuration.cadExit = 1
RejectionIsOvercome ==
  pc = "wait" /\ radio = "standby" /\ ReceivesOnce ~> radio # "standby" \/ ~ReceivesOnce

=============================================================================
