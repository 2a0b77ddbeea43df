------------------------------ MODULE RadioHal ------------------------------
(***************************************************************************)
(* The radio HAL (target/rf_manager_hal.c) one SPI transaction at a time.  *)
(* Each of its functions is a program: the assignments it makes and the    *)
(* commands it sends, in order.  Two contexts run such programs over one   *)
(* bus, the object and the radio interrupt, and the radio answers with its *)
(* busy line, sleeps in a duty-cycle reception, and ends operations by     *)
(* itself.  A call of the third-party driver counts as one transaction.    *)
(***************************************************************************)
EXTENDS Naturals, Sequences

CONSTANTS
  Configurations,       \* records of type, rxMode, cadExit and length
  Lengths,              \* of the packets to transmit
  MAX_REQUESTS,         \* bound: how many requests are handled
  MAX_INDICATIONS       \* bound: how many indications the radio gives

ASSUME RadioHalAssumption ==
  /\ \A c \in Configurations :
       /\ c.type \in {"FSK", "LORA", "BPSK", "MSK"}
       /\ c.rxMode \in 0..2 /\ c.cadExit \in 0..1
       /\ c.length \in Nat
  /\ Lengths \subseteq Nat
  /\ {MAX_REQUESTS, MAX_INDICATIONS} \subseteq Nat

Contexts == {"task", "isr"}
NO_ERRORS == "none"
NoConfiguration == [type |-> "none", rxMode |-> 0, cadExit |-> 0, length |-> 0]
NoParameters == [configuration |-> NoConfiguration, length |-> 0]

VARIABLES
  mem,          \* the memory of the HAL and the object, and the radio interrupt's enable bit
  todo,         \* the rest of the program of each context
  at,           \* where each is in the transaction of its first step
  saved,        \* irq_enabled in each
  irq,          \* the indications the handler has read
  radio,        \* the radio, external
  failed,       \* an assertion failed
  requests, indications

vars == <<mem, todo, at, saved, irq, radio, failed, requests, indications>>

-----------------------------------------------------------------------------
(* The steps of a program. *)
Assign(variable, value) == <<[do |-> "assign", variable |-> variable, value |-> value]>>
Command(name) == <<[do |-> "command", name |-> name]>>
Program(register, value) == <<[do |-> "program", register |-> register, value |-> value]>>
Expect(what, values) == <<[do |-> "expect", what |-> what, values |-> values]>>
Wakeup == <<[do |-> "wakeup"]>>
\* Steps that depend on what was read: clear the errors, clear the indications, call back.
ClearErrors == <<[do |-> "clearErrors"]>>
ClearRead == <<[do |-> "clearRead"]>>
CallBack == <<[do |-> "callBack"]>>

\* setRfSwitch()
SetRfSwitch(side) == Assign("rf_switch", side)

\* setPacketParameters()
SetPacketParameters(c, length) ==
  Program("packet_parameters", [configuration |-> c, length |-> length])

\* setFskModulationParameters()
SetFskModulationParameters(c) == Program("modulation", c) \o Command("TxModulationWorkaround")

\* rfManagerHal_init(): the radio is asleep before, and its interrupt masked until the end.
HalInit ==
  SetRfSwitch("rx") \o Wakeup \o Command("SetStandby") \o Command("SetDio3AsTcxoCtrl")
  \o Command("WriteRegister")
  \o Command("SetStandbyXosc") \o Expect("mode", {"xosc"}) \o Expect("errors", {NO_ERRORS, "xosc_start"})
  \o ClearErrors
  \o Command("SetStandby") \o Command("Cal") \o Expect("errors", {NO_ERRORS})
  \o Command("SetRegMode") \o Command("SetPaCfg") \o Command("SetRxTxFallbackMode")
  \o Command("SetDioIrqParams")
  \o Assign("nvic", TRUE) \o Assign("initialised", TRUE)

\* rfManagerHal_setConfiguration(): the registers of the packet type, after the type itself.
GenericRegisters == <<"sync_word", "packet_address", "crc_seed", "crc_polynomial", "whitening_seed">>
LoraRegisters == <<"sync_word", "symbol_timeout", "cad_parameters">>

RegistersOf(type) ==
  CASE type = "LORA" -> LoraRegisters
    [] type \in {"FSK", "MSK"} -> GenericRegisters
    [] type = "BPSK" -> <<>>

SetConfiguration(c) ==
  LET registers == RegistersOf(c.type) IN
  Program("rf_frequency", c) \o Command("SetPacketType")
  \o (IF c.type = "FSK" THEN SetFskModulationParameters(c) ELSE Program("modulation", c))
  \o [i \in DOMAIN registers |-> Program(registers[i], c)[1]]
  \o Program("tx_parameters", c)
  \o SetPacketParameters(c, c.length)

\* rfManagerHal_stop()
Stop ==
  Assign("radioOperationActive", FALSE) \o Assign("transmitting", FALSE)
  \o Command("SetStandby") \o Command("ClearIrqStatus") \o SetRfSwitch("rx")

\* rfManagerHal_calibrate()
Calibrate == Command("Cal") \o Command("CalImg")

\* rfManagerHal_transmit()
Transmit(c, length) ==
  Assign("transmitting", TRUE) \o SetRfSwitch("tx")
  \o SetPacketParameters(c, length) \o Command("WriteBuffer")
  \o Assign("radioOperationActive", TRUE) \o Command("SetTx")

\* rfManagerHal_startReceive()
\* Mutant: the packet parameters are those of the configuration already.
StartReceiveUnprogrammed(c) ==
  Assign("transmitting", FALSE) \o SetRfSwitch("rx")
  \o (IF c.rxMode = 2 THEN Command("SetStandby") ELSE <<>>)
  \o Assign("radioOperationActive", TRUE)
  \o Command(<<"SetRx", "SetRxContinuous", "SetRxDutyCycle">>[c.rxMode + 1])

StartReceive(c) ==
  Assign("transmitting", FALSE) \o SetRfSwitch("rx")
  \o (IF c.rxMode = 2 THEN Command("SetStandby") ELSE <<>>)
  \o SetPacketParameters(c, c.length)
  \o Assign("radioOperationActive", TRUE)
  \o Command(<<"SetRx", "SetRxContinuous", "SetRxDutyCycle">>[c.rxMode + 1])

\* rfManagerHal_startCad()
StartCad(c) ==
  Assign("transmitting", FALSE) \o SetRfSwitch("rx")
  \o (IF c.cadExit # 0 THEN SetPacketParameters(c, c.length) ELSE <<>>)
  \o Assign("radioOperationActive", TRUE) \o Command("SetCad")

\* rfManagerHal_startContinuousWave() and startContinuousPreamble().
StartContinuousWave ==
  SetRfSwitch("tx") \o Assign("transmitting", TRUE)
  \o Assign("radioOperationActive", TRUE) \o Command("SetTxCw")
StartContinuousPreamble ==
  SetRfSwitch("tx") \o Assign("transmitting", TRUE)
  \o Assign("radioOperationActive", TRUE) \o Command("SetTxInfinitePreamble")

\* rfManagerHal_readReceivedPacket() and getErrors().
ReadReceivedPacket ==
  Command("GetRxBufferStatus") \o Command("ReadBuffer") \o Command("GetPacketStatus")
GetErrors == Command("GetDeviceErrors")

-----------------------------------------------------------------------------
(* The requests of the RF manager's activities, and the callbacks. *)
Operation(name) == Assign("active_operation", name)

\* A completion, or STOP, ends the operation like Stop does.
Handlers ==
  LET c == mem.configuration IN
  {Stop \o SetConfiguration(d) \o Assign("configuration", d) \o Operation("IDLE") :
     d \in Configurations}
  \cup {GetErrors, Stop \o Operation("IDLE"), Stop \o Operation("CALIBRATION") \o Calibrate}
  \cup (IF c = NoConfiguration THEN {} ELSE
        {Stop \o Operation("PACKET_TX") \o Transmit(c, n) : n \in Lengths}
        \cup {Stop \o Operation("CONTINUOUS_WAVE_TX") \o StartContinuousWave}
        \cup (IF c.type \in {"LORA", "FSK", "MSK"}
              THEN {Stop \o Operation("CONTINUOUS_PREAMBLE_TX") \o StartContinuousPreamble} ELSE {})
        \cup (IF c.type \in {"LORA", "FSK"} THEN {Stop \o Operation("RX") \o StartReceive(c)} ELSE {})
        \cup (IF c.type = "LORA" THEN {Stop \o Operation("CAD") \o StartCad(c)} ELSE {}))

\* SUBGHZ_Radio_IRQHandler() after it has read the indications.
Callbacks ==
  LET c == mem.configuration
      seen == IF mem.radioOperationActive THEN irq ELSE {}
      scanning == mem.active_operation = "CAD"
      rearm == IF scanning THEN StartCad(c)
               ELSE IF c.rxMode = 2 THEN StartReceive(c) ELSE <<>>
  IN (IF "CRC_ERROR" \in seen
      THEN (IF mem.active_operation = "RX" /\ c.rxMode = 2 THEN StartReceive(c) ELSE <<>>)
      ELSE IF "RX_DONE" \in seen THEN ReadReceivedPacket \o rearm ELSE <<>>)
     \o (IF "TIMEOUT" \in seen /\ ~mem.transmitting THEN rearm ELSE <<>>)
     \o (IF "CAD_DONE" \in seen /\ "CAD_DETECTED" \notin seen THEN StartCad(c) ELSE <<>>)

Registers == {"rf_frequency", "modulation", "tx_parameters", "packet_parameters"}
             \cup {GenericRegisters[i] : i \in DOMAIN GenericRegisters}
             \cup {LoraRegisters[i] : i \in DOMAIN LoraRegisters}

Init ==
  /\ mem = [nvic |-> FALSE, radioMaySleep |-> FALSE, transmitting |-> FALSE,
            radioOperationActive |-> FALSE, rf_switch |-> "rx", initialised |-> FALSE,
            configuration |-> NoConfiguration, active_operation |-> "IDLE"]
  /\ todo = [task |-> HalInit, isr |-> <<>>]
  /\ at = [a \in Contexts |-> "next"]
  /\ saved = [a \in Contexts |-> FALSE]
  /\ irq = {}
  /\ \E errors \in {NO_ERRORS, "xosc_start"} :
       radio = [line |-> "asleep", mode |-> "sleep", flags |-> {}, errors |-> errors,
                registers |-> [r \in Registers |-> IF r = "packet_parameters" THEN NoParameters
                                              ELSE NoConfiguration]]
  /\ failed = FALSE
  /\ requests = 0 /\ indications = 0

-----------------------------------------------------------------------------
(* A transaction: beginTransaction(), the bytes, endTransaction(). *)

\* The interrupt preempts the object.
Runs(a) == ~failed /\ (a = "task" => todo["isr"] = <<>>) /\ todo[a] # <<>>
Step(a) == Head(todo[a])
Finish(a) == todo' = [todo EXCEPT ![a] = Tail(@)]
Goto(a, place) == at' = [at EXCEPT ![a] = place]

Busy == radio.line \in {"busy", "asleep"}
WakesRadio(a) == mem.radioMaySleep \/ Step(a).do = "wakeup"
RestoreRadioIrq(a) == mem' = [mem EXCEPT !.nvic = @ \/ saved[a]]

\* The steps without a transaction.
Compute(a) ==
  /\ Runs(a) /\ at[a] = "next"
  /\ \/ /\ Step(a).do = "assign"
        /\ mem' = [mem EXCEPT ![Step(a).variable] = Step(a).value]
        /\ Finish(a)
     \/ /\ \/ Step(a).do = "clearErrors" /\ radio.errors = NO_ERRORS
           \/ Step(a).do = "clearRead" /\ irq = {}
        /\ Finish(a)
        /\ UNCHANGED mem
     \/ /\ Step(a).do = "callBack"
        /\ todo' = [todo EXCEPT ![a] = Callbacks]
        /\ UNCHANGED mem
  /\ UNCHANGED <<at, saved, irq, radio, failed, requests, indications>>

Begin(a) ==
  /\ Runs(a) /\ at[a] = "next"
  /\ Step(a).do \notin {"assign", "callBack"}
  /\ Step(a).do = "clearErrors" => radio.errors # NO_ERRORS
  /\ Step(a).do = "clearRead" => irq # {}
  /\ Goto(a, "poll")
  /\ UNCHANGED <<mem, todo, saved, irq, radio, failed, requests, indications>>

Poll(a) ==
  /\ Runs(a) /\ at[a] = "poll"
  /\ ~Busy \/ WakesRadio(a)
  /\ Goto(a, "mask")
  /\ UNCHANGED <<mem, todo, saved, irq, radio, failed, requests, indications>>

Mask(a) ==
  /\ Runs(a) /\ at[a] = "mask"
  /\ saved' = [saved EXCEPT ![a] = mem.nvic]
  /\ mem' = [mem EXCEPT !.nvic = FALSE]
  /\ Goto(a, "check")
  /\ UNCHANGED <<todo, irq, radio, failed, requests, indications>>

\* Mutant: the busy line is not looked at again once the interrupt is masked.
CheckNothing(a) ==
  /\ Runs(a) /\ at[a] = "check"
  /\ Goto(a, "select")
  /\ UNCHANGED <<mem, todo, saved, irq, radio, failed, requests, indications>>

\* The handler may have sent a command before the interrupt was masked.
Check(a) ==
  /\ Runs(a) /\ at[a] = "check"
  /\ IF ~Busy \/ WakesRadio(a)
     THEN Goto(a, "select") /\ UNCHANGED mem
     ELSE Goto(a, "poll") /\ RestoreRadioIrq(a)
  /\ UNCHANGED <<todo, saved, irq, radio, failed, requests, indications>>

\* A radio that is woken goes on with its duty cycle or leaves it for standby.
Select(a) ==
  /\ Runs(a) /\ at[a] = "select"
  /\ Goto(a, IF WakesRadio(a) THEN "wake" ELSE "transfer")
  /\ IF radio.line = "asleep"
     THEN \E mode \in {radio.mode, "standby"} :
            radio' = [radio EXCEPT !.line = "busy", !.mode = mode]
     ELSE UNCHANGED radio
  /\ UNCHANGED <<mem, todo, saved, irq, failed, requests, indications>>

AwaitWake(a) ==
  /\ Runs(a) /\ at[a] = "wake"
  /\ ~Busy
  /\ Goto(a, "transfer")
  /\ UNCHANGED <<mem, todo, saved, irq, radio, failed, requests, indications>>

IsCommand(a, name) == Step(a).do = "command" /\ Step(a).name = name

\* The bytes of sx126x_hal_write(), read() or wakeup(), and what the write() notes of them.
\* Mutant: nothing is noted of a duty-cycle reception.
TransferUnnoted(a) ==
  /\ Runs(a) /\ at[a] = "transfer"
  /\ irq' = IF IsCommand(a, "GetIrqStatus") THEN radio.flags ELSE irq
  /\ failed' = (Step(a).do = "expect" /\ radio[Step(a).what] \notin Step(a).values)
  /\ Goto(a, "release")
  /\ UNCHANGED <<mem, todo, saved, radio, requests, indications>>

Transfer(a) ==
  /\ Runs(a) /\ at[a] = "transfer"
  /\ mem' = [mem EXCEPT !.radioMaySleep =
               IsCommand(a, "SetRxDutyCycle")
               \/ (@ /\ ~IsCommand(a, "SetStandby") /\ ~IsCommand(a, "SetStandbyXosc"))]
  /\ irq' = IF IsCommand(a, "GetIrqStatus") THEN radio.flags ELSE irq
  /\ failed' = (Step(a).do = "expect" /\ radio[Step(a).what] \notin Step(a).values)
  /\ Goto(a, "release")
  /\ UNCHANGED <<todo, saved, radio, requests, indications>>

ModeAfter(name) ==
  CASE name = "SetStandby" -> "standby" [] name = "SetStandbyXosc" -> "xosc"
    [] name = "SetTx" -> "tx"
    [] name \in {"SetTxCw", "SetTxInfinitePreamble"} -> "carrier"
    [] name = "SetRx" -> "rx" [] name = "SetRxContinuous" -> "rxContinuous"
    [] name = "SetRxDutyCycle" -> "rxDutyCycle" [] name = "SetCad" -> "cad"
    [] OTHER -> radio.mode

\* External: what a step does to the radio.  Another packet type leaves the modulation and
\* the packet parameters without meaning.
Obey(step) ==
  CASE step.do = "program" -> [radio EXCEPT !.registers[step.register] = step.value]
    [] step.do = "wakeup" -> [radio EXCEPT !.mode = "standby"]
    [] step.do = "clearErrors" -> [radio EXCEPT !.errors = NO_ERRORS]
    [] step.do = "clearRead" -> [radio EXCEPT !.flags = @ \ irq]
    [] step.do = "command" ->
         [radio EXCEPT
            !.mode = ModeAfter(step.name),
            !.flags = IF step.name = "ClearIrqStatus" THEN {} ELSE @,
            !.registers = IF step.name = "SetPacketType"
                          THEN [@ EXCEPT !.modulation = NoConfiguration,
                                         !.packet_parameters = NoParameters] ELSE @]
    [] OTHER -> radio

\* The radio obeys when NSS rises, and its busy line follows.
Release(a) ==
  /\ Runs(a) /\ at[a] = "release"
  /\ radio' = [Obey(Step(a)) EXCEPT !.line = "rising"]
  /\ Goto(a, "window")
  /\ UNCHANGED <<mem, todo, saved, irq, failed, requests, indications>>

\* The 32 cycles outlast the delay of the busy line.
Window(a) ==
  /\ Runs(a) /\ at[a] = "window"
  /\ radio.line # "rising"
  /\ RestoreRadioIrq(a)
  /\ Finish(a)
  /\ Goto(a, "next")
  /\ UNCHANGED <<saved, irq, radio, failed, requests, indications>>

Context(a) ==
  \/ Compute(a) \/ Begin(a) \/ Poll(a) \/ Mask(a) \/ Check(a) \/ Select(a) \/ AwaitWake(a)
  \/ Transfer(a) \/ Release(a) \/ Window(a)

-----------------------------------------------------------------------------
\* The object handles a request once it is done with the one before.
HandleRequest ==
  /\ ~failed /\ mem.initialised
  /\ todo["task"] = <<>> /\ todo["isr"] = <<>>
  /\ requests < MAX_REQUESTS
  /\ requests' = requests + 1
  /\ \E handler \in Handlers : todo' = [todo EXCEPT !["task"] = handler]
  /\ UNCHANGED <<mem, at, saved, irq, radio, failed, indications>>

\* sx126x_get_and_clear_irq_status() clears what it has read.
SUBGHZ_Radio_IRQHandler ==
  /\ ~failed /\ mem.nvic /\ radio.flags # {}
  /\ todo["isr"] = <<>>
  /\ todo' = [todo EXCEPT !["isr"] = Command("GetIrqStatus") \o ClearRead \o CallBack]
  /\ UNCHANGED <<mem, at, saved, irq, radio, failed, requests, indications>>

(* External: the radio. *)
Selected == \E a \in Contexts : at[a] \in {"wake", "transfer", "release"}

RadioSettles ==
  /\ ~failed
  /\ \/ radio.line = "rising" /\ radio' = [radio EXCEPT !.line = "busy"]
     \/ radio.line = "busy" /\ radio' = [radio EXCEPT !.line = "ready"]
  /\ UNCHANGED <<mem, todo, at, saved, irq, failed, requests, indications>>

RadioDozes ==
  /\ ~failed /\ radio.mode = "rxDutyCycle" /\ ~Selected
  /\ \/ radio.line = "ready" /\ radio' = [radio EXCEPT !.line = "asleep"]
     \/ radio.line = "asleep" /\ radio' = [radio EXCEPT !.line = "ready"]
  /\ UNCHANGED <<mem, todo, at, saved, irq, failed, requests, indications>>

\* What ends an operation: the indications, and the mode after them.
Ends ==
  CASE radio.mode = "tx" -> {<<{"TX_DONE"}, "standby">>, <<{"TIMEOUT"}, "standby">>}
    [] radio.mode \in {"rx", "rxDutyCycle", "cadRx"} ->
         {<<flags, "standby">> : flags \in {{"RX_DONE"}, {"CRC_ERROR", "RX_DONE"}, {"TIMEOUT"}}}
    [] radio.mode = "rxContinuous" -> {<<{"RX_DONE"}, "rxContinuous">>}
    [] radio.mode = "cad" ->
         {<<{"CAD_DONE"}, "standby">>,
          <<{"CAD_DONE", "CAD_DETECTED"},
            IF mem.configuration.cadExit = 0 THEN "standby" ELSE "cadRx">>}
    [] OTHER -> {}

RadioEnds ==
  /\ ~failed /\ radio.line = "ready"
  /\ indications < MAX_INDICATIONS
  /\ indications' = indications + 1
  /\ \E end \in Ends :
       radio' = [radio EXCEPT !.flags = @ \cup end[1], !.mode = end[2]]
  /\ UNCHANGED <<mem, todo, at, saved, irq, failed, requests>>

Next ==
  \/ \E a \in Contexts : Context(a)
  \/ HandleRequest \/ SUBGHZ_Radio_IRQHandler
  \/ RadioSettles \/ RadioDozes \/ RadioEnds

Spec == Init /\ [][Next]_vars

\* The processor runs, an enabled interrupt is taken, and the busy line settles.
FairSpec ==
  /\ Spec
  /\ \A a \in Contexts : WF_vars(Context(a))
  /\ WF_vars(SUBGHZ_Radio_IRQHandler)
  /\ WF_vars(RadioSettles)
-----------------------------------------------------------------------------
Holds(a) == at[a] \in {"wake", "transfer", "release", "window"}

\* The bus has one user at a time, with the radio interrupt masked; bytes pass only to a radio
\* that is awake and ready; and between transactions the interrupt is enabled again.
\* (beginTransaction() and endTransaction().)
TransactionsAreSound ==
  /\ ~(\A a \in Contexts : Holds(a))
  /\ \A a \in Contexts :
       /\ Holds(a) => ~mem.nvic
       /\ at[a] = "transfer" => radio.line = "ready"
  /\ (todo["isr"] = <<>> /\ at["task"] \in {"next", "poll", "mask"}) =>
       (mem.initialised => mem.nvic)
  /\ ~failed

\* Whatever was transmitted, scanned or interrupted before, a radio that receives or transmits
\* a packet has every register of its packet type from the configuration in force, and when it
\* receives the length configured.  (rfManagerHal_setConfiguration(), startReceive(),
\* startCad(), transmit().)
RadioIsProgrammed ==
  radio.mode \in {"rx", "rxContinuous", "rxDutyCycle", "cadRx", "tx"} =>
    LET c == mem.configuration
        registers == RegistersOf(c.type)
    IN /\ \A r \in {"rf_frequency", "modulation", "tx_parameters"}
               \cup {registers[i] : i \in DOMAIN registers} : radio.registers[r] = c
       /\ radio.registers.packet_parameters.configuration = c
       /\ radio.mode # "tx" => radio.registers.packet_parameters.length = c.length

\* Every transaction ends, whatever the radio does meanwhile: none waits for the busy line of
\* a radio that is asleep.
TransactionsEnd == \A a \in Contexts : at[a] # "next" ~> at[a] = "next"
=============================================================================
