---------------------------- MODULE RadioHalProofs ----------------------------
(***************************************************************************)
(* For every set of configurations and lengths: the transactions of the    *)
(* radio HAL exclude each other, reach only a radio that is ready, and     *)
(* leave its interrupt enabled.  What a masked interrupt protects rests on *)
(* the place of each context in its transaction; that the busy line can be *)
(* trusted, on the HAL noting a duty-cycle reception before the radio may  *)
(* sleep; and that no assertion fails, on the place in rfManagerHal_init().*)
(* And the radio stays programmed: of the memory and the radio a view of   *)
(* four parts matters, of what each context has left to do the sequence of *)
(* steps, and the second keeps what the first needs, step by step.         *)
(***************************************************************************)
EXTENDS RadioHal, SequenceTheorems, TLAPS

Places == {"next", "poll", "mask", "check", "select", "wake", "transfer", "release", "window"}
Operations == {"IDLE", "CALIBRATION", "PACKET_TX", "CONTINUOUS_WAVE_TX",
               "CONTINUOUS_PREAMBLE_TX", "RX", "CAD"}
Modes == {"sleep", "standby", "xosc", "tx", "carrier", "rx", "rxContinuous", "rxDutyCycle",
          "cad", "cadRx"}
Indications == {"TX_DONE", "TIMEOUT", "RX_DONE", "CRC_ERROR", "CAD_DONE", "CAD_DETECTED"}
Configured == Configurations \cup {NoConfiguration}
Values == Configured \cup [configuration : Configured, length : Nat]
CommandNames ==
  {"SetStandby", "SetStandbyXosc", "SetDio3AsTcxoCtrl", "WriteRegister", "Cal", "CalImg",
   "SetRegMode", "SetPaCfg", "SetRxTxFallbackMode", "SetDioIrqParams",
   "TxModulationWorkaround", "SetPacketType", "ClearIrqStatus", "WriteBuffer", "SetTx",
   "SetRx", "SetRxContinuous", "SetRxDutyCycle", "SetCad", "SetTxCw",
   "SetTxInfinitePreamble", "GetRxBufferStatus", "ReadBuffer", "GetPacketStatus",
   "GetDeviceErrors", "GetIrqStatus"}

(* The steps of every program but rfManagerHal_init(). *)
Assignment ==
  [do : {"assign"}, variable : {"transmitting", "radioOperationActive"}, value : BOOLEAN]
  \cup [do : {"assign"}, variable : {"rf_switch"}, value : {"rx", "tx"}]
  \cup [do : {"assign"}, variable : {"configuration"}, value : Configurations]
  \cup [do : {"assign"}, variable : {"active_operation"}, value : Operations]
Ordinary ==
  Assignment
  \cup [do : {"command"}, name : CommandNames]
  \cup [do : {"program"}, register : Registers, value : Values]
  \cup [do : {"clearErrors", "clearRead", "callBack"}]

(* rfManagerHal_init(), step by step, and what is left of it from the k-th on. *)
HalSteps ==
  <<Assign("rf_switch", "rx")[1], Wakeup[1], Command("SetStandby")[1],
    Command("SetDio3AsTcxoCtrl")[1], Command("WriteRegister")[1],
    Command("SetStandbyXosc")[1], Expect("mode", {"xosc"})[1],
    Expect("errors", {NO_ERRORS, "xosc_start"})[1], ClearErrors[1], Command("SetStandby")[1],
    Command("Cal")[1], Expect("errors", {NO_ERRORS})[1], Command("SetRegMode")[1],
    Command("SetPaCfg")[1], Command("SetRxTxFallbackMode")[1], Command("SetDioIrqParams")[1],
    Assign("nvic", TRUE)[1], Assign("initialised", TRUE)[1]>>
Left(k) == SubSeq(HalInit, k, 18)

MemoryType == [nvic : BOOLEAN, radioMaySleep : BOOLEAN, transmitting : BOOLEAN,
               radioOperationActive : BOOLEAN, rf_switch : {"rx", "tx"},
               initialised : BOOLEAN, configuration : Configured,
               active_operation : Operations]
RadioType == [line : {"asleep", "busy", "rising", "ready"}, mode : Modes,
              flags : SUBSET Indications, errors : {NO_ERRORS, "xosc_start"},
              registers : [Registers -> Values]]

TypeOK ==
  /\ mem \in MemoryType
  /\ at \in [Contexts -> Places]
  /\ saved \in [Contexts -> BOOLEAN]
  /\ irq \in SUBSET Indications
  /\ radio \in RadioType
  /\ failed \in BOOLEAN
  /\ DOMAIN todo = Contexts /\ todo = [a \in Contexts |-> todo[a]]
  /\ todo["isr"] \in Seq(Ordinary)
  /\ mem.initialised => todo["task"] \in Seq(Ordinary)

Masks(a) == at[a] \in {"check", "select", "wake", "transfer", "release", "window"}

(* A context that has masked the interrupt is alone, and knows how it found it. *)
InterruptIsKept ==
  /\ \A a \in Contexts : Masks(a) => ~mem.nvic
  /\ \A a \in Contexts : todo[a] = <<>> => at[a] = "next"
  /\ todo["isr"] # <<>> => ~Masks("task")
  /\ mem.initialised =>
       /\ \A a \in Contexts : Masks(a) => saved[a]
       /\ (\A a \in Contexts : ~Masks(a)) => mem.nvic

(* The radio sleeps only when the HAL has noted that it may. *)
Leaves(a) == /\ at[a] = "release"
             /\ IsCommand(a, "SetStandby") \/ IsCommand(a, "SetStandbyXosc")
LineIsTrusted ==
  /\ radio.line = "rising" => \E a \in Contexts : at[a] = "window"
  /\ radio.mode = "rxDutyCycle" => mem.radioMaySleep \/ \E a \in Contexts : Leaves(a)
  /\ \A a \in Contexts :
       /\ at[a] = "select" /\ ~WakesRadio(a) => radio.line = "ready"
       /\ at[a] = "transfer" => radio.line = "ready"
       /\ at[a] = "release" /\ IsCommand(a, "SetRxDutyCycle") => mem.radioMaySleep

(* What rfManagerHal_init() has done, and what it finds. *)
InitialisedSoFar(k) ==
  /\ todo["task"] = Left(k)
  /\ k >= 17 => at["task"] = "next"
  /\ k = 18 <=> mem.nvic
  /\ k = 7 \/ (k = 6 /\ at["task"] = "window") => radio.mode = "xosc"
  /\ k >= 10 \/ (k = 9 /\ at["task"] = "window") => radio.errors = NO_ERRORS
Initialising ==
  ~mem.initialised =>
    /\ todo["isr"] = <<>> /\ radio.flags = {} /\ irq = {} /\ ~mem.radioMaySleep
    /\ radio.mode \in {"sleep", "standby", "xosc"}
    /\ ~saved["task"]
    /\ \E k \in 1..18 : InitialisedSoFar(k)

HalInv == TypeOK /\ InterruptIsKept /\ LineIsTrusted /\ Initialising /\ ~failed

-----------------------------------------------------------------------------
(* The steps and programs. *)

AnyStep ==
  Ordinary
  \cup [do : {"wakeup"}]
  \cup [do : {"expect"}, what : {"mode"}, values : {{"xosc"}}]
  \cup [do : {"expect"}, what : {"errors"},
        values : {{NO_ERRORS}, {NO_ERRORS, "xosc_start"}}]
  \cup [do : {"assign"}, variable : {"nvic", "initialised"}, value : {TRUE}]

(* The literal program: what its steps are, by their place in it. *)
LEMMA HalStepsAre ==
  /\ Len(HalSteps) = 18 /\ HalSteps \in Seq(AnyStep)
  /\ \A k \in 1..18 :
       /\ HalSteps[k] \in AnyStep
       /\ HalSteps[k].do = "assign" <=> k \in {1, 17, 18}
       /\ HalSteps[k].do = "wakeup" <=> k = 2
       /\ HalSteps[k].do = "expect" <=> k \in {7, 8, 12}
       /\ HalSteps[k].do = "clearErrors" <=> k = 9
       /\ HalSteps[k].do \notin {"clearRead", "callBack", "program"}
  /\ HalSteps[1] = [do |-> "assign", variable |-> "rf_switch", value |-> "rx"]
  /\ HalSteps[17] = [do |-> "assign", variable |-> "nvic", value |-> TRUE]
  /\ HalSteps[18] = [do |-> "assign", variable |-> "initialised", value |-> TRUE]
  /\ HalSteps[7] = [do |-> "expect", what |-> "mode", values |-> {"xosc"}]
  /\ HalSteps[8] = [do |-> "expect", what |-> "errors", values |-> {NO_ERRORS, "xosc_start"}]
  /\ HalSteps[12] = [do |-> "expect", what |-> "errors", values |-> {NO_ERRORS}]
  /\ HalSteps[6] = [do |-> "command", name |-> "SetStandbyXosc"]
  /\ \A k \in 1..18 : HalSteps[k].do = "command" =>
       HalSteps[k].name \in {"SetStandby", "SetStandbyXosc", "SetDio3AsTcxoCtrl",
                             "WriteRegister", "Cal", "SetRegMode", "SetPaCfg",
                             "SetRxTxFallbackMode", "SetDioIrqParams"}
  <1> USE DEF HalSteps, Assign, Wakeup, Command, Expect, ClearErrors
  <1>1. Len(HalSteps) = 18
    OBVIOUS
  <1>2. /\ HalSteps[1] = [do |-> "assign", variable |-> "rf_switch", value |-> "rx"]
        /\ HalSteps[2] = [do |-> "wakeup"]
        /\ HalSteps[3] = [do |-> "command", name |-> "SetStandby"]
        /\ HalSteps[4] = [do |-> "command", name |-> "SetDio3AsTcxoCtrl"]
        /\ HalSteps[5] = [do |-> "command", name |-> "WriteRegister"]
        /\ HalSteps[6] = [do |-> "command", name |-> "SetStandbyXosc"]
    OBVIOUS
  <1>3. /\ HalSteps[7] = [do |-> "expect", what |-> "mode", values |-> {"xosc"}]
        /\ HalSteps[8] = [do |-> "expect", what |-> "errors",
                          values |-> {NO_ERRORS, "xosc_start"}]
        /\ HalSteps[9] = [do |-> "clearErrors"]
        /\ HalSteps[10] = [do |-> "command", name |-> "SetStandby"]
        /\ HalSteps[11] = [do |-> "command", name |-> "Cal"]
        /\ HalSteps[12] = [do |-> "expect", what |-> "errors", values |-> {NO_ERRORS}]
    OBVIOUS
  <1>4. /\ HalSteps[13] = [do |-> "command", name |-> "SetRegMode"]
        /\ HalSteps[14] = [do |-> "command", name |-> "SetPaCfg"]
        /\ HalSteps[15] = [do |-> "command", name |-> "SetRxTxFallbackMode"]
        /\ HalSteps[16] = [do |-> "command", name |-> "SetDioIrqParams"]
        /\ HalSteps[17] = [do |-> "assign", variable |-> "nvic", value |-> TRUE]
        /\ HalSteps[18] = [do |-> "assign", variable |-> "initialised", value |-> TRUE]
    OBVIOUS
  <1>5. DOMAIN HalSteps = 1..18 /\ HalSteps = [k \in 1..18 |-> HalSteps[k]]
    OBVIOUS
  <1> HIDE DEF HalSteps
  <1>6. \A k \in 1..18 : HalSteps[k] \in AnyStep
    <2>1. /\ [do |-> "assign", variable |-> "rf_switch", value |-> "rx"] \in AnyStep
          /\ [do |-> "wakeup"] \in AnyStep
          /\ [do |-> "assign", variable |-> "nvic", value |-> TRUE] \in AnyStep
          /\ [do |-> "assign", variable |-> "initialised", value |-> TRUE] \in AnyStep
          /\ [do |-> "clearErrors"] \in AnyStep
      BY DEF AnyStep, Ordinary, Assignment
    <2>2. \A n \in CommandNames : [do |-> "command", name |-> n] \in AnyStep
      BY DEF AnyStep, Ordinary
    <2>3. /\ [do |-> "expect", what |-> "mode", values |-> {"xosc"}] \in AnyStep
          /\ [do |-> "expect", what |-> "errors", values |-> {NO_ERRORS}] \in AnyStep
          /\ [do |-> "expect", what |-> "errors",
              values |-> {NO_ERRORS, "xosc_start"}] \in AnyStep
      BY DEF AnyStep
    <2>4. {"SetStandby", "SetStandbyXosc", "SetDio3AsTcxoCtrl", "WriteRegister", "Cal",
           "SetRegMode", "SetPaCfg", "SetRxTxFallbackMode", "SetDioIrqParams"}
          \subseteq CommandNames
      BY DEF CommandNames
    <2> QED
      BY <1>2, <1>3, <1>4, <2>1, <2>2, <2>3, <2>4
  <1>7. HalSteps \in Seq(AnyStep)
    BY <1>1, <1>5, <1>6
  <1>8. \A k \in 1..18 :
       /\ HalSteps[k].do = "assign" <=> k \in {1, 17, 18}
       /\ HalSteps[k].do = "wakeup" <=> k = 2
       /\ HalSteps[k].do = "expect" <=> k \in {7, 8, 12}
       /\ HalSteps[k].do = "clearErrors" <=> k = 9
       /\ HalSteps[k].do \notin {"clearRead", "callBack", "program"}
    BY <1>2, <1>3, <1>4
  <1>9. \A k \in 1..18 : HalSteps[k].do = "command" =>
       HalSteps[k].name \in {"SetStandby", "SetStandbyXosc", "SetDio3AsTcxoCtrl",
                             "WriteRegister", "Cal", "SetRegMode", "SetPaCfg",
                             "SetRxTxFallbackMode", "SetDioIrqParams"}
    BY <1>2, <1>3, <1>4
  <1> QED
    BY <1>1, <1>2, <1>3, <1>4, <1>6, <1>7, <1>8, <1>9

(* A prefix of the literal program, a step longer. *)
Prefix(p, n) == /\ p \in Seq(AnyStep) /\ Len(p) = n
                /\ \A i \in 1..n : p[i] = HalSteps[i]
LEMMA PrefixGrows ==
  ASSUME NEW n \in 0..17, NEW p, Prefix(p, n), NEW q, q = <<HalSteps[n + 1]>>
  PROVE  Prefix(p \o q, n + 1)
  <1>1. HalSteps[n + 1] \in AnyStep
    BY HalStepsAre
  <1>2. q \in Seq(AnyStep) /\ Len(q) = 1 /\ q[1] = HalSteps[n + 1]
    BY <1>1
  <1>3. p \in Seq(AnyStep) /\ Len(p) = n /\ \A i \in 1..n : p[i] = HalSteps[i]
    BY DEF Prefix
  <1>4. /\ p \o q \in Seq(AnyStep) /\ Len(p \o q) = n + 1
        /\ \A i \in 1..n : (p \o q)[i] = p[i]
        /\ (p \o q)[n + 1] = q[1]
    BY <1>2, <1>3, ConcatProperties
  <1> QED
    BY <1>2, <1>3, <1>4 DEF Prefix

(* rfManagerHal_init() is the literal program. *)
LEMMA HalInitIs == Prefix(HalInit, 18)
  <1> DEFINE p1 == SetRfSwitch("rx")
             p2 == p1 \o Wakeup
             p3 == p2 \o Command("SetStandby")
             p4 == p3 \o Command("SetDio3AsTcxoCtrl")
             p5 == p4 \o Command("WriteRegister")
             p6 == p5 \o Command("SetStandbyXosc")
             p7 == p6 \o Expect("mode", {"xosc"})
             p8 == p7 \o Expect("errors", {NO_ERRORS, "xosc_start"})
             p9 == p8 \o ClearErrors
             p10 == p9 \o Command("SetStandby")
             p11 == p10 \o Command("Cal")
             p12 == p11 \o Expect("errors", {NO_ERRORS})
             p13 == p12 \o Command("SetRegMode")
             p14 == p13 \o Command("SetPaCfg")
             p15 == p14 \o Command("SetRxTxFallbackMode")
             p16 == p15 \o Command("SetDioIrqParams")
             p17 == p16 \o Assign("nvic", TRUE)
             p18 == p17 \o Assign("initialised", TRUE)
  <1>0. HalInit = p18
    BY Zenon DEF HalInit
  <1> HIDE DEF p1, p2, p3, p4, p5, p6, p7, p8, p9, p10, p11, p12, p13, p14, p15, p16, p17, p18
  <1>1. Prefix(p1, 1)
    <2>1. p1 = <<HalSteps[1]>> /\ HalSteps[1] \in AnyStep
      BY HalStepsAre DEF p1, SetRfSwitch, Assign
    <2>2. p1 \in Seq(AnyStep) /\ Len(p1) = 1 /\ p1[1] = HalSteps[1]
      BY <2>1
    <2> QED
      BY <2>2 DEF Prefix
  <1>2. Prefix(p2, 2)
    <2>1. Wakeup = <<HalSteps[2]>>
      BY DEF Wakeup, HalSteps
    <2> QED
      BY <1>1, <2>1, PrefixGrows DEF p2
  <1>3. Prefix(p3, 3)
    <2>1. Command("SetStandby") = <<HalSteps[3]>>
      BY DEF Command, HalSteps
    <2> QED
      BY <1>2, <2>1, PrefixGrows DEF p3
  <1>4. Prefix(p4, 4)
    <2>1. Command("SetDio3AsTcxoCtrl") = <<HalSteps[4]>>
      BY DEF Command, HalSteps
    <2> QED
      BY <1>3, <2>1, PrefixGrows DEF p4
  <1>5. Prefix(p5, 5)
    <2>1. Command("WriteRegister") = <<HalSteps[5]>>
      BY DEF Command, HalSteps
    <2> QED
      BY <1>4, <2>1, PrefixGrows DEF p5
  <1>6. Prefix(p6, 6)
    <2>1. Command("SetStandbyXosc") = <<HalSteps[6]>>
      BY DEF Command, HalSteps
    <2> QED
      BY <1>5, <2>1, PrefixGrows DEF p6
  <1>7. Prefix(p7, 7)
    <2>1. Expect("mode", {"xosc"}) = <<HalSteps[7]>>
      BY DEF Expect, HalSteps
    <2> QED
      BY <1>6, <2>1, PrefixGrows DEF p7
  <1>8. Prefix(p8, 8)
    <2>1. Expect("errors", {NO_ERRORS, "xosc_start"}) = <<HalSteps[8]>>
      BY DEF Expect, HalSteps
    <2> QED
      BY <1>7, <2>1, PrefixGrows DEF p8
  <1>9. Prefix(p9, 9)
    <2>1. ClearErrors = <<HalSteps[9]>>
      BY DEF ClearErrors, HalSteps
    <2> QED
      BY <1>8, <2>1, PrefixGrows DEF p9
  <1>10. Prefix(p10, 10)
    <2>1. Command("SetStandby") = <<HalSteps[10]>>
      BY DEF Command, HalSteps
    <2> QED
      BY <1>9, <2>1, PrefixGrows DEF p10
  <1>11. Prefix(p11, 11)
    <2>1. Command("Cal") = <<HalSteps[11]>>
      BY DEF Command, HalSteps
    <2> QED
      BY <1>10, <2>1, PrefixGrows DEF p11
  <1>12. Prefix(p12, 12)
    <2>1. Expect("errors", {NO_ERRORS}) = <<HalSteps[12]>>
      BY DEF Expect, HalSteps
    <2> QED
      BY <1>11, <2>1, PrefixGrows DEF p12
  <1>13. Prefix(p13, 13)
    <2>1. Command("SetRegMode") = <<HalSteps[13]>>
      BY DEF Command, HalSteps
    <2> QED
      BY <1>12, <2>1, PrefixGrows DEF p13
  <1>14. Prefix(p14, 14)
    <2>1. Command("SetPaCfg") = <<HalSteps[14]>>
      BY DEF Command, HalSteps
    <2> QED
      BY <1>13, <2>1, PrefixGrows DEF p14
  <1>15. Prefix(p15, 15)
    <2>1. Command("SetRxTxFallbackMode") = <<HalSteps[15]>>
      BY DEF Command, HalSteps
    <2> QED
      BY <1>14, <2>1, PrefixGrows DEF p15
  <1>16. Prefix(p16, 16)
    <2>1. Command("SetDioIrqParams") = <<HalSteps[16]>>
      BY DEF Command, HalSteps
    <2> QED
      BY <1>15, <2>1, PrefixGrows DEF p16
  <1>17. Prefix(p17, 17)
    <2> DEFINE q == Assign("nvic", TRUE)
    <2>1. q = <<HalSteps[17]>> /\ p17 = p16 \o q
      BY DEF Assign, HalSteps, p17
    <2> HIDE DEF q
    <2> QED
      BY <1>16, <2>1, PrefixGrows
  <1>18. Prefix(p18, 18)
    <2> DEFINE q == Assign("initialised", TRUE)
    <2>1. q = <<HalSteps[18]>> /\ p18 = p17 \o q
      BY DEF Assign, HalSteps, p18
    <2> HIDE DEF q
    <2> QED
      BY <1>17, <2>1, PrefixGrows
  <1> QED
    BY <1>0, <1>18

(* What is left of it after a step. *)
LEMMA LeftIs ==
  ASSUME NEW k \in 1..18
  PROVE  /\ Left(k) \in Seq(AnyStep) /\ Left(k) # <<>> /\ Head(Left(k)) = HalSteps[k]
         /\ k < 18 => Tail(Left(k)) = Left(k + 1)
         /\ k = 18 => Tail(Left(k)) = <<>>
  <1>1. HalInit \in Seq(AnyStep) /\ Len(HalInit) = 18 /\ \A i \in 1..18 : HalInit[i] = HalSteps[i]
    BY HalInitIs DEF Prefix
  <1> DEFINE n == Len(HalInit)
  <1>2. /\ n = 18 /\ k \in 1..Len(HalInit) /\ n \in k..Len(HalInit) /\ k \in Int /\ n \in Int
        /\ k <= n /\ k + 1 \in Int /\ (k = 18 => n < k + 1)
    <2>1. Len(HalInit) = 18
      BY <1>1
    <2> QED
      BY <2>1
  <1>3. Left(k) = SubSeq(HalInit, k, n) /\ (k < 18 => Left(k + 1) = SubSeq(HalInit, k + 1, n))
    BY <1>2 DEF Left
  <1> HIDE DEF n
  <1>4. /\ Head(SubSeq(HalInit, k, n)) = HalInit[k]
        /\ Tail(SubSeq(HalInit, k, n)) = SubSeq(HalInit, k + 1, n)
    <2>1. HalInit \in Seq(AnyStep) /\ k \in 1..Len(HalInit) /\ n \in k..Len(HalInit)
      BY <1>1, <1>2
    <2> HIDE DEF HalInit
    <2> QED
      BY <2>1, HeadTailOfSubSeq
  <1>5. \A i \in k..n : HalInit[i] \in AnyStep
    <2>1. \A i \in k..n : i \in 1..Len(HalInit)
      <3>1. n = 18 /\ Len(HalInit) = 18
        BY <1>1, <1>2
      <3> QED
        BY <3>1
    <2>2. HalInit \in Seq(AnyStep)
      BY <1>1
    <2> QED
      BY <2>1, <2>2
  <1>6. SubSeq(HalInit, k, n) \in Seq(AnyStep) /\ SubSeq(HalInit, k, n) # <<>>
    <2>1. /\ SubSeq(HalInit, k, n) \in Seq(AnyStep)
          /\ Len(SubSeq(HalInit, k, n)) = IF k <= n THEN n - k + 1 ELSE 0
      BY <1>2, <1>5, SubSeqProperties, SMT
    <2>2. Len(SubSeq(HalInit, k, n)) # 0
      BY <1>2, <2>1
    <2> QED
      BY <2>1, <2>2
  <1>7. k = 18 => SubSeq(HalInit, k + 1, n) = <<>>
    BY <1>2, SubSeqEmpty, Zenon
  <1> QED
    BY <1>1, <1>3, <1>4, <1>6, <1>7

LEMMA LeftGoesOn == \A k \in 1..17 : Tail(Left(k)) = Left(k + 1) /\ k + 1 \in 1..18
  <1> TAKE k \in 1..17
  <1>1. k \in 1..18 /\ k < 18 /\ k + 1 \in 1..18
    OBVIOUS
  <1> QED
    BY <1>1, LeftIs, Zenon

(* Every program of a handler or a callback is made of ordinary steps. *)
Programs == Seq(Ordinary)

LEMMA Pieces ==
  /\ <<>> \in Programs /\ \A p, q \in Programs : p \o q \in Programs
  /\ \A n \in CommandNames : Command(n) \in Programs
  /\ \A r \in Registers, v \in Values : Program(r, v) \in Programs /\ Program(r, v)[1] \in Ordinary
  /\ \A x \in {TRUE, FALSE} : /\ Assign("transmitting", x) \in Programs
                              /\ Assign("radioOperationActive", x) \in Programs
  /\ \A side \in {"rx", "tx"} : SetRfSwitch(side) \in Programs
  /\ \A c \in Configurations : Assign("configuration", c) \in Programs
  /\ \A o \in Operations : Operation(o) \in Programs
  /\ ClearErrors \in Programs /\ ClearRead \in Programs /\ CallBack \in Programs
  <1>1. \A e \in Ordinary : <<e>> \in Seq(Ordinary) /\ <<e>>[1] = e
    OBVIOUS
  <1>2. <<>> \in Programs /\ \A p, q \in Programs : p \o q \in Programs
    BY DEF Programs
  <1>3. \A n \in CommandNames : Command(n) \in Programs
    <2>1. \A n \in CommandNames : [do |-> "command", name |-> n] \in Ordinary
      BY DEF Ordinary
    <2> QED
      BY <1>1, <2>1 DEF Programs, Command
  <1>4. \A r \in Registers, v \in Values :
          Program(r, v) \in Programs /\ Program(r, v)[1] \in Ordinary
    <2>1. \A r \in Registers, v \in Values :
            [do |-> "program", register |-> r, value |-> v] \in Ordinary
      BY DEF Ordinary
    <2> QED
      BY <1>1, <2>1 DEF Programs, Program
  <1>5. \A x \in {TRUE, FALSE} : /\ Assign("transmitting", x) \in Programs
                                 /\ Assign("radioOperationActive", x) \in Programs
    <2>1. \A x \in BOOLEAN :
            /\ [do |-> "assign", variable |-> "transmitting", value |-> x] \in Ordinary
            /\ [do |-> "assign", variable |-> "radioOperationActive", value |-> x] \in Ordinary
      BY DEF Ordinary, Assignment
    <2> QED
      BY <1>1, <2>1 DEF Programs, Assign
  <1>6. \A side \in {"rx", "tx"} : SetRfSwitch(side) \in Programs
    <2>1. \A side \in {"rx", "tx"} :
            [do |-> "assign", variable |-> "rf_switch", value |-> side] \in Ordinary
      BY DEF Ordinary, Assignment
    <2> QED
      BY <1>1, <2>1 DEF Programs, SetRfSwitch, Assign
  <1>7. \A c \in Configurations : Assign("configuration", c) \in Programs
    <2>1. \A c \in Configurations :
            [do |-> "assign", variable |-> "configuration", value |-> c] \in Ordinary
      BY DEF Ordinary, Assignment
    <2> QED
      BY <1>1, <2>1 DEF Programs, Assign
  <1>8. \A o \in Operations : Operation(o) \in Programs
    <2>1. \A o \in Operations :
            [do |-> "assign", variable |-> "active_operation", value |-> o] \in Ordinary
      BY DEF Ordinary, Assignment
    <2> QED
      BY <1>1, <2>1 DEF Programs, Operation, Assign
  <1>9. ClearErrors \in Programs /\ ClearRead \in Programs /\ CallBack \in Programs
    <2>1. /\ [do |-> "clearErrors"] \in Ordinary /\ [do |-> "clearRead"] \in Ordinary
          /\ [do |-> "callBack"] \in Ordinary
      BY DEF Ordinary
    <2> QED
      BY <1>1, <2>1 DEF Programs, ClearErrors, ClearRead, CallBack
  <1> QED
    BY <1>2, <1>3, <1>4, <1>5, <1>6, <1>7, <1>8, <1>9

LEMMA RegistersAre ==
  /\ {"rf_frequency", "modulation", "tx_parameters", "packet_parameters"} \subseteq Registers
  /\ \A c \in Configurations : RegistersOf(c.type) \in Seq(Registers)
  <1>1. /\ Len(GenericRegisters) = 5 /\ Len(LoraRegisters) = 3
        /\ GenericRegisters = [i \in 1..5 |-> GenericRegisters[i]]
        /\ LoraRegisters = [i \in 1..3 |-> LoraRegisters[i]]
        /\ DOMAIN GenericRegisters = 1..5 /\ DOMAIN LoraRegisters = 1..3
    BY DEF GenericRegisters, LoraRegisters
  <1>2. /\ \A i \in 1..5 : GenericRegisters[i] \in Registers
        /\ \A i \in 1..3 : LoraRegisters[i] \in Registers
    BY <1>1, Zenon DEF Registers
  <1>3. GenericRegisters \in Seq(Registers) /\ LoraRegisters \in Seq(Registers)
    BY <1>1, <1>2
  <1>4. <<>> \in Seq(Registers)
    OBVIOUS
  <1>5. \A c \in Configurations : c.type \in {"FSK", "LORA", "BPSK", "MSK"}
    BY RadioHalAssumption
  <1>6. \A c \in Configurations : RegistersOf(c.type) \in {LoraRegisters, GenericRegisters, <<>>}
    BY <1>5 DEF RegistersOf
  <1>7. {"rf_frequency", "modulation", "tx_parameters", "packet_parameters"} \subseteq Registers
    BY DEF Registers
  <1> QED
    BY <1>3, <1>4, <1>6, <1>7

LEMMA CommandsAre ==
  {"SetStandby", "Cal", "CalImg", "TxModulationWorkaround", "SetPacketType", "ClearIrqStatus",
   "WriteBuffer", "SetTx", "SetRx", "SetRxContinuous", "SetRxDutyCycle", "SetCad", "SetTxCw",
   "SetTxInfinitePreamble", "GetRxBufferStatus", "ReadBuffer", "GetPacketStatus",
   "GetDeviceErrors", "GetIrqStatus"} \subseteq CommandNames
  BY DEF CommandNames

LEMMA ConfiguredIs ==
  \A c \in Configured : c.length \in Nat /\ c.rxMode \in 0..2
  <1>1. NoConfiguration.length = 0 /\ NoConfiguration.rxMode = 0
    BY DEF NoConfiguration
  <1>2. ASSUME NEW c \in Configurations PROVE c.length \in Nat /\ c.rxMode \in 0..2
    BY RadioHalAssumption
  <1> SUFFICES ASSUME NEW c \in Configured PROVE c.length \in Nat /\ c.rxMode \in 0..2
    OBVIOUS
  <1>3. CASE c = NoConfiguration
    <2>1. c.length = 0 /\ c.rxMode = 0
      BY <1>1, <1>3, Zenon
    <2> QED
      BY <2>1
  <1>4. CASE c \in Configurations
    BY <1>2, <1>4
  <1> QED
    BY <1>3, <1>4 DEF Configured

LEMMA ParametersAre ==
  \A c \in Configured, n \in Nat : SetPacketParameters(c, n) \in Programs
  <1>1. \A c \in Configured, n \in Nat : [configuration |-> c, length |-> n] \in Values
    BY DEF Values
  <1> QED
    BY <1>1, Pieces, RegistersAre DEF SetPacketParameters

LEMMA SetConfigurationIs ==
  \A c \in Configurations : SetConfiguration(c) \in Programs
  <1> TAKE c \in Configurations
  <1> DEFINE registers == RegistersOf(c.type)
             many == [i \in DOMAIN registers |-> Program(registers[i], c)[1]]
  <1>1. c \in Values /\ c \in Configured /\ c.length \in Nat
    BY ConfiguredIs DEF Values, Configured
  <1>2. many \in Programs
    <2>1. registers \in Seq(Registers)
      BY RegistersAre
    <2>2. \A i \in DOMAIN registers : Program(registers[i], c)[1] \in Ordinary
      BY <1>1, <2>1, Pieces
    <2> HIDE DEF registers
    <2> QED
      BY <2>1, <2>2 DEF Programs
  <1>3. Program("rf_frequency", c) \in Programs /\ Program("modulation", c) \in Programs
        /\ Program("tx_parameters", c) \in Programs
    BY <1>1, Pieces, RegistersAre
  <1>4. SetPacketParameters(c, c.length) \in Programs
    BY <1>1, ParametersAre
  <1>5. /\ Command("SetPacketType") \in Programs
        /\ Command("TxModulationWorkaround") \in Programs
    BY Pieces, CommandsAre
  <1> HIDE DEF many
  <1>6. (IF c.type = "FSK" THEN SetFskModulationParameters(c) ELSE Program("modulation", c))
        \in Programs
    BY <1>3, <1>5, Pieces DEF SetFskModulationParameters
  <1> DEFINE modulation == IF c.type = "FSK" THEN SetFskModulationParameters(c)
                           ELSE Program("modulation", c)
  <1>7. modulation \in Programs
    BY <1>6
  <1>8. SetConfiguration(c) = Program("rf_frequency", c) \o Command("SetPacketType")
                              \o modulation \o many \o Program("tx_parameters", c)
                              \o SetPacketParameters(c, c.length)
    BY Zenon DEF SetConfiguration, many
  <1> HIDE DEF modulation
  <1> QED
    BY <1>2, <1>3, <1>4, <1>5, <1>7, <1>8, Pieces

LEMMA StopIs == Stop \in Programs
  BY Pieces, CommandsAre DEF Stop

LEMMA StartsAre ==
  ASSUME NEW c \in Configured
  PROVE  StartReceive(c) \in Programs /\ StartCad(c) \in Programs
  <1>1. SetPacketParameters(c, c.length) \in Programs
    BY ConfiguredIs, ParametersAre
  <1>2. <<"SetRx", "SetRxContinuous", "SetRxDutyCycle">>[c.rxMode + 1] \in CommandNames
    <2>1. c.rxMode = 0 \/ c.rxMode = 1 \/ c.rxMode = 2
      BY ConfiguredIs
    <2>2. <<"SetRx", "SetRxContinuous", "SetRxDutyCycle">>[c.rxMode + 1]
          \in {"SetRx", "SetRxContinuous", "SetRxDutyCycle"}
      BY <2>1
    <2> QED
      BY <2>2, CommandsAre
  <1>3. Command(<<"SetRx", "SetRxContinuous", "SetRxDutyCycle">>[c.rxMode + 1]) \in Programs
    BY <1>2, Pieces
  <1>4. Command("SetStandby") \in Programs /\ Command("SetCad") \in Programs
    BY Pieces, CommandsAre
  <1> DEFINE receiving == Assign("transmitting", FALSE)
             active == Assign("radioOperationActive", TRUE)
  <1>5. receiving \in Programs /\ active \in Programs /\ SetRfSwitch("rx") \in Programs
        /\ \A p, q \in Programs : p \o q \in Programs
    BY Pieces
  <1>6. StartReceive(c) \in Programs
    <2> DEFINE start == Command(<<"SetRx", "SetRxContinuous", "SetRxDutyCycle">>[c.rxMode + 1])
               standby == IF c.rxMode = 2 THEN Command("SetStandby") ELSE <<>>
    <2>1. start \in Programs /\ standby \in Programs
      BY <1>3, <1>4, Pieces
    <2>2. StartReceive(c) = receiving \o SetRfSwitch("rx") \o standby
                            \o SetPacketParameters(c, c.length) \o active \o start
      BY Zenon DEF StartReceive
    <2> HIDE DEF start, standby, receiving, active
    <2> QED
      BY <1>1, <1>5, <2>1, <2>2
  <1>7. StartCad(c) \in Programs
    <2> DEFINE parameters == IF c.cadExit # 0 THEN SetPacketParameters(c, c.length) ELSE <<>>
    <2>1. parameters \in Programs
      BY <1>1, Pieces
    <2>2. StartCad(c) = receiving \o SetRfSwitch("rx") \o parameters \o active
                        \o Command("SetCad")
      BY Zenon DEF StartCad
    <2> HIDE DEF parameters, receiving, active
    <2> QED
      BY <1>4, <1>5, <2>1, <2>2
  <1> QED
    BY <1>6, <1>7

LEMMA HandlersAre ==
  ASSUME mem.configuration \in Configured
  PROVE  Handlers \subseteq Programs
  <1> DEFINE c == mem.configuration
  <1>1. GetErrors \in Programs /\ Calibrate \in Programs
    BY Pieces, CommandsAre DEF GetErrors, Calibrate
  <1>2. StartContinuousWave \in Programs /\ StartContinuousPreamble \in Programs
    BY Pieces, CommandsAre DEF StartContinuousWave, StartContinuousPreamble
  <1>3. StartReceive(c) \in Programs /\ StartCad(c) \in Programs
    BY StartsAre
  <1>4. \A n \in Lengths : Transmit(c, n) \in Programs
    <2> TAKE n \in Lengths
    <2>1. SetPacketParameters(c, n) \in Programs
      BY ParametersAre, RadioHalAssumption
    <2> QED
      BY <2>1, Pieces, CommandsAre DEF Transmit
  <1>5. \A d \in Configurations : SetConfiguration(d) \in Programs
                                  /\ Assign("configuration", d) \in Programs
    BY SetConfigurationIs, Pieces
  <1>6. \A o \in {"IDLE", "CALIBRATION", "PACKET_TX", "CONTINUOUS_WAVE_TX",
                  "CONTINUOUS_PREAMBLE_TX", "RX", "CAD"} : Operation(o) \in Programs
    BY Pieces DEF Operations
  <1>7. \A p, q \in Programs : p \o q \in Programs
    BY Pieces
  <1> HIDE DEF c
  <1> DEFINE H1 == {Stop \o SetConfiguration(d) \o Assign("configuration", d)
                      \o Operation("IDLE") : d \in Configurations}
             H2 == {GetErrors, Stop \o Operation("IDLE"),
                    Stop \o Operation("CALIBRATION") \o Calibrate}
             H3 == {Stop \o Operation("PACKET_TX") \o Transmit(c, n) : n \in Lengths}
             H4 == {Stop \o Operation("CONTINUOUS_WAVE_TX") \o StartContinuousWave}
             H5 == {Stop \o Operation("CONTINUOUS_PREAMBLE_TX") \o StartContinuousPreamble}
             H6 == {Stop \o Operation("RX") \o StartReceive(c)}
             H7 == {Stop \o Operation("CAD") \o StartCad(c)}
  <1>8. Handlers \subseteq H1 \cup H2 \cup H3 \cup H4 \cup H5 \cup H6 \cup H7
    BY Zenon DEF Handlers, c
  <1>9. H1 \subseteq Programs
    BY <1>5, <1>6, <1>7, StopIs
  <1>10. H2 \subseteq Programs
    BY <1>1, <1>6, <1>7, StopIs
  <1>11. H3 \subseteq Programs
    BY <1>4, <1>6, <1>7, StopIs
  <1>12. H4 \subseteq Programs /\ H5 \subseteq Programs
    BY <1>2, <1>6, <1>7, StopIs
  <1>13. H6 \subseteq Programs /\ H7 \subseteq Programs
    BY <1>3, <1>6, <1>7, StopIs
  <1> HIDE DEF H1, H2, H3, H4, H5, H6, H7
  <1> QED
    BY <1>8, <1>9, <1>10, <1>11, <1>12, <1>13

LEMMA CallbacksAre ==
  ASSUME mem.configuration \in Configured
  PROVE  Callbacks \in Programs
  <1> DEFINE c == mem.configuration
             seen == IF mem.radioOperationActive THEN irq ELSE {}
             rearm == IF mem.active_operation = "CAD" THEN StartCad(c)
                      ELSE IF c.rxMode = 2 THEN StartReceive(c) ELSE <<>>
             c1 == IF "CRC_ERROR" \in seen
                   THEN (IF mem.active_operation = "RX" /\ c.rxMode = 2
                         THEN StartReceive(c) ELSE <<>>)
                   ELSE IF "RX_DONE" \in seen THEN ReadReceivedPacket \o rearm ELSE <<>>
             c2 == IF "TIMEOUT" \in seen /\ ~mem.transmitting THEN rearm ELSE <<>>
             c3 == IF "CAD_DONE" \in seen /\ "CAD_DETECTED" \notin seen THEN StartCad(c)
                   ELSE <<>>
  <1>1. Callbacks = c1 \o c2 \o c3
    BY Zenon DEF Callbacks
  <1>2. StartReceive(c) \in Programs /\ StartCad(c) \in Programs /\ <<>> \in Programs
    BY StartsAre, Pieces
  <1>3. ReadReceivedPacket \in Programs
    BY Pieces, CommandsAre DEF ReadReceivedPacket
  <1>4. rearm \in Programs
    BY <1>2
  <1>5. \A p, q \in Programs : p \o q \in Programs
    BY Pieces
  <1> HIDE DEF rearm, seen
  <1>6. c1 \in Programs /\ c2 \in Programs /\ c3 \in Programs
    BY <1>2, <1>3, <1>4, <1>5
  <1> HIDE DEF c1, c2, c3
  <1> QED
    BY <1>1, <1>5, <1>6

-----------------------------------------------------------------------------
(* What a step does. *)

LEMMA OrdinaryIs ==
  ASSUME NEW s \in Ordinary
  PROVE  /\ s.do \in {"assign", "command", "program", "clearErrors", "clearRead", "callBack"}
         /\ s.do = "assign" => s \in Assignment
         /\ s.do = "command" => s.name \in CommandNames
         /\ s.do = "program" => s.register \in Registers /\ s.value \in Values
         /\ s \in AnyStep
  BY DEF Ordinary, Assignment, AnyStep

LEMMA AnyStepIs ==
  ASSUME NEW s \in AnyStep
  PROVE  /\ s.do \in {"assign", "command", "program", "clearErrors", "clearRead", "callBack",
                      "wakeup", "expect"}
         /\ s.do = "command" => s.name \in CommandNames
         /\ s.do = "program" => s.register \in Registers /\ s.value \in Values
  <1>1. CASE s \in Ordinary
    BY <1>1, OrdinaryIs
  <1>2. CASE s \notin Ordinary
    BY <1>2 DEF AnyStep
  <1> QED
    BY <1>1, <1>2

(* An assignment of the HAL or the object leaves the interrupt alone. *)
LEMMA AssignmentKeeps ==
  ASSUME mem \in MemoryType, NEW s \in Assignment, mem' = [mem EXCEPT ![s.variable] = s.value]
  PROVE  /\ mem' \in MemoryType
         /\ UNCHANGED <<mem.nvic, mem.radioMaySleep, mem.initialised>>
  <1>1. CASE s \in [do : {"assign"}, variable : {"transmitting", "radioOperationActive"},
                    value : BOOLEAN]
    <2>1. s.variable = "transmitting" \/ s.variable = "radioOperationActive"
      BY <1>1
    <2>2. s.value \in BOOLEAN
      BY <1>1
    <2> QED
      BY <2>1, <2>2 DEF MemoryType
  <1>2. CASE s \in [do : {"assign"}, variable : {"rf_switch"}, value : {"rx", "tx"}]
    <2>1. s.variable = "rf_switch" /\ s.value \in {"rx", "tx"}
      BY <1>2
    <2> QED
      BY <2>1 DEF MemoryType
  <1>3. CASE s \in [do : {"assign"}, variable : {"configuration"}, value : Configurations]
    <2>1. s.variable = "configuration" /\ s.value \in Configured
      BY <1>3 DEF Configured
    <2> QED
      BY <2>1 DEF MemoryType
  <1>4. CASE s \in [do : {"assign"}, variable : {"active_operation"}, value : Operations]
    <2>1. s.variable = "active_operation" /\ s.value \in Operations
      BY <1>4
    <2> QED
      BY <2>1 DEF MemoryType
  <1> QED
    BY <1>1, <1>2, <1>3, <1>4 DEF Assignment

(* What the radio makes of a step. *)
LEMMA ObeyIs ==
  ASSUME radio \in RadioType, NEW s \in AnyStep
  PROVE  /\ Obey(s) \in RadioType
         /\ s.do = "command" => Obey(s).mode = ModeAfter(s.name)
         /\ s.do = "wakeup" => Obey(s).mode = "standby"
         /\ s.do \notin {"command", "wakeup"} => Obey(s).mode = radio.mode
         /\ Obey(s).flags \subseteq radio.flags
         /\ Obey(s).errors = IF s.do = "clearErrors" THEN NO_ERRORS ELSE radio.errors
  <1>1. CASE s.do = "program"
    <2>1. s.register \in Registers /\ s.value \in Values
      BY <1>1, AnyStepIs
    <2>2. Obey(s) = [radio EXCEPT !.registers[s.register] = s.value]
      BY <1>1 DEF Obey
    <2>3. [radio.registers EXCEPT ![s.register] = s.value] \in [Registers -> Values]
      BY <2>1 DEF RadioType
    <2> QED
      BY <1>1, <2>2, <2>3 DEF RadioType
  <1>2. CASE s.do = "wakeup"
    <2>1. Obey(s) = [radio EXCEPT !.mode = "standby"]
      BY <1>2 DEF Obey
    <2> QED
      BY <1>2, <2>1 DEF RadioType, Modes
  <1>3. CASE s.do = "clearErrors"
    <2>1. Obey(s) = [radio EXCEPT !.errors = NO_ERRORS]
      BY <1>3 DEF Obey
    <2> QED
      BY <1>3, <2>1 DEF RadioType
  <1>4. CASE s.do = "clearRead"
    <2>1. Obey(s) = [radio EXCEPT !.flags = @ \ irq]
      BY <1>4 DEF Obey
    <2> QED
      BY <1>4, <2>1 DEF RadioType
  <1>5. CASE s.do = "command"
    <2> DEFINE after == ModeAfter(s.name)
               left == IF s.name = "ClearIrqStatus" THEN {} ELSE radio.flags
               registers == IF s.name = "SetPacketType"
                            THEN [radio.registers EXCEPT !.modulation = NoConfiguration,
                                                         !.packet_parameters = NoParameters]
                            ELSE radio.registers
    <2>1. Obey(s) = [radio EXCEPT !.mode = after, !.flags = left, !.registers = registers]
      BY <1>5 DEF Obey, RadioType
    <2>2. after \in Modes
      BY DEF ModeAfter, Modes, RadioType
    <2>3. left \in SUBSET Indications /\ left \subseteq radio.flags
      BY DEF RadioType
    <2>4. NoConfiguration \in Values /\ NoParameters \in Values
      <3>1. NoParameters = [configuration |-> NoConfiguration, length |-> 0]
            /\ NoConfiguration \in Configured
        BY DEF NoParameters, Configured
      <3> QED
        BY <3>1, Zenon DEF Values
    <2>5. registers \in [Registers -> Values]
      BY <2>4, RegistersAre DEF RadioType
    <2> HIDE DEF after, left, registers
    <2>6. Obey(s) \in RadioType
      BY <2>1, <2>2, <2>3, <2>5 DEF RadioType
    <2>7. Obey(s).mode = after /\ Obey(s).flags = left /\ Obey(s).errors = radio.errors
      BY <2>1 DEF RadioType
    <2> QED
      BY <1>5, <2>3, <2>6, <2>7 DEF after
  <1>6. CASE s.do \in {"assign", "expect", "callBack"}
    <2>1. Obey(s) = radio
      BY <1>6 DEF Obey
    <2> QED
      BY <1>6, <2>1
  <1> QED
    BY <1>1, <1>2, <1>3, <1>4, <1>5, <1>6, AnyStepIs

-----------------------------------------------------------------------------
(* The invariant, one action at a time. *)

(* A context that runs has a step to take, and the other has masked nothing. *)
LEMMA RunsIs ==
  ASSUME HalInv, NEW a \in Contexts, Runs(a)
  PROVE  /\ todo[a] # <<>> /\ ~failed
         /\ \A b \in Contexts : b # a => ~Masks(b)
         /\ Step(a) \in AnyStep
         /\ mem.initialised => Step(a) \in Ordinary /\ Tail(todo[a]) \in Seq(Ordinary)
         /\ a = "isr" => mem.initialised
         /\ ~mem.initialised => \E k \in 1..18 : InitialisedSoFar(k) /\ Step(a) = HalSteps[k]
  <1>1. todo[a] # <<>> /\ ~failed /\ (a = "task" => todo["isr"] = <<>>)
    BY DEF Runs
  <1>2. \A b \in Contexts : b # a => ~Masks(b)
    BY <1>1 DEF HalInv, InterruptIsKept, Contexts, Masks
  <1>3. ASSUME mem.initialised
        PROVE  Step(a) \in Ordinary /\ Tail(todo[a]) \in Seq(Ordinary)
    <2>1. todo[a] \in Seq(Ordinary)
      BY <1>3 DEF HalInv, TypeOK, Contexts
    <2>2. Head(todo[a]) \in Ordinary /\ Tail(todo[a]) \in Seq(Ordinary)
      BY <1>1, <2>1
    <2> QED
      BY <2>2 DEF Step
  <1>4. a = "isr" => mem.initialised
    BY <1>1 DEF HalInv, Initialising
  <1>5. ASSUME ~mem.initialised
        PROVE  \E k \in 1..18 : InitialisedSoFar(k) /\ Step(a) = HalSteps[k]
    <2>1. PICK k \in 1..18 : InitialisedSoFar(k)
      BY <1>5 DEF HalInv, Initialising
    <2>2. a = "task"
      BY <1>4, <1>5 DEF Contexts
    <2>3. todo[a] = Left(k)
      BY <2>1, <2>2 DEF InitialisedSoFar
    <2> QED
      BY <2>1, <2>3, LeftIs DEF Step
  <1>6. Step(a) \in AnyStep
    BY <1>3, <1>5, HalStepsAre, OrdinaryIs
  <1> QED
    BY <1>1, <1>2, <1>3, <1>4, <1>5, <1>6

(* A context that only moves on in its transaction: what the places allow. *)
LEMMA Moves ==
  ASSUME HalInv, NEW a \in Contexts, Runs(a), NEW p \in Places,
         at' = [at EXCEPT ![a] = p],
         UNCHANGED <<mem, todo, saved, irq, radio, failed>>,
         Masks(a) <=> p \in {"check", "select", "wake", "transfer", "release", "window"},
         p \notin {"next", "release", "window"}, at[a] \notin {"release", "window"},
         at[a] = "next" => Step(a).do # "assign",
         p = "select" /\ ~WakesRadio(a) => radio.line = "ready",
         p = "transfer" => radio.line = "ready"
  PROVE  HalInv'
  <1>1. /\ at'[a] = p /\ \A b \in Contexts : b # a => at'[b] = at[b]
        /\ at' \in [Contexts -> Places]
    BY DEF HalInv, TypeOK
  <1>2. /\ \A b \in Contexts : Masks(b)' <=> Masks(b)
        /\ \A b \in Contexts : WakesRadio(b)' <=> WakesRadio(b)
        /\ \A b \in Contexts : Leaves(b) <=> Leaves(b)'
        /\ \A b \in Contexts, n \in STRING : IsCommand(b, n)' <=> IsCommand(b, n)
    BY <1>1 DEF Masks, WakesRadio, Leaves, Step, IsCommand
  <1>3. TypeOK'
    BY <1>1 DEF HalInv, TypeOK
  <1>4. InterruptIsKept'
    <2>1. todo[a] # <<>>
      BY RunsIs
    <2>2. \A b \in Contexts : todo[b] = <<>> => at'[b] = "next"
      BY <1>1, <2>1 DEF HalInv, InterruptIsKept
    <2>3. "task" \in Contexts
      BY DEF Contexts
    <2> QED
      BY <1>2, <2>2, <2>3 DEF HalInv, InterruptIsKept
  <1>5. LineIsTrusted'
    <2>1. (radio.line = "rising" => \E b \in Contexts : at[b] = "window")'
      BY <1>1 DEF HalInv, LineIsTrusted
    <2>2. (radio.mode = "rxDutyCycle" => mem.radioMaySleep \/ \E b \in Contexts : Leaves(b))'
      BY <1>2 DEF HalInv, LineIsTrusted
    <2>3. \A b \in Contexts :
            /\ (at[b] = "select" /\ ~WakesRadio(b) => radio.line = "ready")'
            /\ (at[b] = "transfer" => radio.line = "ready")'
      BY <1>1, <1>2 DEF HalInv, LineIsTrusted
    <2>4. \A b \in Contexts :
            (at[b] = "release" /\ IsCommand(b, "SetRxDutyCycle") => mem.radioMaySleep)'
      BY <1>1 DEF HalInv, LineIsTrusted, IsCommand, Step
    <2> QED
      BY <2>1, <2>2, <2>3, <2>4 DEF LineIsTrusted
  <1>6. Initialising'
    <2> SUFFICES ASSUME ~mem.initialised PROVE Initialising'
      BY DEF Initialising
    <2>1. PICK k \in 1..18 : InitialisedSoFar(k) /\ Step(a) = HalSteps[k]
      BY RunsIs
    <2>2. a = "task"
      BY RunsIs DEF Contexts
    <2>3. k < 17
      <3>1. k \in {17, 18} => Step(a).do = "assign"
        BY <2>1, HalStepsAre
      <3> QED
        BY <2>1, <2>2, <3>1 DEF InitialisedSoFar
    <2>4. InitialisedSoFar(k)'
      BY <1>1, <2>1, <2>2, <2>3 DEF InitialisedSoFar, Left
    <2> QED
      BY <2>4 DEF HalInv, Initialising
  <1> QED
    BY <1>3, <1>4, <1>5, <1>6 DEF HalInv

LEMMA KeptByMoves ==
  ASSUME HalInv, NEW a \in Contexts, Begin(a) \/ Poll(a) \/ AwaitWake(a)
  PROVE  HalInv'
  <1>1. CASE Begin(a)
    <2>1. /\ Runs(a) /\ at[a] = "next" /\ at' = [at EXCEPT ![a] = "poll"] /\ Step(a).do # "assign"
          /\ UNCHANGED <<mem, todo, saved, irq, radio, failed>>
      BY <1>1 DEF Begin, Goto
    <2> QED
      BY <2>1, Moves DEF Masks, Places
  <1>2. CASE Poll(a)
    <2>1. /\ Runs(a) /\ at[a] = "poll" /\ at' = [at EXCEPT ![a] = "mask"]
          /\ UNCHANGED <<mem, todo, saved, irq, radio, failed>>
      BY <1>2 DEF Poll, Goto
    <2> QED
      BY <2>1, Moves DEF Masks, Places
  <1>3. CASE AwaitWake(a)
    <2>1. /\ Runs(a) /\ at[a] = "wake" /\ at' = [at EXCEPT ![a] = "transfer"] /\ ~Busy
          /\ UNCHANGED <<mem, todo, saved, irq, radio, failed>>
      BY <1>3 DEF AwaitWake, Goto
    <2>2. radio.line = "ready"
      <3>1. radio.line # "rising"
        BY <2>1, RunsIs DEF HalInv, LineIsTrusted, Masks
      <3> QED
        BY <2>1, <3>1 DEF HalInv, TypeOK, RadioType, Busy
    <2> QED
      BY <2>1, <2>2, Moves DEF Masks, Places
  <1> QED
    BY <1>1, <1>2, <1>3

(* Masking the interrupt, and restoring it when the busy line has risen meanwhile. *)
LEMMA KeptByMask ==
  ASSUME HalInv, NEW a \in Contexts, Mask(a)
  PROVE  HalInv'
  <1>1. /\ Runs(a) /\ at[a] = "mask" /\ at' = [at EXCEPT ![a] = "check"]
        /\ saved' = [saved EXCEPT ![a] = mem.nvic] /\ mem' = [mem EXCEPT !.nvic = FALSE]
        /\ UNCHANGED <<todo, irq, radio, failed>>
    BY DEF Mask, Goto
  <1>2. /\ at'[a] = "check" /\ \A b \in Contexts : b # a => at'[b] = at[b]
        /\ at' \in [Contexts -> Places]
    BY <1>1 DEF HalInv, TypeOK, Places
  <1>3. /\ saved'[a] = mem.nvic /\ \A b \in Contexts : b # a => saved'[b] = saved[b]
        /\ saved' \in [Contexts -> BOOLEAN]
    BY <1>1 DEF HalInv, TypeOK, MemoryType
  <1>4. /\ mem'.nvic = FALSE /\ mem' \in MemoryType
        /\ mem'.initialised = mem.initialised /\ mem'.radioMaySleep = mem.radioMaySleep
    BY <1>1 DEF HalInv, TypeOK, MemoryType
  <1>5. /\ todo[a] # <<>> /\ ~failed /\ \A b \in Contexts : ~Masks(b)
    BY <1>1, RunsIs DEF Masks
  <1>6. \A b \in Contexts : Masks(b)' <=> b = a
    BY <1>2, <1>5 DEF Masks
  <1>7. TypeOK'
    BY <1>1, <1>2, <1>3, <1>4 DEF HalInv, TypeOK
  <1>8. InterruptIsKept'
    <2>1. \A b \in Contexts : todo'[b] = <<>> => at'[b] = "next"
      BY <1>1, <1>2, <1>5 DEF HalInv, InterruptIsKept
    <2>2. todo'["isr"] # <<>> => ~Masks("task")'
      BY <1>1, <1>6 DEF Runs, Contexts
    <2>3. mem.initialised => mem.nvic = TRUE
      BY <1>5 DEF HalInv, InterruptIsKept
    <2> QED
      BY <1>3, <1>4, <1>6, <2>1, <2>2, <2>3 DEF InterruptIsKept
  <1>9. LineIsTrusted'
    <2>1. \A b \in Contexts : at'[b] \notin {"select", "transfer", "release"}
      BY <1>2, <1>5 DEF Masks
    <2>2. radio.line = "rising" => \E b \in Contexts : at'[b] = "window"
      BY <1>5 DEF HalInv, LineIsTrusted, Masks
    <2>3. radio.mode = "rxDutyCycle" => mem.radioMaySleep
      BY <1>5 DEF HalInv, LineIsTrusted, Masks, Leaves
    <2> QED
      BY <1>1, <1>4, <2>1, <2>2, <2>3 DEF LineIsTrusted
  <1>10. Initialising'
    <2> SUFFICES ASSUME ~mem.initialised PROVE Initialising'
      BY <1>4 DEF Initialising
    <2>1. PICK k \in 1..18 : InitialisedSoFar(k)
      BY <1>1, RunsIs
    <2>2. a = "task"
      BY <1>1, RunsIs DEF Contexts
    <2>3. k < 17 /\ mem.nvic = FALSE
      BY <1>1, <2>1, <2>2 DEF InitialisedSoFar, HalInv, TypeOK, MemoryType
    <2>4. InitialisedSoFar(k)'
      BY <1>1, <1>2, <1>4, <2>1, <2>2, <2>3 DEF InitialisedSoFar, Left
    <2> QED
      BY <1>1, <1>3, <1>4, <2>2, <2>3, <2>4 DEF HalInv, Initialising
  <1> QED
    BY <1>1, <1>5, <1>7, <1>8, <1>9, <1>10 DEF HalInv

LEMMA KeptByCheck ==
  ASSUME HalInv, NEW a \in Contexts, Check(a)
  PROVE  HalInv'
  <1>1. /\ Runs(a) /\ at[a] = "check" /\ UNCHANGED <<todo, saved, irq, radio, failed>>
    BY DEF Check
  <1>2. CASE ~Busy \/ WakesRadio(a)
    <2>1. at' = [at EXCEPT ![a] = "select"] /\ UNCHANGED mem
      BY <1>2 DEF Check, Goto
    <2>2. ~WakesRadio(a) => radio.line = "ready"
      <3>1. radio.line # "rising"
        BY <1>1, RunsIs DEF HalInv, LineIsTrusted, Masks
      <3> QED
        BY <1>2, <3>1 DEF HalInv, TypeOK, RadioType, Busy
    <2> QED
      BY <1>1, <2>1, <2>2, Moves DEF Masks, Places
  <1>3. CASE ~(~Busy \/ WakesRadio(a))
    <2>1. at' = [at EXCEPT ![a] = "poll"] /\ mem' = [mem EXCEPT !.nvic = @ \/ saved[a]]
      BY <1>3 DEF Check, Goto, RestoreRadioIrq
    <2>2. /\ at'[a] = "poll" /\ \A b \in Contexts : b # a => at'[b] = at[b]
          /\ at' \in [Contexts -> Places]
      BY <2>1 DEF HalInv, TypeOK, Places
    <2>3. /\ todo[a] # <<>> /\ ~failed /\ \A b \in Contexts : b # a => ~Masks(b)
      BY <1>1, RunsIs
    <2>4. mem.nvic = FALSE /\ saved[a] \in BOOLEAN
      BY <1>1 DEF HalInv, InterruptIsKept, Masks, TypeOK, MemoryType
    <2>5. /\ mem'.nvic = saved[a] /\ mem' \in MemoryType
          /\ mem'.initialised = mem.initialised /\ mem'.radioMaySleep = mem.radioMaySleep
      BY <2>1, <2>4 DEF HalInv, TypeOK, MemoryType
    <2>6. \A b \in Contexts : ~Masks(b)'
      BY <2>2, <2>3 DEF Masks
    <2>7. TypeOK'
      BY <1>1, <2>2, <2>5 DEF HalInv, TypeOK
    <2>8. InterruptIsKept'
      <3>1. \A b \in Contexts : todo'[b] = <<>> => at'[b] = "next"
        BY <1>1, <2>2, <2>3 DEF HalInv, InterruptIsKept
      <3>2. ~Masks("task")'
        BY <2>6 DEF Contexts
      <3>3. mem.initialised => saved[a] = TRUE
        BY <1>1, <2>4 DEF HalInv, InterruptIsKept, Masks
      <3> QED
        BY <2>5, <2>6, <3>1, <3>2, <3>3 DEF InterruptIsKept
    <2>9. LineIsTrusted'
      <3>1. \A b \in Contexts : at'[b] \notin {"select", "transfer", "release"}
        BY <2>2, <2>3 DEF Masks
      <3>2. radio.line = "rising" => \E b \in Contexts : at'[b] = "window"
        BY <1>1, <2>3 DEF HalInv, LineIsTrusted, Masks
      <3>3. radio.mode = "rxDutyCycle" => mem.radioMaySleep
        BY <1>1, <2>3 DEF HalInv, LineIsTrusted, Masks, Leaves
      <3> QED
        BY <1>1, <2>5, <3>1, <3>2, <3>3 DEF LineIsTrusted
    <2>10. Initialising'
      <3> SUFFICES ASSUME ~mem.initialised PROVE Initialising'
        BY <2>5 DEF Initialising
      <3>1. PICK k \in 1..18 : InitialisedSoFar(k)
        BY <1>1, RunsIs
      <3>2. a = "task"
        BY <1>1, RunsIs DEF Contexts
      <3>3. k < 17 /\ saved[a] = FALSE
        BY <1>1, <2>4, <3>1, <3>2 DEF InitialisedSoFar, HalInv, Initialising
      <3>4. InitialisedSoFar(k)'
        BY <1>1, <2>2, <2>5, <3>1, <3>2, <3>3 DEF InitialisedSoFar, Left
      <3> QED
        BY <1>1, <2>5, <3>2, <3>3, <3>4 DEF HalInv, Initialising
    <2> QED
      BY <1>1, <2>3, <2>7, <2>8, <2>9, <2>10 DEF HalInv
  <1> QED
    BY <1>2, <1>3

(* Selecting the radio: one that is asleep is woken. *)
LEMMA KeptBySelect ==
  ASSUME HalInv, NEW a \in Contexts, Select(a)
  PROVE  HalInv'
  <1>1. /\ Runs(a) /\ at[a] = "select" /\ UNCHANGED <<mem, todo, saved, irq, failed>>
        /\ at' = [at EXCEPT ![a] = IF WakesRadio(a) THEN "wake" ELSE "transfer"]
    BY DEF Select, Goto
  <1>2. CASE radio.line # "asleep"
    <2>1. UNCHANGED radio
      BY <1>2 DEF Select
    <2>2. CASE WakesRadio(a)
      BY <1>1, <2>1, <2>2, Moves DEF Masks, Places
    <2>3. CASE ~WakesRadio(a)
      <3>1. radio.line = "ready"
        BY <1>1, <2>3 DEF HalInv, LineIsTrusted
      <3> QED
        BY <1>1, <2>1, <2>3, <3>1, Moves DEF Masks, Places
    <2> QED
      BY <2>2, <2>3
  <1>3. CASE radio.line = "asleep"
    <2>1. WakesRadio(a)
      BY <1>1, <1>3 DEF HalInv, LineIsTrusted
    <2>2. PICK mode \in {radio.mode, "standby"} :
            radio' = [radio EXCEPT !.line = "busy", !.mode = mode]
      BY <1>3 DEF Select
    <2>3. /\ radio' \in RadioType /\ radio'.line = "busy" /\ radio'.mode = mode
          /\ radio'.flags = radio.flags /\ radio'.errors = radio.errors
      BY <2>2 DEF HalInv, TypeOK, RadioType, Modes
    <2>4. /\ at'[a] = "wake" /\ \A b \in Contexts : b # a => at'[b] = at[b]
          /\ at' \in [Contexts -> Places]
      BY <1>1, <2>1 DEF HalInv, TypeOK, Places
    <2>5. /\ todo[a] # <<>> /\ ~failed /\ \A b \in Contexts : b # a => ~Masks(b)
      BY <1>1, RunsIs
    <2>6. \A b \in Contexts : Masks(b)' <=> Masks(b)
      BY <1>1, <2>4 DEF Masks
    <2>7. TypeOK'
      BY <1>1, <2>3, <2>4 DEF HalInv, TypeOK
    <2>8. InterruptIsKept'
      <3>1. \A b \in Contexts : todo'[b] = <<>> => at'[b] = "next"
        BY <1>1, <2>4, <2>5 DEF HalInv, InterruptIsKept
      <3>2. "task" \in Contexts
        BY DEF Contexts
      <3> QED
        BY <1>1, <2>6, <3>1, <3>2 DEF HalInv, InterruptIsKept
    <2>9. LineIsTrusted'
      <3>1. \A b \in Contexts : at'[b] \notin {"select", "transfer", "release", "window"}
        BY <2>4, <2>5 DEF Masks
      <3>2. radio.mode = "rxDutyCycle" => mem.radioMaySleep
        BY <1>1, <2>5 DEF HalInv, LineIsTrusted, Masks, Leaves
      <3> QED
        BY <1>1, <2>3, <3>1, <3>2 DEF LineIsTrusted
    <2>10. Initialising'
      <3> SUFFICES ASSUME ~mem.initialised PROVE Initialising'
        BY <1>1 DEF Initialising
      <3>1. PICK k \in 1..18 : InitialisedSoFar(k) /\ Step(a) = HalSteps[k]
        BY <1>1, RunsIs
      <3>2. a = "task"
        BY <1>1, RunsIs DEF Contexts
      <3>3. k < 17 /\ k # 7
        <4>1. Step(a).do = "wakeup"
          BY <1>1, <2>1 DEF WakesRadio, HalInv, Initialising
        <4>2. k = 2
          BY <3>1, <4>1, HalStepsAre
        <4> QED
          BY <4>2
      <3>4. InitialisedSoFar(k)'
        BY <1>1, <2>3, <2>4, <3>1, <3>2, <3>3 DEF InitialisedSoFar, Left
      <3>5. mode \in {"sleep", "standby", "xosc"}
        BY DEF HalInv, Initialising
      <3> QED
        BY <1>1, <2>3, <3>4, <3>5 DEF HalInv, Initialising
    <2> QED
      BY <1>1, <2>5, <2>7, <2>8, <2>9, <2>10 DEF HalInv
  <1> QED
    BY <1>2, <1>3

(* The bytes: what rfManagerHal_init() expects of the radio, it finds. *)
LEMMA ExpectationsAreMet ==
  ASSUME HalInv, NEW a \in Contexts, Runs(a), Step(a).do = "expect"
  PROVE  radio[Step(a).what] \in Step(a).values
  <1>1. ~mem.initialised
    <2>1. Step(a) \notin Ordinary
      BY OrdinaryIs
    <2> QED
      BY <2>1, RunsIs
  <1>2. PICK k \in 1..18 : InitialisedSoFar(k) /\ Step(a) = HalSteps[k]
    BY <1>1, RunsIs
  <1>3. k \in {7, 8, 12}
    BY <1>2, HalStepsAre
  <1>4. CASE k = 7
    <2>1. Step(a).what = "mode" /\ Step(a).values = {"xosc"}
      BY <1>2, <1>4, HalStepsAre
    <2> QED
      BY <1>2, <1>4, <2>1 DEF InitialisedSoFar
  <1>5. CASE k = 8
    <2>1. Step(a).what = "errors" /\ Step(a).values = {NO_ERRORS, "xosc_start"}
      BY <1>2, <1>5, HalStepsAre
    <2> QED
      BY <2>1 DEF HalInv, TypeOK, RadioType
  <1>6. CASE k = 12
    <2>1. Step(a).what = "errors" /\ Step(a).values = {NO_ERRORS}
      BY <1>2, <1>6, HalStepsAre
    <2> QED
      BY <1>2, <1>6, <2>1 DEF InitialisedSoFar
  <1> QED
    BY <1>3, <1>4, <1>5, <1>6

LEMMA KeptByTransfer ==
  ASSUME HalInv, NEW a \in Contexts, Transfer(a)
  PROVE  HalInv'
  <1> DEFINE sleeps == IsCommand(a, "SetRxDutyCycle")
             leaves == IsCommand(a, "SetStandby") \/ IsCommand(a, "SetStandbyXosc")
             reads == IsCommand(a, "GetIrqStatus")
  <1>1. /\ Runs(a) /\ at[a] = "transfer" /\ at' = [at EXCEPT ![a] = "release"]
        /\ irq' = IF reads THEN radio.flags ELSE irq
        /\ failed' = (Step(a).do = "expect" /\ radio[Step(a).what] \notin Step(a).values)
        /\ UNCHANGED <<todo, saved, radio>>
    BY DEF Transfer, Goto
  <1>2. mem' = [mem EXCEPT !.radioMaySleep = sleeps \/ (@ /\ ~leaves)]
    BY DEF Transfer
  <1>3. /\ mem' \in MemoryType /\ mem'.initialised = mem.initialised /\ mem'.nvic = mem.nvic
        /\ mem'.radioMaySleep <=> sleeps \/ (mem.radioMaySleep /\ ~leaves)
    <2>1. (sleeps \/ (mem.radioMaySleep /\ ~leaves)) \in BOOLEAN
      OBVIOUS
    <2> DEFINE may == sleeps \/ (mem.radioMaySleep /\ ~leaves)
    <2>2. may \in BOOLEAN /\ mem' = [mem EXCEPT !.radioMaySleep = may]
      BY <1>2, <2>1 DEF HalInv, TypeOK, MemoryType
    <2> HIDE DEF may
    <2>3. /\ mem' \in MemoryType /\ mem'.initialised = mem.initialised
          /\ mem'.nvic = mem.nvic /\ mem'.radioMaySleep = may
      BY <2>2 DEF HalInv, TypeOK, MemoryType
    <2> QED
      BY <2>3 DEF may
  <1>4. ~failed'
    BY <1>1, ExpectationsAreMet
  <1>5. failed' \in BOOLEAN
    BY <1>1
  <1>6. irq' \in SUBSET Indications
    BY <1>1 DEF HalInv, TypeOK, RadioType
  <1>7. /\ at'[a] = "release" /\ \A b \in Contexts : b # a => at'[b] = at[b]
        /\ at' \in [Contexts -> Places]
    BY <1>1 DEF HalInv, TypeOK, Places
  <1>8. /\ todo[a] # <<>> /\ \A b \in Contexts : b # a => ~Masks(b)
    BY <1>1, RunsIs
  <1>9. \A b \in Contexts : Masks(b)' <=> Masks(b)
    BY <1>1, <1>7 DEF Masks
  <1>10. TypeOK'
    BY <1>1, <1>3, <1>5, <1>6, <1>7 DEF HalInv, TypeOK
  <1>11. InterruptIsKept'
    <2>1. \A b \in Contexts : todo'[b] = <<>> => at'[b] = "next"
      BY <1>1, <1>7, <1>8 DEF HalInv, InterruptIsKept
    <2>2. "task" \in Contexts
      BY DEF Contexts
    <2> QED
      BY <1>1, <1>3, <1>9, <2>1, <2>2 DEF HalInv, InterruptIsKept
  <1>12. LineIsTrusted'
    <2>1. \A b \in Contexts : b # a => at'[b] \notin {"select", "transfer", "release", "window"}
      BY <1>7, <1>8 DEF Masks
    <2>2. radio.line = "ready"
      BY <1>1 DEF HalInv, LineIsTrusted
    <2>3. Leaves(a)' <=> leaves
      BY <1>1, <1>7 DEF Leaves, IsCommand, Step
    <2>4. radio.mode = "rxDutyCycle" => mem.radioMaySleep
      BY <1>1, <1>8 DEF HalInv, LineIsTrusted, Masks, Leaves
    <2>5. IsCommand(a, "SetRxDutyCycle")' <=> sleeps
      BY <1>1 DEF IsCommand, Step
    <2> HIDE DEF sleeps, leaves
    <2>6. radio'.mode = "rxDutyCycle" => mem'.radioMaySleep \/ \E b \in Contexts : Leaves(b)'
      BY <1>1, <1>3, <2>3, <2>4
    <2>7. \A b \in Contexts :
            (at[b] = "release" /\ IsCommand(b, "SetRxDutyCycle") => mem.radioMaySleep)'
      BY <1>3, <2>1, <2>5
    <2> QED
      BY <1>1, <1>7, <2>1, <2>2, <2>6, <2>7 DEF LineIsTrusted
  <1>13. Initialising'
    <2> SUFFICES ASSUME ~mem.initialised PROVE Initialising'
      BY <1>3 DEF Initialising
    <2>1. PICK k \in 1..18 : InitialisedSoFar(k) /\ Step(a) = HalSteps[k]
      BY <1>1, RunsIs
    <2>2. a = "task"
      BY <1>1, RunsIs DEF Contexts
    <2>3. k < 17
      BY <1>1, <2>1, <2>2 DEF InitialisedSoFar
    <2>4. InitialisedSoFar(k)'
      BY <1>1, <1>3, <1>7, <2>1, <2>2, <2>3 DEF InitialisedSoFar, Left
    <2>5. ~sleeps /\ ~reads
      <3>1. Step(a).do = "command" =>
              Step(a).name \in {"SetStandby", "SetStandbyXosc", "SetDio3AsTcxoCtrl",
                                "WriteRegister", "Cal", "SetRegMode", "SetPaCfg",
                                "SetRxTxFallbackMode", "SetDioIrqParams"}
        BY <2>1, HalStepsAre
      <3> QED
        BY <3>1 DEF IsCommand
    <2> HIDE DEF sleeps, leaves, reads
    <2>6. irq' = {} /\ ~mem'.radioMaySleep
      BY <1>1, <1>3, <2>5 DEF HalInv, Initialising
    <2>7. (todo["isr"] = <<>> /\ radio.flags = {} /\ ~saved["task"])'
          /\ radio'.mode \in {"sleep", "standby", "xosc"}
      BY <1>1 DEF HalInv, Initialising
    <2> QED
      BY <2>4, <2>6, <2>7 DEF Initialising
  <1> QED
    BY <1>4, <1>10, <1>11, <1>12, <1>13 DEF HalInv

(* The radio obeys. *)
LEMMA KeptByRelease ==
  ASSUME HalInv, NEW a \in Contexts, Release(a)
  PROVE  HalInv'
  <1>1. /\ Runs(a) /\ at[a] = "release" /\ at' = [at EXCEPT ![a] = "window"]
        /\ radio' = [Obey(Step(a)) EXCEPT !.line = "rising"]
        /\ UNCHANGED <<mem, todo, saved, irq, failed>>
    BY DEF Release, Goto
  <1> DEFINE s == Step(a)
  <1>2. s \in AnyStep
    BY <1>1, RunsIs
  <1>3. /\ radio' \in RadioType /\ radio'.line = "rising" /\ radio'.mode = Obey(s).mode
        /\ radio'.flags \subseteq radio.flags /\ radio'.errors = Obey(s).errors
    <2>1. radio \in RadioType
      BY DEF HalInv, TypeOK
    <2>2. Obey(s) \in RadioType /\ Obey(s).flags \subseteq radio.flags
      BY <1>2, <2>1, ObeyIs
    <2>3. radio' = [Obey(s) EXCEPT !.line = "rising"]
      BY <1>1
    <2> HIDE DEF s
    <2> QED
      BY <2>2, <2>3 DEF RadioType
  <1>4. /\ at'[a] = "window" /\ \A b \in Contexts : b # a => at'[b] = at[b]
        /\ at' \in [Contexts -> Places]
    BY <1>1 DEF HalInv, TypeOK, Places
  <1>5. /\ todo[a] # <<>> /\ ~failed /\ \A b \in Contexts : b # a => ~Masks(b)
    BY <1>1, RunsIs
  <1>6. \A b \in Contexts : Masks(b)' <=> Masks(b)
    BY <1>1, <1>4 DEF Masks
  <1>7. /\ s.do = "command" => radio'.mode = ModeAfter(s.name)
        /\ s.do = "wakeup" => radio'.mode = "standby"
        /\ s.do \notin {"command", "wakeup"} => radio'.mode = radio.mode
        /\ radio'.errors = IF s.do = "clearErrors" THEN NO_ERRORS ELSE radio.errors
    <2>1. radio \in RadioType
      BY DEF HalInv, TypeOK
    <2> HIDE DEF s
    <2> QED
      BY <1>2, <1>3, <2>1, ObeyIs
  <1>8. TypeOK'
    BY <1>1, <1>3, <1>4 DEF HalInv, TypeOK
  <1>9. InterruptIsKept'
    <2>1. \A b \in Contexts : todo'[b] = <<>> => at'[b] = "next"
      BY <1>1, <1>4, <1>5 DEF HalInv, InterruptIsKept
    <2>2. "task" \in Contexts
      BY DEF Contexts
    <2> QED
      BY <1>1, <1>6, <2>1, <2>2 DEF HalInv, InterruptIsKept
  <1>10. LineIsTrusted'
    <2>1. \A b \in Contexts : at'[b] \notin {"select", "transfer", "release"}
      BY <1>4, <1>5 DEF Masks
    <2>2. radio'.mode = "rxDutyCycle" => mem.radioMaySleep
      <3> SUFFICES ASSUME radio'.mode = "rxDutyCycle" PROVE mem.radioMaySleep
        OBVIOUS
      <3>1. CASE s.do = "command" /\ s.name = "SetRxDutyCycle"
        BY <1>1, <3>1 DEF HalInv, LineIsTrusted, IsCommand
      <3>2. CASE ~(s.do = "command" /\ s.name = "SetRxDutyCycle")
        <4>1. radio.mode = "rxDutyCycle" /\ (s.do = "command" =>
                                              s.name \notin {"SetStandby", "SetStandbyXosc"})
          BY <1>7, <3>2 DEF ModeAfter
        <4>2. \A b \in Contexts : ~Leaves(b)
          BY <1>5, <4>1 DEF Leaves, Masks, IsCommand
        <4> QED
          BY <4>1, <4>2 DEF HalInv, LineIsTrusted
      <3> QED
        BY <3>1, <3>2
    <2> QED
      BY <1>1, <1>4, <2>1, <2>2 DEF LineIsTrusted
  <1>11. Initialising'
    <2> SUFFICES ASSUME ~mem.initialised PROVE Initialising'
      BY <1>1 DEF Initialising
    <2>1. PICK k \in 1..18 : InitialisedSoFar(k) /\ s = HalSteps[k]
      BY <1>1, RunsIs
    <2>2. a = "task"
      BY <1>1, RunsIs DEF Contexts
    <2>3. k < 17
      BY <1>1, <2>1, <2>2 DEF InitialisedSoFar
    <2>4. /\ k = 6 => radio'.mode = "xosc"
          /\ k = 7 => radio'.mode = radio.mode
          /\ k = 9 => radio'.errors = NO_ERRORS
          /\ radio.errors = NO_ERRORS => radio'.errors = NO_ERRORS
      <3>1. k = 6 => s.do = "command" /\ s.name = "SetStandbyXosc"
        BY <2>1, HalStepsAre
      <3>2. k = 7 => s.do = "expect"
        BY <2>1, HalStepsAre
      <3>3. k = 9 => s.do = "clearErrors"
        BY <2>1, HalStepsAre
      <3> HIDE DEF s
      <3> QED
        BY <1>7, <3>1, <3>2, <3>3 DEF ModeAfter
    <2>5. InitialisedSoFar(k)'
      BY <1>1, <1>4, <2>1, <2>2, <2>3, <2>4 DEF InitialisedSoFar, Left
    <2>6. radio'.mode \in {"sleep", "standby", "xosc"}
      <3>1. radio.mode \in {"sleep", "standby", "xosc"}
        BY DEF HalInv, Initialising
      <3>2. s.do = "command" =>
              s.name \in {"SetStandby", "SetStandbyXosc", "SetDio3AsTcxoCtrl",
                          "WriteRegister", "Cal", "SetRegMode", "SetPaCfg",
                          "SetRxTxFallbackMode", "SetDioIrqParams"}
        BY <2>1, HalStepsAre
      <3> HIDE DEF s
      <3> QED
        BY <1>7, <3>1, <3>2 DEF ModeAfter
    <2>7. radio'.flags = {}
      BY <1>3 DEF HalInv, Initialising
    <2> QED
      BY <1>1, <2>5, <2>6, <2>7 DEF HalInv, Initialising
  <1> QED
    BY <1>1, <1>5, <1>8, <1>9, <1>10, <1>11 DEF HalInv

(* The end of a transaction: the busy line can be trusted, and the interrupt is restored. *)
LEMMA KeptByWindow ==
  ASSUME HalInv, NEW a \in Contexts, Window(a)
  PROVE  HalInv'
  <1>1. /\ Runs(a) /\ at[a] = "window" /\ radio.line # "rising"
        /\ at' = [at EXCEPT ![a] = "next"] /\ mem' = [mem EXCEPT !.nvic = @ \/ saved[a]]
        /\ todo' = [todo EXCEPT ![a] = Tail(@)] /\ UNCHANGED <<saved, irq, radio, failed>>
    BY DEF Window, Goto, RestoreRadioIrq, Finish
  <1>2. /\ at'[a] = "next" /\ \A b \in Contexts : b # a => at'[b] = at[b]
        /\ at' \in [Contexts -> Places]
    BY <1>1 DEF HalInv, TypeOK, Places
  <1>3. /\ DOMAIN todo' = Contexts /\ todo' = [b \in Contexts |-> todo'[b]]
        /\ todo'[a] = Tail(todo[a]) /\ \A b \in Contexts : b # a => todo'[b] = todo[b]
    BY <1>1 DEF HalInv, TypeOK
  <1>4. /\ todo[a] # <<>> /\ ~failed /\ \A b \in Contexts : b # a => ~Masks(b)
    BY <1>1, RunsIs
  <1>5. mem.nvic = FALSE /\ saved[a] \in BOOLEAN
    BY <1>1 DEF HalInv, InterruptIsKept, Masks, TypeOK, MemoryType
  <1>6. /\ mem'.nvic = saved[a] /\ mem' \in MemoryType
        /\ mem'.initialised = mem.initialised /\ mem'.radioMaySleep = mem.radioMaySleep
    BY <1>1, <1>5 DEF HalInv, TypeOK, MemoryType
  <1>7. \A b \in Contexts : ~Masks(b)'
    BY <1>2, <1>4 DEF Masks
  <1>8. TypeOK'
    <2>1. mem.initialised => Tail(todo[a]) \in Seq(Ordinary)
      BY <1>1, RunsIs
    <2>2. a = "isr" => mem.initialised
      BY <1>1, RunsIs
    <2>3. todo'["isr"] \in Seq(Ordinary)
      BY <1>3, <2>1, <2>2 DEF HalInv, TypeOK, Contexts
    <2>4. mem.initialised => todo'["task"] \in Seq(Ordinary)
      BY <1>3, <2>1, <2>2 DEF HalInv, TypeOK, Contexts
    <2> QED
      BY <1>1, <1>2, <1>3, <1>6, <2>3, <2>4 DEF HalInv, TypeOK
  <1>9. InterruptIsKept'
    <2>1. \A b \in Contexts : todo'[b] = <<>> => at'[b] = "next"
      BY <1>2, <1>3 DEF HalInv, InterruptIsKept
    <2>2. ~Masks("task")'
      BY <1>7 DEF Contexts
    <2>3. mem.initialised => saved[a] = TRUE
      BY <1>1, <1>5 DEF HalInv, InterruptIsKept, Masks
    <2> QED
      BY <1>6, <1>7, <2>1, <2>2, <2>3 DEF InterruptIsKept
  <1>10. LineIsTrusted'
    <2>1. \A b \in Contexts : at'[b] \notin {"select", "transfer", "release"}
      BY <1>2, <1>4 DEF Masks
    <2>2. radio.mode = "rxDutyCycle" => mem.radioMaySleep
      BY <1>1, <1>4 DEF HalInv, LineIsTrusted, Masks, Leaves
    <2> QED
      BY <1>1, <1>6, <2>1, <2>2 DEF LineIsTrusted
  <1>11. Initialising'
    <2> SUFFICES ASSUME ~mem.initialised PROVE Initialising'
      BY <1>6 DEF Initialising
    <2>1. PICK k \in 1..18 : InitialisedSoFar(k) /\ Step(a) = HalSteps[k]
      BY <1>1, RunsIs
    <2>2. a = "task"
      BY <1>1, RunsIs DEF Contexts
    <2>3. k < 17 /\ k + 1 \in 1..18 /\ saved[a] = FALSE
      BY <1>1, <1>5, <2>1, <2>2 DEF InitialisedSoFar, HalInv, Initialising
    <2>4. todo'["task"] = Left(k + 1)
      <3>1. todo["task"] = Left(k)
        BY <2>1 DEF InitialisedSoFar
      <3>2. Tail(Left(k)) = Left(k + 1)
        <4>1. k \in 1..17
          BY <2>3
        <4> QED
          BY <4>1, LeftGoesOn
      <3> QED
        BY <1>3, <2>2, <3>1, <3>2
    <2>5. todo'["isr"] = <<>>
      BY <1>3, <2>2 DEF HalInv, Initialising, Contexts
    <2>6. InitialisedSoFar(k + 1)'
      <3>1. (k + 1 = 18 <=> mem'.nvic)
        BY <1>6, <2>3
      <3>2. k + 1 = 7 => radio.mode = "xosc"
        BY <1>1, <2>1, <2>2 DEF InitialisedSoFar
      <3>3. k + 1 >= 10 => radio.errors = NO_ERRORS
        BY <1>1, <2>1, <2>2 DEF InitialisedSoFar
      <3>4. Left(k + 1)' = Left(k + 1)
        BY DEF Left
      <3> QED
        BY <1>1, <1>2, <2>2, <2>3, <2>4, <3>1, <3>2, <3>3, <3>4 DEF InitialisedSoFar
    <2>7. \E n \in 1..18 : InitialisedSoFar(n)'
      BY <2>3, <2>6
    <2> QED
      BY <1>1, <1>6, <2>5, <2>7 DEF HalInv, Initialising
  <1> QED
    BY <1>1, <1>4, <1>8, <1>9, <1>10, <1>11 DEF HalInv

(* A step without a transaction, once the HAL is initialised: memory and programs change. *)
LEMMA Computes ==
  ASSUME HalInv, mem.initialised, NEW a \in Contexts, Runs(a), at[a] = "next",
         NEW p \in Programs, todo' = [todo EXCEPT ![a] = p],
         mem' \in MemoryType, UNCHANGED <<mem.nvic, mem.radioMaySleep, mem.initialised>>,
         UNCHANGED <<at, saved, irq, radio, failed>>
  PROVE  HalInv'
  <1>1. /\ DOMAIN todo' = Contexts /\ todo' = [b \in Contexts |-> todo'[b]]
        /\ todo'[a] = p /\ \A b \in Contexts : b # a => todo'[b] = todo[b]
    BY DEF HalInv, TypeOK
  <1>2. /\ todo[a] # <<>> /\ ~failed /\ \A b \in Contexts : ~Masks(b)
    BY RunsIs DEF Masks
  <1>3. \A b \in Contexts : ~Masks(b)'
    BY <1>2 DEF Masks
  <1>4. TypeOK'
    <2>1. todo'["isr"] \in Seq(Ordinary) /\ todo'["task"] \in Seq(Ordinary)
      BY <1>1 DEF HalInv, TypeOK, Contexts, Programs
    <2> QED
      BY <1>1, <2>1 DEF HalInv, TypeOK
  <1>5. InterruptIsKept'
    <2>1. \A b \in Contexts : todo'[b] = <<>> => at'[b] = "next"
      BY <1>1 DEF HalInv, InterruptIsKept
    <2>2. ~Masks("task")'
      BY <1>3 DEF Contexts
    <2>3. mem.nvic = TRUE
      BY <1>2 DEF HalInv, InterruptIsKept, TypeOK, MemoryType
    <2> QED
      BY <1>3, <2>1, <2>2, <2>3 DEF InterruptIsKept
  <1>6. LineIsTrusted'
    <2>1. \A b \in Contexts : at'[b] \notin {"select", "transfer", "release", "window"}
      BY <1>2 DEF Masks
    <2>2. radio.mode = "rxDutyCycle" => mem.radioMaySleep
      BY <1>2 DEF HalInv, LineIsTrusted, Masks, Leaves
    <2>3. radio.line # "rising"
      BY <1>2 DEF HalInv, LineIsTrusted, Masks
    <2> QED
      BY <2>1, <2>2, <2>3 DEF LineIsTrusted
  <1>7. Initialising'
    BY DEF Initialising
  <1> QED
    BY <1>2, <1>4, <1>5, <1>6, <1>7 DEF HalInv

LEMMA KeptByCompute ==
  ASSUME HalInv, NEW a \in Contexts, Compute(a)
  PROVE  HalInv'
  <1>1. Runs(a) /\ at[a] = "next" /\ UNCHANGED <<at, saved, irq, radio, failed>>
    BY DEF Compute
  <1>2. /\ todo[a] # <<>> /\ ~failed /\ \A b \in Contexts : ~Masks(b)
    BY <1>1, RunsIs DEF Masks
  <1>3. CASE mem.initialised
    <2>1. Step(a) \in Ordinary /\ Tail(todo[a]) \in Programs
      BY <1>1, <1>3, RunsIs DEF Programs
    <2>2. CASE Step(a).do = "assign" /\ mem' = [mem EXCEPT ![Step(a).variable] = Step(a).value]
               /\ Finish(a)
      <3>1. Step(a) \in Assignment /\ mem \in MemoryType
        BY <2>1, <2>2, OrdinaryIs DEF HalInv, TypeOK
      <3>2. mem' \in MemoryType /\ UNCHANGED <<mem.nvic, mem.radioMaySleep, mem.initialised>>
        BY <2>2, <3>1, AssignmentKeeps, Zenon
      <3>3. todo' = [todo EXCEPT ![a] = Tail(todo[a])]
        BY <2>2 DEF Finish
      <3> QED
        BY <1>1, <1>3, <2>1, <3>2, <3>3, Computes
    <2>3. CASE Finish(a) /\ UNCHANGED mem
      <3>1. todo' = [todo EXCEPT ![a] = Tail(todo[a])]
        BY <2>3 DEF Finish
      <3>2. mem' \in MemoryType /\ UNCHANGED <<mem.nvic, mem.radioMaySleep, mem.initialised>>
        BY <2>3 DEF HalInv, TypeOK
      <3> QED
        BY <1>1, <1>3, <2>1, <3>1, <3>2, Computes
    <2>4. CASE todo' = [todo EXCEPT ![a] = Callbacks] /\ UNCHANGED mem
      <3>1. Callbacks \in Programs
        BY CallbacksAre DEF HalInv, TypeOK, MemoryType
      <3>2. mem' \in MemoryType /\ UNCHANGED <<mem.nvic, mem.radioMaySleep, mem.initialised>>
        BY <2>4 DEF HalInv, TypeOK
      <3> QED
        BY <1>1, <1>3, <2>4, <3>1, <3>2, Computes
    <2> QED
      BY <2>2, <2>3, <2>4, Zenon DEF Compute
  <1>4. CASE ~mem.initialised
    <2>1. PICK k \in 1..18 : InitialisedSoFar(k) /\ Step(a) = HalSteps[k]
      BY <1>1, <1>4, RunsIs
    <2>2. a = "task"
      BY <1>1, <1>4, RunsIs DEF Contexts
    <2>3. Step(a).do \notin {"clearRead", "callBack"}
      BY <2>1, HalStepsAre
    <2>4. Finish(a)
      BY <2>3 DEF Compute
    <2>5. /\ DOMAIN todo' = Contexts /\ todo' = [b \in Contexts |-> todo'[b]]
          /\ todo'["task"] = Tail(Left(k)) /\ todo'["isr"] = <<>>
      BY <1>4, <2>1, <2>2, <2>4
      DEF Finish, HalInv, TypeOK, Initialising, InitialisedSoFar, Contexts
    <2>6. <<>> \in Seq(Ordinary)
      OBVIOUS
    <2>7. \A b \in Contexts : todo'[b] = <<>> => at'[b] = "next"
      BY <1>1, <1>4, <2>2 DEF HalInv, InterruptIsKept, Initialising, Contexts
    <2>8. LineIsTrusted /\ \A b \in Contexts : at[b] \notin {"select", "transfer", "release",
                                                             "window"}
      BY <1>2 DEF HalInv, Masks
    <2>9. \A b \in Contexts : ~Masks(b)'
      BY <1>1, <1>2 DEF Masks
    <2>10. "task" \in Contexts
      BY DEF Contexts
    <2>11. CASE k = 18
      <3>1. Step(a) = [do |-> "assign", variable |-> "initialised", value |-> TRUE]
        BY <2>1, <2>11, HalStepsAre
      <3>2. mem' = [mem EXCEPT !.initialised = TRUE]
        BY <3>1 DEF Compute
      <3>3. /\ mem' \in MemoryType /\ mem'.nvic = mem.nvic /\ mem'.initialised = TRUE
            /\ mem'.radioMaySleep = mem.radioMaySleep
        BY <3>2 DEF HalInv, TypeOK, MemoryType
      <3>4. todo'["task"] = <<>> /\ mem.nvic = TRUE
        BY <2>1, <2>5, <2>11, LeftIs DEF InitialisedSoFar, HalInv, TypeOK, MemoryType
      <3>5. TypeOK'
        BY <1>1, <2>5, <2>6, <3>3, <3>4 DEF HalInv, TypeOK
      <3>6. InterruptIsKept'
        BY <2>7, <2>9, <2>10, <3>3, <3>4 DEF InterruptIsKept
      <3>7. LineIsTrusted'
        BY <1>1, <2>8, <3>3 DEF LineIsTrusted, Leaves
      <3>8. Initialising'
        BY <3>3 DEF Initialising
      <3> QED
        BY <1>1, <1>2, <3>5, <3>6, <3>7, <3>8 DEF HalInv
    <2>12. CASE k < 18
      <3>1. k + 1 \in 1..18 /\ todo'["task"] = Left(k + 1)
        <4>1. k \in 1..17
          BY <2>12
        <4> QED
          BY <2>5, <4>1, LeftGoesOn, Zenon
      <3>2. /\ mem' \in MemoryType /\ mem'.initialised = FALSE
            /\ mem'.radioMaySleep = mem.radioMaySleep
            /\ mem'.nvic = IF k = 17 THEN TRUE ELSE mem.nvic
        <4>0. mem \in MemoryType
          BY DEF HalInv, TypeOK
        <4>1. CASE k = 17
          <5>1. Step(a) = [do |-> "assign", variable |-> "nvic", value |-> TRUE]
            BY <2>1, <4>1, HalStepsAre
          <5>2. mem' = [mem EXCEPT !.nvic = TRUE]
            BY <5>1 DEF Compute
          <5> QED
            BY <1>4, <4>0, <4>1, <5>2 DEF MemoryType
        <4>2. CASE k = 1
          <5>1. Step(a) = [do |-> "assign", variable |-> "rf_switch", value |-> "rx"]
            BY <2>1, <4>2, HalStepsAre
          <5>2. mem' = [mem EXCEPT !.rf_switch = "rx"]
            BY <5>1 DEF Compute
          <5> QED
            BY <1>4, <4>0, <4>2, <5>2 DEF MemoryType
        <4>3. CASE k \notin {1, 17}
          <5>1. Step(a).do # "assign"
            BY <2>1, <2>12, <4>3, HalStepsAre
          <5>2. UNCHANGED mem
            BY <5>1 DEF Compute
          <5> QED
            BY <1>4, <4>0, <4>3, <5>2 DEF MemoryType
        <4> QED
          BY <4>1, <4>2, <4>3
      <3>3. k = 9 => radio.errors = NO_ERRORS
        <4>1. k = 9 => Step(a).do = "clearErrors"
          BY <2>1, HalStepsAre
        <4> QED
          BY <4>1 DEF Compute
      <3>4. k # 6
        <4>1. k = 6 => Step(a).do = "command"
          BY <2>1, HalStepsAre
        <4> QED
          BY <4>1 DEF Compute
      <3>5. at'["task"] = "next"
        BY <1>1, <2>2
      <3>6. k + 1 = 18 <=> mem'.nvic
        <4>1. ~mem.nvic
          BY <2>1, <2>12 DEF InitialisedSoFar
        <4> QED
          BY <2>12, <3>2, <4>1
      <3>7. k + 1 >= 10 => radio.errors = NO_ERRORS
        BY <2>1, <3>3 DEF InitialisedSoFar
      <3>8. InitialisedSoFar(k + 1)'
        <4>1. Left(k + 1)' = Left(k + 1)
          BY DEF Left
        <4>2. ~(k + 1 = 7) /\ (k + 1 = 9 => at'["task"] # "window")
          BY <3>4, <3>5
        <4> QED
          BY <1>1, <3>1, <3>5, <3>6, <3>7, <4>1, <4>2 DEF InitialisedSoFar
      <3>9. \E n \in 1..18 : InitialisedSoFar(n)'
        BY <3>1, <3>8
      <3>10. TypeOK'
        BY <1>1, <2>5, <2>6, <3>2 DEF HalInv, TypeOK
      <3>11. InterruptIsKept'
        BY <2>5, <2>7, <2>9, <2>10, <3>2 DEF InterruptIsKept
      <3>12. LineIsTrusted'
        BY <1>1, <2>8, <3>2 DEF LineIsTrusted, Leaves
      <3>13. Initialising'
        BY <1>1, <1>4, <2>5, <3>2, <3>9 DEF HalInv, Initialising
      <3> QED
        BY <1>1, <1>2, <3>10, <3>11, <3>12, <3>13 DEF HalInv
    <2> QED
      BY <2>11, <2>12
  <1> QED
    BY <1>3, <1>4

(* The requests, the interrupt and the radio. *)
LEMMA KeptByRequests ==
  ASSUME HalInv, HandleRequest \/ SUBGHZ_Radio_IRQHandler
  PROVE  HalInv'
  <1>1. UNCHANGED <<mem, at, saved, irq, radio, failed>> /\ ~failed /\ todo["isr"] = <<>>
    BY DEF HandleRequest, SUBGHZ_Radio_IRQHandler
  <1>2. mem.initialised
    <2>1. CASE HandleRequest
      BY <2>1 DEF HandleRequest
    <2>2. CASE SUBGHZ_Radio_IRQHandler
      BY <2>2 DEF SUBGHZ_Radio_IRQHandler, HalInv, Initialising
    <2> QED
      BY <2>1, <2>2
  <1>3. /\ DOMAIN todo' = Contexts /\ todo' = [b \in Contexts |-> todo'[b]]
        /\ todo'["isr"] \in Seq(Ordinary) /\ todo'["task"] \in Seq(Ordinary)
        /\ \A b \in Contexts : todo'[b] = <<>> => todo[b] = <<>>
        /\ todo'["isr"] # <<>> => ~Masks("task")
        /\ \A b \in Contexts : at[b] # "next" => todo'[b] = todo[b]
    <2>1. CASE HandleRequest
      <3>1. PICK h \in Handlers : todo' = [todo EXCEPT !["task"] = h]
        BY <2>1 DEF HandleRequest
      <3>2. todo["task"] = <<>> /\ todo["isr"] = <<>> /\ at["task"] = "next"
        BY <2>1 DEF HandleRequest, HalInv, InterruptIsKept, Contexts
      <3>3. h \in Seq(Ordinary)
        BY HandlersAre DEF HalInv, TypeOK, MemoryType, Programs
      <3> QED
        BY <3>1, <3>2, <3>3 DEF HalInv, TypeOK, Contexts
    <2>2. CASE SUBGHZ_Radio_IRQHandler
      <3> DEFINE handler == Command("GetIrqStatus") \o ClearRead \o CallBack
      <3>1. todo' = [todo EXCEPT !["isr"] = handler] /\ mem.nvic /\ todo["isr"] = <<>>
        BY <2>2 DEF SUBGHZ_Radio_IRQHandler
      <3>2. handler \in Seq(Ordinary)
        BY Pieces, CommandsAre DEF Programs
      <3>3. ~Masks("task") /\ at["isr"] = "next"
        BY <3>1 DEF HalInv, InterruptIsKept, Contexts
      <3>4. todo["task"] \in Seq(Ordinary)
        BY <1>2 DEF HalInv, TypeOK
      <3> HIDE DEF handler
      <3> QED
        BY <3>1, <3>2, <3>3, <3>4 DEF HalInv, TypeOK, Contexts
    <2> QED
      BY <2>1, <2>2
  <1>4. TypeOK'
    BY <1>1, <1>3 DEF HalInv, TypeOK
  <1>5. \A b \in Contexts : Masks(b)' <=> Masks(b)
    BY <1>1 DEF Masks
  <1>6. InterruptIsKept'
    BY <1>1, <1>3, <1>5 DEF HalInv, InterruptIsKept, Contexts
  <1>7. LineIsTrusted'
    <2>1. \A b \in Contexts : at[b] # "next" => Step(b)' = Step(b)
      BY <1>3 DEF Step
    <2>2. \A b \in Contexts : Leaves(b) => Leaves(b)'
      BY <1>1, <2>1 DEF Leaves, IsCommand
    <2>3. \A b \in Contexts :
            /\ (at[b] = "select" /\ ~WakesRadio(b))' => at[b] = "select" /\ ~WakesRadio(b)
            /\ (at[b] = "release" /\ IsCommand(b, "SetRxDutyCycle"))' =>
                 at[b] = "release" /\ IsCommand(b, "SetRxDutyCycle")
      BY <1>1, <2>1 DEF WakesRadio, IsCommand
    <2> QED
      BY <1>1, <2>2, <2>3 DEF HalInv, LineIsTrusted
  <1>8. Initialising'
    BY <1>1, <1>2 DEF Initialising
  <1> QED
    BY <1>1, <1>4, <1>6, <1>7, <1>8 DEF HalInv

LEMMA KeptByRadio ==
  ASSUME HalInv, RadioSettles \/ RadioDozes \/ RadioEnds
  PROVE  HalInv'
  <1>1. UNCHANGED <<mem, todo, at, saved, irq, failed>> /\ ~failed
    BY DEF RadioSettles, RadioDozes, RadioEnds
  <1>2. /\ radio' \in RadioType
        /\ radio'.line = "rising" => radio.line = "rising"
        /\ radio'.mode = "rxDutyCycle" => radio.mode = "rxDutyCycle"
        /\ radio.line = "ready" /\ radio'.line # "ready" =>
             radio.mode = "rxDutyCycle" /\ ~Selected
        /\ \/ radio'.mode = radio.mode /\ radio'.flags = radio.flags
           \/ radio.mode \notin {"sleep", "standby", "xosc"}
        /\ radio'.errors = radio.errors
    <2>1. CASE RadioSettles
      <3>1. \/ radio.line = "rising" /\ radio' = [radio EXCEPT !.line = "busy"]
            \/ radio.line = "busy" /\ radio' = [radio EXCEPT !.line = "ready"]
        BY <2>1 DEF RadioSettles
      <3> QED
        BY <3>1 DEF HalInv, TypeOK, RadioType
    <2>2. CASE RadioDozes
      <3>1. /\ radio.mode = "rxDutyCycle" /\ ~Selected
            /\ \/ radio.line = "ready" /\ radio' = [radio EXCEPT !.line = "asleep"]
               \/ radio.line = "asleep" /\ radio' = [radio EXCEPT !.line = "ready"]
        BY <2>2 DEF RadioDozes
      <3> QED
        BY <3>1 DEF HalInv, TypeOK, RadioType
    <2>3. CASE RadioEnds
      <3>1. PICK end \in Ends : radio' = [radio EXCEPT !.flags = @ \cup end[1], !.mode = end[2]]
        BY <2>3 DEF RadioEnds
      <3>2. /\ end[1] \in SUBSET Indications /\ end[2] \in Modes /\ end[2] # "rxDutyCycle"
            /\ radio.mode \notin {"sleep", "standby", "xosc"}
        BY DEF Ends, Indications, Modes
      <3> QED
        BY <3>1, <3>2 DEF HalInv, TypeOK, RadioType
    <2> QED
      BY <2>1, <2>2, <2>3
  <1>3. TypeOK'
    BY <1>1, <1>2 DEF HalInv, TypeOK
  <1>4. InterruptIsKept'
    BY <1>1 DEF HalInv, InterruptIsKept, Masks
  <1>5. LineIsTrusted'
    <2>1. \A b \in Contexts :
            /\ WakesRadio(b)' <=> WakesRadio(b)
            /\ Leaves(b)' <=> Leaves(b)
            /\ IsCommand(b, "SetRxDutyCycle")' <=> IsCommand(b, "SetRxDutyCycle")
      BY <1>1 DEF WakesRadio, Leaves, IsCommand, Step
    <2>2. ASSUME NEW b \in Contexts, at[b] = "select", ~WakesRadio(b)
          PROVE  radio'.line = "ready"
      <3>1. radio.line = "ready" /\ ~mem.radioMaySleep
        BY <2>2 DEF HalInv, LineIsTrusted, WakesRadio
      <3>2. radio.mode = "rxDutyCycle" => Selected
        BY <3>1 DEF HalInv, LineIsTrusted, Leaves, Selected
      <3> QED
        BY <1>2, <3>1, <3>2
    <2>3. ASSUME NEW b \in Contexts, at[b] = "transfer"
          PROVE  radio'.line = "ready"
      <3>1. radio.line = "ready" /\ Selected
        BY <2>3 DEF HalInv, LineIsTrusted, Selected
      <3> QED
        BY <1>2, <3>1
    <2> QED
      BY <1>1, <1>2, <2>1, <2>2, <2>3 DEF HalInv, LineIsTrusted
  <1>6. Initialising'
    <2> SUFFICES ASSUME ~mem.initialised PROVE Initialising'
      BY <1>1 DEF Initialising
    <2>1. radio'.mode = radio.mode /\ radio'.flags = radio.flags
      BY <1>2 DEF HalInv, Initialising
    <2>2. \A k \in 1..18 : InitialisedSoFar(k)' <=> InitialisedSoFar(k)
      BY <1>1, <1>2, <2>1 DEF InitialisedSoFar, Left
    <2> QED
      BY <1>1, <2>1, <2>2 DEF HalInv, Initialising
  <1> QED
    BY <1>1, <1>3, <1>4, <1>5, <1>6 DEF HalInv

-----------------------------------------------------------------------------
(* The theorems. *)

LEMMA HalInvHoldsAtFirst == Init => HalInv
  <1> SUFFICES ASSUME Init PROVE HalInv
    OBVIOUS
  <1>1. /\ mem = [nvic |-> FALSE, radioMaySleep |-> FALSE, transmitting |-> FALSE,
                  radioOperationActive |-> FALSE, rf_switch |-> "rx", initialised |-> FALSE,
                  configuration |-> NoConfiguration, active_operation |-> "IDLE"]
        /\ todo = [task |-> HalInit, isr |-> <<>>]
        /\ at = [a \in Contexts |-> "next"] /\ saved = [a \in Contexts |-> FALSE]
        /\ irq = {} /\ failed = FALSE
    BY Zenon DEF Init
  <1>2. PICK errors \in {NO_ERRORS, "xosc_start"} :
          radio = [line |-> "asleep", mode |-> "sleep", flags |-> {}, errors |-> errors,
                   registers |-> [r \in Registers |-> IF r = "packet_parameters"
                                                      THEN NoParameters ELSE NoConfiguration]]
    BY Zenon DEF Init
  <1>3. todo["task"] = HalInit /\ todo["isr"] = <<>>
        /\ DOMAIN todo = Contexts /\ todo = [a \in Contexts |-> todo[a]]
    BY <1>1, Zenon DEF Contexts
  <1>4. NoConfiguration \in Configured /\ NoConfiguration \in Values /\ NoParameters \in Values
    <2>1. NoParameters = [configuration |-> NoConfiguration, length |-> 0]
          /\ NoConfiguration \in Configured
      BY DEF NoParameters, Configured
    <2> QED
      BY <2>1, Zenon DEF Values
  <1>5. mem \in MemoryType /\ ~mem.nvic /\ ~mem.initialised /\ ~mem.radioMaySleep
    BY <1>1, <1>4 DEF MemoryType, Operations
  <1>6. /\ radio \in RadioType /\ radio.line = "asleep" /\ radio.mode = "sleep"
        /\ radio.flags = {}
    <2> DEFINE registers == [r \in Registers |-> IF r = "packet_parameters"
                                                 THEN NoParameters ELSE NoConfiguration]
    <2>1. registers \in [Registers -> Values]
      BY <1>4
    <2> HIDE DEF registers
    <2>2. radio = [line |-> "asleep", mode |-> "sleep", flags |-> {}, errors |-> errors,
                   registers |-> registers]
      BY <1>2, Zenon DEF registers
    <2> QED
      BY <2>1, <2>2 DEF RadioType, Modes
  <1>7. HalInit = Left(1)
    <2>1. HalInit \in Seq(AnyStep) /\ Len(HalInit) = 18
      BY HalInitIs DEF Prefix
    <2> DEFINE n == Len(HalInit)
    <2>2. SubSeq(HalInit, 1, n) = HalInit
      <3> HIDE DEF n
      <3>1. HalInit \in Seq(AnyStep) /\ n = Len(HalInit)
        BY <2>1 DEF n
      <3> HIDE DEF HalInit
      <3> QED
        BY <3>1
    <2> QED
      BY <2>1, <2>2 DEF Left
  <1>8. TypeOK
    <2>1. at \in [Contexts -> Places] /\ saved \in [Contexts -> BOOLEAN]
      BY <1>1 DEF Places
    <2>2. irq \in SUBSET Indications /\ failed \in BOOLEAN
      BY <1>1
    <2>3. todo["isr"] \in Seq(Ordinary)
      <3>1. <<>> \in Seq(Ordinary)
        OBVIOUS
      <3> QED
        BY <1>3, <3>1, Zenon
    <2> QED
      BY <1>3, <1>5, <1>6, <2>1, <2>2, <2>3, Zenon DEF TypeOK
  <1>9. InterruptIsKept
    BY <1>1, <1>5 DEF InterruptIsKept, Masks, Contexts
  <1>10. LineIsTrusted
    BY <1>1, <1>6 DEF LineIsTrusted
  <1>11. Initialising
    <2>1. InitialisedSoFar(1)
      BY <1>1, <1>3, <1>5, <1>7 DEF InitialisedSoFar, Contexts
    <2> QED
      BY <1>1, <1>3, <1>5, <1>6, <2>1 DEF Initialising, Contexts
  <1> QED
    BY <1>1, <1>8, <1>9, <1>10, <1>11 DEF HalInv

LEMMA HalInvIsKept == HalInv /\ [Next]_vars => HalInv'
  <1> SUFFICES ASSUME HalInv, [Next]_vars PROVE HalInv'
    OBVIOUS
  <1>1. CASE \E a \in Contexts : Context(a)
    <2>1. PICK a \in Contexts : Context(a)
      BY <1>1
    <2> QED
      BY <2>1, KeptByCompute, KeptByMoves, KeptByMask, KeptByCheck, KeptBySelect,
         KeptByTransfer, KeptByRelease, KeptByWindow DEF Context
  <1>2. CASE HandleRequest \/ SUBGHZ_Radio_IRQHandler
    BY <1>2, KeptByRequests
  <1>3. CASE RadioSettles \/ RadioDozes \/ RadioEnds
    BY <1>3, KeptByRadio
  <1>4. CASE UNCHANGED vars
    <2>1. UNCHANGED <<mem, todo, at, saved, irq, radio, failed>>
      BY <1>4 DEF vars
    <2>2. TypeOK'
      BY <2>1 DEF HalInv, TypeOK
    <2>3. InterruptIsKept'
      BY <2>1 DEF HalInv, InterruptIsKept, Masks
    <2>4. LineIsTrusted'
      BY <2>1 DEF HalInv, LineIsTrusted, Leaves, IsCommand, Step, WakesRadio
    <2>5. Initialising'
      BY <2>1 DEF HalInv, Initialising, InitialisedSoFar, Left
    <2> QED
      BY <2>1, <2>2, <2>3, <2>4, <2>5 DEF HalInv
  <1> QED
    BY <1>1, <1>2, <1>3, <1>4 DEF Next

(* The memory of the HAL, the radio and the two contexts keep their types: every program is
   made of steps the HAL has, every register written is one of the radio, and every mode,
   indication and error is one it gives. *)
THEOREM HalTypeCorrect == Spec => []TypeOK
  <1>1. HalInv => TypeOK
    BY DEF HalInv
  <1> QED
    BY <1>1, HalInvHoldsAtFirst, HalInvIsKept, PTL DEF Spec

(* One user of the bus at a time, with the radio interrupt masked; bytes only to a radio that
   is ready; between transactions the interrupt is enabled; and no assertion of
   rfManagerHal_init() fails. *)
THEOREM TransactionsExclude == Spec => []TransactionsAreSound
  <1>1. ASSUME HalInv PROVE TransactionsAreSound
    <2>1. \A a \in Contexts : Holds(a) => Masks(a)
      BY DEF Holds, Masks
    <2>2. ~(\A a \in Contexts : Holds(a))
      <3> SUFFICES ASSUME Holds("task"), Holds("isr") PROVE FALSE
        BY DEF Contexts
      <3>1. todo["isr"] # <<>>
        BY <1>1 DEF HalInv, InterruptIsKept, Holds, Contexts
      <3>2. Masks("task")
        BY <2>1 DEF Contexts
      <3> QED
        BY <1>1, <3>1, <3>2 DEF HalInv, InterruptIsKept
    <2>3. \A a \in Contexts : /\ Holds(a) => ~mem.nvic
                              /\ at[a] = "transfer" => radio.line = "ready"
      BY <1>1, <2>1 DEF HalInv, InterruptIsKept, LineIsTrusted
    <2>4. ASSUME todo["isr"] = <<>>, at["task"] \in {"next", "poll", "mask"}, mem.initialised
          PROVE  mem.nvic
      <3>1. ~Masks("task") /\ at["isr"] = "next"
        BY <1>1, <2>4 DEF HalInv, InterruptIsKept, Masks, Contexts
      <3>2. \A a \in Contexts : ~Masks(a)
        BY <3>1 DEF Contexts, Masks
      <3> QED
        BY <1>1, <2>4, <3>2 DEF HalInv, InterruptIsKept
    <2> QED
      BY <1>1, <2>2, <2>3, <2>4 DEF HalInv, TransactionsAreSound
  <1> QED
    BY <1>1, HalInvHoldsAtFirst, HalInvIsKept, PTL DEF Spec


-----------------------------------------------------------------------------
(***************************************************************************)
(* What the radio is programmed with.  Four parts of the state matter, and *)
(* what each context has left to do to them: in its last place a step of   *)
(* the program has had its effect.                                         *)
(***************************************************************************)
View == [configuration |-> mem.configuration, active |-> mem.radioOperationActive,
         mode |-> radio.mode, registers |-> radio.registers]
ViewType == [configuration : Configured, active : BOOLEAN, mode : Modes,
             registers : [Registers -> Values]]
Rest(a) == IF at[a] = "window" THEN Tail(todo[a]) ELSE todo[a]

Set(variable, value) == [do |-> "assign", variable |-> variable, value |-> value]
Send(name) == [do |-> "command", name |-> name]
Write(r, value) == [do |-> "program", register |-> r, value |-> value]
On == Set("radioOperationActive", TRUE)
Off == Set("radioOperationActive", FALSE)
NotTransmitting == Set("transmitting", FALSE)
Parameters(c, n) == Write("packet_parameters", [configuration |-> c, length |-> n])

(* A view after a step. *)
CommandedMode(name, mode) ==
  CASE name = "SetStandby" -> "standby" [] name = "SetStandbyXosc" -> "xosc"
    [] name = "SetTx" -> "tx"
    [] name \in {"SetTxCw", "SetTxInfinitePreamble"} -> "carrier"
    [] name = "SetRx" -> "rx" [] name = "SetRxContinuous" -> "rxContinuous"
    [] name = "SetRxDutyCycle" -> "rxDutyCycle" [] name = "SetCad" -> "cad"
    [] OTHER -> mode
After(v, s) ==
  [configuration |-> IF s.do = "assign" /\ s.variable = "configuration"
                     THEN s.value ELSE v.configuration,
   active |-> IF s.do = "assign" /\ s.variable = "radioOperationActive"
              THEN s.value ELSE v.active,
   mode |-> IF s.do = "command" THEN CommandedMode(s.name, v.mode)
            ELSE IF s.do = "wakeup" THEN "standby" ELSE v.mode,
   registers |-> IF s.do = "program" THEN [v.registers EXCEPT ![s.register] = s.value]
                 ELSE IF s.do = "command" /\ s.name = "SetPacketType"
                 THEN [v.registers EXCEPT !.modulation = NoConfiguration,
                                          !.packet_parameters = NoParameters]
                 ELSE v.registers]

(* The registers of the configuration in force. *)
Needed(c) == {"rf_frequency", "modulation", "tx_parameters", "packet_parameters"}
             \cup {RegistersOf(c.type)[i] : i \in DOMAIN RegistersOf(c.type)}
ValueOf(r, c) == IF r = "packet_parameters" THEN [configuration |-> c, length |-> c.length]
                 ELSE c
Ready(v) ==
  /\ v.configuration \in Configurations
  /\ \A r \in Needed(v.configuration) :
       IF r = "packet_parameters" THEN v.registers[r].configuration = v.configuration
       ELSE v.registers[r] = v.configuration
HasLength(v) == v.registers.packet_parameters.length = v.configuration.length

Quiet(v) == v.mode \notin {"tx", "rx", "rxContinuous", "rxDutyCycle", "cad", "cadRx"} /\ ~v.active
Receives(v) ==
  \/ v.mode \in {"rx", "rxContinuous", "rxDutyCycle", "cadRx"}
  \/ v.mode = "cad" /\ v.configuration.cadExit # 0
Sound(v) ==
  /\ Quiet(v) \/ Ready(v)
  /\ v.configuration = NoConfiguration => Quiet(v)
  /\ Receives(v) => HasLength(v)

(* Steps that start nothing and leave registers and configuration alone. *)
Starting == {"SetTx", "SetRx", "SetRxContinuous", "SetRxDutyCycle", "SetCad",
             "SetTxCw", "SetTxInfinitePreamble"}
Harmless ==
  {s \in AnyStep :
     \/ s.do \in {"wakeup", "expect", "clearErrors", "clearRead"}
     \/ s.do = "assign" /\ s.variable \notin {"radioOperationActive", "configuration"}
     \/ s = Off
     \/ s.do = "command" /\ s.name \notin Starting \cup {"SetPacketType"}}

(* A program that starts an operation: one that receives comes after the length configured. *)
StartSteps(c) == Harmless \cup {On, Parameters(c, c.length)} \cup {Send(name) : name \in Starting}
WantsLength(s, c) ==
  /\ s.do = "command"
  /\ \/ s.name \in {"SetRx", "SetRxContinuous", "SetRxDutyCycle"}
     \/ s.name = "SetCad" /\ c.cadExit # 0
LengthComesFirst(p, c) ==
  \A i \in 1..Len(p) : WantsLength(p[i], c) => \E j \in 1..(i - 1) : p[j] = Parameters(c, c.length)
Starts(p, c) == p \in Seq(StartSteps(c)) /\ LengthComesFirst(p, c)
Acting(v, p) ==
  /\ Ready(v)
  /\ p \in Seq(StartSteps(v.configuration))
  /\ HasLength(v) \/ LengthComesFirst(p, v.configuration)

(* The interrupt handler until it calls back, which changes nothing once rfManagerHal_stop() *)
(* has cleared the flag. *)
Calm(p) == p \in Seq({Send("GetIrqStatus"), ClearRead[1], CallBack[1]})
Halted(v, isr) == ~v.active /\ Calm(isr)
Stopped(v, isr) == Quiet(v) /\ Calm(isr)
StopsFirst(v, isr, p) ==
  \/ Len(p) > 2 /\ p[1] = Off /\ p[2] = NotTransmitting /\ p[3] = Send("SetStandby")
  \/ Halted(v, isr) /\ Len(p) > 1 /\ p[1] = NotTransmitting /\ p[2] = Send("SetStandby")
  \/ Halted(v, isr) /\ Len(p) > 0 /\ p[1] = Send("SetStandby")
  \/ Stopped(v, isr)

(* rfManagerHal_transmit() writes the length of the packet before it starts. *)
SendsAt(p, c, n, m) ==
  /\ p[m] = Parameters(c, n)
  /\ \A i \in 1..(m - 1) : p[i] \in Harmless
  /\ \A i \in (m + 1)..Len(p) : p[i] \in Harmless \cup {On, Send("SetTx")}
Sends(v, p) == Ready(v) /\ \E m \in 1..Len(p), n \in Lengths : SendsAt(p, v.configuration, n, m)

(* rfManagerHal_setConfiguration(): what a register has to hold it holds already, or will. *)
Volatile == {"modulation", "packet_parameters"}
ConfigureSteps(d) ==
  Harmless \cup {Send("SetPacketType")} \cup {Write(r, ValueOf(r, d)) : r \in Registers}
Comes(v, isr, p, r, d, i) ==
  /\ i = 0 => Stopped(v, isr) /\ v.registers[r] = ValueOf(r, d)
  /\ i # 0 => p[i] = Write(r, ValueOf(r, d))
  /\ r \in Volatile => \A j \in (i + 1)..Len(p) : p[j] # Send("SetPacketType")
ConfiguresAt(v, isr, p, d, m) ==
  /\ p[m] = Set("configuration", d)
  /\ \A i \in 1..(m - 1) : p[i] \in ConfigureSteps(d)
  /\ \A i \in (m + 1)..Len(p) : p[i] \in Harmless
  /\ \A r \in Needed(d) : \E i \in 0..(m - 1) : Comes(v, isr, p, r, d, i)
Configures(v, isr, p) ==
  \E d \in Configurations, m \in 1..Len(p) : ConfiguresAt(v, isr, p, d, m)

Settled(v, isr, p) == v.configuration \in Configurations => Ready(v) \/ Configures(v, isr, p)
HandlerFits(v, isr) == Calm(isr) \/ Acting(v, isr)
TaskFits(v, isr, p) ==
  \/ p \in Seq(Harmless)
  \/ Acting(v, p)
  \/ StopsFirst(v, isr, p) /\ (Sends(v, p) \/ Configures(v, isr, p))
Fits(v, isr, p) == Sound(v) /\ Settled(v, isr, p) /\ HandlerFits(v, isr) /\ TaskFits(v, isr, p)
Programmed == Fits(View, Rest("isr"), Rest("task"))

-----------------------------------------------------------------------------
(* The view after a step. *)

LEMMA NeededAre ==
  ASSUME NEW c \in Configurations
  PROVE  /\ Needed(c) \subseteq Registers /\ Volatile \subseteq Needed(c)
         /\ "packet_parameters" \in Needed(c) /\ c # NoConfiguration
  <1>1. \A i \in DOMAIN RegistersOf(c.type) : RegistersOf(c.type)[i] \in Registers
    BY RegistersAre
  <1>2. c.type # NoConfiguration.type
    BY RadioHalAssumption DEF NoConfiguration
  <1> QED
    BY <1>1, <1>2, RegistersAre DEF Needed, Volatile

LEMMA AfterIs ==
  ASSUME NEW v \in ViewType, NEW s \in AnyStep
  PROVE  /\ After(v, s).configuration = IF s.do = "assign" /\ s.variable = "configuration"
                                        THEN s.value ELSE v.configuration
         /\ After(v, s).active = IF s.do = "assign" /\ s.variable = "radioOperationActive"
                                 THEN s.value ELSE v.active
         /\ After(v, s).mode = IF s.do = "command" THEN CommandedMode(s.name, v.mode)
                               ELSE IF s.do = "wakeup" THEN "standby" ELSE v.mode
         /\ s.do = "program" =>
              /\ s.register \in Registers
              /\ \A r \in Registers : After(v, s).registers[r] =
                                        IF r = s.register THEN s.value ELSE v.registers[r]
         /\ s.do = "command" /\ s.name = "SetPacketType" =>
              \A r \in Registers \ Volatile : After(v, s).registers[r] = v.registers[r]
         /\ ~(s.do = "program" \/ (s.do = "command" /\ s.name = "SetPacketType")) =>
              After(v, s).registers = v.registers
  <1>1. v.registers \in [Registers -> Values]
    BY DEF ViewType
  <1>2. s.do = "program" => s.register \in Registers
    BY AnyStepIs
  <1> DEFINE registers == IF s.do = "program" THEN [v.registers EXCEPT ![s.register] = s.value]
                          ELSE IF s.do = "command" /\ s.name = "SetPacketType"
                          THEN [v.registers EXCEPT !.modulation = NoConfiguration,
                                                   !.packet_parameters = NoParameters]
                          ELSE v.registers
  <1>3. s.do = "program" =>
          \A r \in Registers : registers[r] = IF r = s.register THEN s.value ELSE v.registers[r]
    BY <1>1, <1>2
  <1>4. s.do = "command" /\ s.name = "SetPacketType" =>
          \A r \in Registers \ Volatile : registers[r] = v.registers[r]
    BY <1>1 DEF Volatile
  <1>5. ~(s.do = "program" \/ (s.do = "command" /\ s.name = "SetPacketType")) =>
          registers = v.registers
    OBVIOUS
  <1>6. After(v, s).registers = registers
    BY DEF After
  <1> HIDE DEF registers
  <1>7. /\ After(v, s).configuration = IF s.do = "assign" /\ s.variable = "configuration"
                                       THEN s.value ELSE v.configuration
        /\ After(v, s).active = IF s.do = "assign" /\ s.variable = "radioOperationActive"
                                THEN s.value ELSE v.active
        /\ After(v, s).mode = IF s.do = "command" THEN CommandedMode(s.name, v.mode)
                              ELSE IF s.do = "wakeup" THEN "standby" ELSE v.mode
    BY DEF After
  <1> QED
    BY <1>2, <1>3, <1>4, <1>5, <1>6, <1>7

(* A change that starts nothing: a mode that is left, a scan that goes on receiving. *)
Gentle(v, w) ==
  /\ w.configuration = v.configuration /\ w.registers = v.registers
  /\ w.active => v.active
  /\ \/ w.mode \in {v.mode, "standby", "xosc"}
     \/ v.mode = "cad" /\ w.mode = "cadRx" /\ v.configuration.cadExit # 0

LEMMA GentleKeeps ==
  ASSUME NEW v, NEW w, Gentle(v, w)
  PROVE  /\ Sound(v) => Sound(w)
         /\ Ready(w) <=> Ready(v)
         /\ HasLength(w) <=> HasLength(v)
         /\ Quiet(v) => Quiet(w)
         /\ \A p : Acting(v, p) => Acting(w, p)
  <1>1. (Ready(w) <=> Ready(v)) /\ (HasLength(w) <=> HasLength(v))
    BY DEF Gentle, Ready, HasLength
  <1>2. (Quiet(v) => Quiet(w)) /\ (Receives(w) => Receives(v))
    BY DEF Gentle, Quiet, Receives
  <1>3. Sound(v) => Sound(w)
    BY <1>1, <1>2 DEF Sound, Gentle
  <1>4. \A p : Acting(v, p) => Acting(w, p)
    BY <1>1 DEF Acting, Gentle
  <1> QED
    BY <1>1, <1>2, <1>3, <1>4

LEMMA HarmlessAre ==
  ASSUME NEW s \in Harmless
  PROVE  /\ s \in AnyStep /\ s.do \notin {"program", "callBack"}
         /\ \A d : s # Set("configuration", d)
         /\ \A c : ~WantsLength(s, c)
         /\ s # Send("SetPacketType")
         /\ \A r, x : s # Write(r, x)
         /\ \A c, n : s # Parameters(c, n)
  <1>1. /\ s \in AnyStep
        /\ \/ s.do \in {"wakeup", "expect", "clearErrors", "clearRead"}
           \/ s.do = "assign" /\ s.variable \notin {"radioOperationActive", "configuration"}
           \/ s = Off
           \/ s.do = "command" /\ s.name \notin Starting \cup {"SetPacketType"}
    BY DEF Harmless
  <1>2. CASE s = Off
    <2>1. s.do = "assign" /\ s.variable = "radioOperationActive" /\ s.value = FALSE
      BY <1>2 DEF Off, Set
    <2> QED
      BY <1>1, <2>1 DEF Set, Send, Write, Parameters, WantsLength
  <1>3. CASE s # Off
    BY <1>1, <1>3 DEF Set, Send, Write, Parameters, WantsLength, Starting
  <1> QED
    BY <1>2, <1>3

LEMMA HarmlessIs ==
  ASSUME NEW v \in ViewType, NEW s \in Harmless
  PROVE  /\ Gentle(v, After(v, s))
         /\ s = Off => ~After(v, s).active
         /\ s = Send("SetStandby") => After(v, s).mode = "standby"
  <1>1. /\ s \in AnyStep
        /\ \/ s.do \in {"wakeup", "expect", "clearErrors", "clearRead"}
           \/ s.do = "assign" /\ s.variable \notin {"radioOperationActive", "configuration"}
           \/ s = Off
           \/ s.do = "command" /\ s.name \notin Starting \cup {"SetPacketType"}
    BY DEF Harmless
  <1>2. CASE s = Off
    <2>1. s.do = "assign" /\ s.variable = "radioOperationActive" /\ s.value = FALSE
      BY <1>2 DEF Off, Set
    <2>2. Gentle(v, After(v, s)) /\ ~After(v, s).active
      BY <1>1, <2>1, AfterIs DEF Gentle
    <2> QED
      BY <2>1, <2>2 DEF Send
  <1>3. CASE s.do = "command" /\ s.name \notin Starting \cup {"SetPacketType"}
    <2>1. After(v, s).mode = CommandedMode(s.name, v.mode)
      BY <1>1, <1>3, AfterIs
    <2>2. After(v, s).mode \in {v.mode, "standby", "xosc"}
          /\ (s.name = "SetStandby" => After(v, s).mode = "standby")
      BY <1>3, <2>1 DEF CommandedMode, Starting
    <2>3. Gentle(v, After(v, s))
      BY <1>1, <1>3, <2>2, AfterIs DEF Gentle
    <2> QED
      BY <1>3, <2>2, <2>3 DEF Set, Send, Off
  <1>4. CASE s.do \in {"wakeup", "expect", "clearErrors", "clearRead"}
    <2>1. Gentle(v, After(v, s))
      BY <1>1, <1>4, AfterIs DEF Gentle
    <2> QED
      BY <1>4, <2>1 DEF Set, Send, Off
  <1>5. CASE s.do = "assign" /\ s.variable \notin {"radioOperationActive", "configuration"}
    <2>1. Gentle(v, After(v, s))
      BY <1>1, <1>5, AfterIs DEF Gentle
    <2> QED
      BY <1>5, <2>1 DEF Set, Send, Off
  <1> QED
    BY <1>1, <1>2, <1>3, <1>4, <1>5

(* The rest of a program, place by place. *)
LEMMA TailIs ==
  ASSUME NEW S, NEW p \in Seq(S), p # <<>>
  PROVE  /\ Tail(p) \in Seq(S) /\ Len(p) \in Nat \ {0} /\ Len(Tail(p)) = Len(p) - 1
         /\ Head(p) = p[1] /\ p[1] \in S
         /\ \A i \in 1..(Len(p) - 1) : Tail(p)[i] = p[i + 1]
         /\ \A i \in 2..Len(p) : i - 1 \in 1..Len(Tail(p)) /\ Tail(p)[i - 1] = p[i]
  OBVIOUS

(* A step of a program that starts an operation, once it may be taken. *)
LEMMA ActingStep ==
  ASSUME NEW v \in ViewType, NEW p, Acting(v, p), p # <<>>, Receives(v) => HasLength(v)
  PROVE  LET w == After(v, Head(p)) IN
         /\ Ready(w) /\ w.configuration = v.configuration
         /\ Receives(w) => HasLength(w)
         /\ HasLength(v) => HasLength(w)
         /\ Acting(w, Tail(p))
  <1> DEFINE s == Head(p)
             c == v.configuration
             w == After(v, s)
  <1>1. p \in Seq(StartSteps(c)) /\ Ready(v) /\ c \in Configurations
    BY DEF Acting, Ready
  <1>2. /\ Tail(p) \in Seq(StartSteps(c)) /\ Len(p) \in Nat \ {0} /\ Len(Tail(p)) = Len(p) - 1
        /\ s = p[1] /\ s \in StartSteps(c)
        /\ \A i \in 1..(Len(p) - 1) : Tail(p)[i] = p[i + 1]
    BY <1>1, TailIs
  <1> HIDE DEF s, w
  <1>3. WantsLength(s, c) => HasLength(v)
    <2>1. CASE LengthComesFirst(p, c)
      BY <1>2, <2>1 DEF LengthComesFirst
    <2>2. CASE HasLength(v)
      BY <2>2
    <2> QED
      BY <2>1, <2>2 DEF Acting, c
  <1>4. LengthComesFirst(p, c) => s = Parameters(c, c.length) \/ LengthComesFirst(Tail(p), c)
    <2> SUFFICES ASSUME LengthComesFirst(p, c), s # Parameters(c, c.length),
                        NEW i \in 1..Len(Tail(p)), WantsLength(Tail(p)[i], c)
                 PROVE  \E j \in 1..(i - 1) : Tail(p)[j] = Parameters(c, c.length)
      BY DEF LengthComesFirst
    <2>1. i + 1 \in 1..Len(p) /\ WantsLength(p[i + 1], c)
      BY <1>2
    <2>2. PICK j \in 1..i : p[j] = Parameters(c, c.length)
      BY <2>1 DEF LengthComesFirst
    <2>3. j # 1
      BY <1>2, <2>2
    <2>4. j - 1 \in 1..(i - 1) /\ Tail(p)[j - 1] = p[j]
      BY <1>2, <2>2, <2>3
    <2> QED
      BY <2>2, <2>4
  <1>5. /\ Ready(w) /\ w.configuration = c
        /\ Receives(w) => HasLength(w)
        /\ HasLength(v) => HasLength(w)
        /\ s = Parameters(c, c.length) => HasLength(w)
    <2>1. CASE s \in Harmless
      <3>1. Gentle(v, w) /\ s # Parameters(c, c.length)
        BY <2>1, HarmlessIs, HarmlessAre DEF w
      <3>2. Ready(w) /\ (HasLength(w) <=> HasLength(v)) /\ (Receives(w) => Receives(v))
        BY <1>1, <3>1, GentleKeeps DEF Gentle, Receives
      <3> QED
        BY <3>1, <3>2 DEF Gentle, c
    <2>2. CASE s = Parameters(c, c.length)
      <3>1. /\ s.do = "program" /\ s.register = "packet_parameters"
            /\ s.value = [configuration |-> c, length |-> c.length]
        BY <2>2 DEF Parameters, Write
      <3>2. c \in Configured /\ c.length \in Nat
        BY <1>1, ConfiguredIs DEF Configured
      <3>3. s \in AnyStep
        <4>1. s.value \in Values
          BY <3>1, <3>2 DEF Values
        <4> QED
          BY <2>2, <3>1, <4>1, RegistersAre DEF AnyStep, Ordinary, Parameters, Write
      <3>4. /\ w.configuration = c
            /\ \A r \in Registers : w.registers[r] =
                 IF r = "packet_parameters" THEN s.value ELSE v.registers[r]
        BY <3>1, <3>3, AfterIs DEF w, c
      <3>5. w.registers.packet_parameters = s.value /\ HasLength(w)
        BY <3>1, <3>4, RegistersAre DEF HasLength
      <3>6. Ready(w)
        BY <1>1, <3>1, <3>4, <3>5, NeededAre DEF Ready, c
      <3> QED
        BY <3>4, <3>5, <3>6
    <2>3. CASE s \in {On} \cup {Send(name) : name \in Starting}
      <3>1. /\ s \in AnyStep /\ s.do \in {"assign", "command"} /\ s # Parameters(c, c.length)
            /\ ~(s.do = "assign" /\ s.variable = "configuration")
            /\ ~(s.do = "command" /\ s.name = "SetPacketType")
            /\ s.do = "command" => s.name \in Starting
        <4>1. CASE s = On
          BY <4>1 DEF On, Set, AnyStep, Ordinary, Assignment, Parameters, Write
        <4>2. CASE s # On
          <5>1. PICK name \in Starting : s = Send(name)
            BY <2>3, <4>2
          <5> QED
            BY <5>1, CommandsAre DEF Send, Starting, AnyStep, Ordinary, Parameters, Write
        <4> QED
          BY <4>1, <4>2
      <3>2. w.configuration = c /\ w.registers = v.registers
            /\ w.mode = IF s.do = "command" THEN CommandedMode(s.name, v.mode) ELSE v.mode
        BY <3>1, AfterIs DEF w, c
      <3>3. Ready(w) /\ (HasLength(w) <=> HasLength(v))
        BY <1>1, <3>2 DEF Ready, HasLength, c
      <3>4. Receives(w) => Receives(v) \/ WantsLength(s, c)
        BY <3>1, <3>2 DEF Receives, WantsLength, CommandedMode, Starting, c
      <3> QED
        BY <1>3, <3>1, <3>2, <3>3, <3>4
    <2> QED
      BY <1>2, <2>1, <2>2, <2>3 DEF StartSteps
  <1>6. Acting(w, Tail(p))
    <2>1. HasLength(w) \/ LengthComesFirst(Tail(p), c)
      BY <1>4, <1>5 DEF Acting, c
    <2> QED
      BY <1>2, <1>5, <2>1 DEF Acting
  <1> QED
    BY <1>5, <1>6 DEF w, s, c

-----------------------------------------------------------------------------
(* The interrupt handler while the object waits, and the radio by itself. *)

LEMMA GentleFits ==
  ASSUME NEW v, NEW w, NEW isr, NEW new, NEW p, Fits(v, isr, p), Gentle(v, w),
         Calm(isr) => Calm(new), HandlerFits(w, new)
  PROVE  Fits(w, new, p)
  <1>1. /\ Sound(w) /\ (Ready(w) <=> Ready(v)) /\ (Quiet(v) => Quiet(w))
        /\ \A q : Acting(v, q) => Acting(w, q)
        /\ w.configuration = v.configuration /\ w.registers = v.registers
        /\ w.active => v.active
    BY GentleKeeps DEF Fits, Gentle
  <1>2. /\ Stopped(v, isr) => Stopped(w, new)
        /\ Halted(v, isr) => Halted(w, new)
    BY <1>1 DEF Stopped, Halted
  <1>3. StopsFirst(v, isr, p) => StopsFirst(w, new, p)
    BY <1>2 DEF StopsFirst
  <1>4. Sends(v, p) => Sends(w, p)
    BY <1>1 DEF Sends
  <1>5. \A r, d, i : Comes(v, isr, p, r, d, i) => Comes(w, new, p, r, d, i)
    BY <1>1, <1>2 DEF Comes
  <1>6. Configures(v, isr, p) => Configures(w, new, p)
    BY <1>5 DEF Configures, ConfiguresAt
  <1>7. Settled(w, new, p)
    BY <1>1, <1>6 DEF Fits, Settled
  <1>8. TaskFits(w, new, p)
    BY <1>1, <1>3, <1>4, <1>6 DEF Fits, TaskFits
  <1> QED
    BY <1>1, <1>7, <1>8 DEF Fits

(* An operation started over before rfManagerHal_stop() has begun: a program that changes *)
(* registers has all of them before it, and one that starts finds what it counts on. *)
LEMMA RestartFits ==
  ASSUME NEW v, NEW w, NEW isr, NEW new, NEW p, Fits(v, isr, p), ~Halted(v, isr),
         Ready(w), w.configuration = v.configuration, HasLength(v) => HasLength(w),
         Receives(w) => HasLength(w), HandlerFits(w, new)
  PROVE  Fits(w, new, p)
  <1>1. ~Stopped(v, isr)
    BY DEF Stopped, Halted, Quiet
  <1>2. Sound(w) /\ Settled(w, new, p)
    BY NeededAre DEF Sound, Settled, Ready
  <1>3. StopsFirst(v, isr, p) => StopsFirst(w, new, p)
    BY <1>1 DEF StopsFirst
  <1>4. Sends(v, p) => Sends(w, p)
    BY DEF Sends
  <1>5. \A r, d, i : Comes(v, isr, p, r, d, i) => Comes(w, new, p, r, d, i)
    BY <1>1 DEF Comes
  <1>6. Configures(v, isr, p) => Configures(w, new, p)
    BY <1>5 DEF Configures, ConfiguresAt
  <1>7. Acting(v, p) => Acting(w, p)
    BY DEF Acting
  <1>8. TaskFits(w, new, p)
    BY <1>3, <1>4, <1>6, <1>7 DEF Fits, TaskFits
  <1> QED
    BY <1>2, <1>8 DEF Fits

LEMMA EmptyIsCalm == Calm(<<>>)
  BY DEF Calm

LEMMA CalmIs ==
  ASSUME NEW p, Calm(p), p # <<>>
  PROVE  /\ Calm(Tail(p))
         /\ Head(p) \in {Send("GetIrqStatus"), ClearRead[1], CallBack[1]}
         /\ Head(p).do # "callBack" => Head(p) \in Harmless
  <1>1. ClearRead[1] = [do |-> "clearRead"] /\ CallBack[1] = [do |-> "callBack"]
    BY DEF ClearRead, CallBack
  <1>2. Tail(p) \in Seq({Send("GetIrqStatus"), ClearRead[1], CallBack[1]})
        /\ Head(p) \in {Send("GetIrqStatus"), ClearRead[1], CallBack[1]}
    BY DEF Calm
  <1>3. Send("GetIrqStatus") \in Harmless /\ [do |-> "clearRead"] \in Harmless
    BY CommandsAre DEF Harmless, Send, Starting, AnyStep, Ordinary
  <1> QED
    BY <1>1, <1>2, <1>3 DEF Calm

(* What the programs that start an operation are made of. *)
LEMMA StartStepsAre ==
  ASSUME NEW c, NEW s \in StartSteps(c)
  PROVE  s.do # "callBack" /\ s # Set("configuration", c)
  <1>1. CASE s \in Harmless
    BY <1>1 DEF Harmless, Off, Set
  <1>2. CASE s = Parameters(c, c.length)
    BY <1>2 DEF Parameters, Write, Set
  <1>3. CASE s = On
    BY <1>3 DEF On, Set
  <1>4. CASE s \in {Send(name) : name \in Starting}
    BY <1>4 DEF Send, Set
  <1> QED
    BY <1>1, <1>2, <1>3, <1>4 DEF StartSteps

LEMMA HandlerStep ==
  ASSUME NEW v \in ViewType, NEW isr, NEW p, Fits(v, isr, p), isr # <<>>,
         Head(isr).do # "callBack"
  PROVE  Fits(After(v, Head(isr)), Tail(isr), p)
  <1>1. CASE Calm(isr)
    <2>1. Calm(Tail(isr)) /\ Head(isr) \in Harmless
      BY <1>1, CalmIs
    <2>2. Gentle(v, After(v, Head(isr)))
      BY <2>1, HarmlessIs, HarmlessAre
    <2> QED
      BY <2>1, <2>2, GentleFits DEF HandlerFits
  <1>2. CASE ~Calm(isr)
    <2>1. Acting(v, isr) /\ (Receives(v) => HasLength(v))
      BY <1>2 DEF Fits, HandlerFits, Sound
    <2> DEFINE w == After(v, Head(isr))
    <2>2. /\ Ready(w) /\ w.configuration = v.configuration
          /\ Receives(w) => HasLength(w)
          /\ HasLength(v) => HasLength(w)
          /\ Acting(w, Tail(isr))
      BY <2>1, ActingStep
    <2>3. ~Halted(v, isr)
      BY <1>2 DEF Halted
    <2> HIDE DEF w
    <2>4. Fits(w, Tail(isr), p)
      BY <2>2, <2>3, RestartFits DEF HandlerFits
    <2> QED
      BY <2>4 DEF w
  <1> QED
    BY <1>1, <1>2

(* What is called back starts operations, and nothing once the flag is clear. *)
LEMMA CallBackStep ==
  ASSUME NEW v, NEW isr, NEW new, NEW p, Fits(v, isr, p),
         v.active => new \in Seq(StartSteps(v.configuration))
                     /\ LengthComesFirst(new, v.configuration),
         ~v.active => new = <<>>
  PROVE  Fits(v, new, p)
  <1>1. CASE v.active
    <2>1. /\ Ready(v) /\ Acting(v, new) /\ ~Halted(v, isr)
          /\ Receives(v) => HasLength(v)
      BY <1>1 DEF Fits, Sound, Quiet, Acting, Halted
    <2>2. HandlerFits(v, new)
      BY <2>1 DEF HandlerFits
    <2> QED
      BY <2>1, <2>2, RestartFits
  <1>2. CASE ~v.active
    <2>1. Calm(new)
      BY <1>2, EmptyIsCalm
    <2>2. Gentle(v, v)
      BY DEF Gentle
    <2> QED
      BY <2>1, <2>2, GentleFits DEF HandlerFits
  <1> QED
    BY <1>1, <1>2

-----------------------------------------------------------------------------
(* The object, with the interrupt handler done. *)

LEMMA SeqNarrows ==
  ASSUME NEW S, NEW T, NEW p \in Seq(S), \A i \in 1..Len(p) : p[i] \in T
  PROVE  p \in Seq(T)
  OBVIOUS

(* rfManagerHal_stop(), step by step. *)
LEMMA StopsFirstStep ==
  ASSUME NEW v \in ViewType, NEW p \in Seq(AnyStep), p # <<>>, StopsFirst(v, <<>>, p)
  PROVE  /\ p[1] \in Harmless => StopsFirst(After(v, p[1]), <<>>, Tail(p))
         /\ p[1] \notin Harmless => Stopped(v, <<>>)
  <1>1. /\ Len(p) \in Nat \ {0} /\ Len(Tail(p)) = Len(p) - 1 /\ p[1] \in AnyStep
        /\ \A i \in 1..(Len(p) - 1) : Tail(p)[i] = p[i + 1]
    BY TailIs
  <1> DEFINE w == After(v, p[1])
  <1>2. Off \in AnyStep /\ NotTransmitting \in AnyStep /\ Send("SetStandby") \in AnyStep
    BY CommandsAre DEF Off, NotTransmitting, Set, Send, AnyStep, Ordinary, Assignment
  <1>3. Off \in Harmless /\ NotTransmitting \in Harmless /\ Send("SetStandby") \in Harmless
    BY <1>2 DEF Harmless, Off, NotTransmitting, Set, Send, Starting
  <1>4. p[1] \in Harmless => /\ Gentle(v, w)
                             /\ p[1] = Off => ~w.active
                             /\ p[1] = Send("SetStandby") => w.mode = "standby"
    BY HarmlessIs, HarmlessAre
  <1> HIDE DEF w
  <1>5. CASE Len(p) > 2 /\ p[1] = Off /\ p[2] = NotTransmitting /\ p[3] = Send("SetStandby")
    <2>1. /\ Len(Tail(p)) > 1 /\ Tail(p)[1] = NotTransmitting
          /\ Tail(p)[2] = Send("SetStandby")
      BY <1>1, <1>5
    <2>2. Halted(w, <<>>)
      BY <1>3, <1>4, <1>5, EmptyIsCalm DEF Halted
    <2> QED
      BY <1>3, <1>5, <2>1, <2>2 DEF StopsFirst, w
  <1>6. CASE Halted(v, <<>>) /\ Len(p) > 1 /\ p[1] = NotTransmitting /\ p[2] = Send("SetStandby")
    <2>1. Len(Tail(p)) > 0 /\ Tail(p)[1] = Send("SetStandby")
      BY <1>1, <1>6
    <2>2. Halted(w, <<>>)
      BY <1>3, <1>4, <1>6 DEF Halted, Gentle
    <2> QED
      BY <1>3, <1>6, <2>1, <2>2 DEF StopsFirst, w
  <1>7. CASE Halted(v, <<>>) /\ p[1] = Send("SetStandby")
    <2>1. Stopped(w, <<>>)
      BY <1>3, <1>4, <1>7 DEF Halted, Stopped, Quiet, Gentle
    <2> QED
      BY <1>3, <1>7, <2>1 DEF StopsFirst, w
  <1>8. CASE Stopped(v, <<>>)
    <2>1. p[1] \in Harmless => Stopped(w, <<>>)
      BY <1>4, <1>8, GentleKeeps DEF Stopped
    <2> QED
      BY <1>8, <2>1 DEF StopsFirst, w
  <1> QED
    BY <1>5, <1>6, <1>7, <1>8 DEF StopsFirst

LEMMA HarmlessStep ==
  ASSUME NEW v \in ViewType, NEW p, Fits(v, <<>>, p), p \in Seq(Harmless), p # <<>>
  PROVE  Fits(After(v, Head(p)), <<>>, Tail(p))
  <1> DEFINE w == After(v, Head(p))
  <1>1. Head(p) \in Harmless /\ Tail(p) \in Seq(Harmless)
    OBVIOUS
  <1>2. Gentle(v, w)
    BY <1>1, HarmlessIs, HarmlessAre
  <1>3. \A i \in 1..Len(p) : p[i] \in Harmless
    OBVIOUS
  <1>4. ~Configures(v, <<>>, p)
    BY <1>3, HarmlessIs, HarmlessAre DEF Configures, ConfiguresAt
  <1> HIDE DEF w
  <1>5. Sound(w) /\ Settled(w, <<>>, Tail(p))
    BY <1>2, <1>4, GentleKeeps DEF Fits, Settled, Gentle
  <1>6. HandlerFits(w, <<>>) /\ TaskFits(w, <<>>, Tail(p))
    BY <1>1, EmptyIsCalm DEF HandlerFits, TaskFits
  <1> QED
    BY <1>5, <1>6 DEF Fits, w

LEMMA ReadyFits ==
  ASSUME NEW w, NEW p, Ready(w), Receives(w) => HasLength(w), TaskFits(w, <<>>, p)
  PROVE  Fits(w, <<>>, p)
  <1>1. Sound(w) /\ Settled(w, <<>>, p)
    BY NeededAre DEF Sound, Settled, Ready
  <1> QED
    BY <1>1, EmptyIsCalm DEF Fits, HandlerFits

LEMMA StartStep ==
  ASSUME NEW v \in ViewType, NEW p, Fits(v, <<>>, p), Acting(v, p), p # <<>>
  PROVE  Fits(After(v, Head(p)), <<>>, Tail(p))
  <1> DEFINE w == After(v, Head(p))
  <1>1. Receives(v) => HasLength(v)
    BY DEF Fits, Sound
  <1>2. Ready(w) /\ (Receives(w) => HasLength(w)) /\ Acting(w, Tail(p))
    BY <1>1, ActingStep
  <1> HIDE DEF w
  <1>3. Fits(w, <<>>, Tail(p))
    BY <1>2, ReadyFits DEF TaskFits
  <1> QED
    BY <1>3 DEF w

(* Parameters written for a packet to send leave the radio ready to send. *)
LEMMA ParametersKeep ==
  ASSUME NEW v \in ViewType, Ready(v), NEW n \in Nat
  PROVE  LET s == Parameters(v.configuration, n) IN
         /\ s \in AnyStep /\ Ready(After(v, s))
         /\ After(v, s).configuration = v.configuration
         /\ After(v, s).mode = v.mode /\ After(v, s).active = v.active
  <1> DEFINE c == v.configuration
             s == Parameters(c, n)
             w == After(v, s)
  <1>1. /\ s.do = "program" /\ s.register = "packet_parameters"
        /\ s.value = [configuration |-> c, length |-> n]
    BY DEF Parameters, Write
  <1>2. s \in AnyStep
    <2>1. c \in Configured
      BY DEF ViewType
    <2>2. [configuration |-> c, length |-> n] \in Values
      BY <2>1 DEF Values
    <2> QED
      BY <2>2, RegistersAre DEF AnyStep, Ordinary, Parameters, Write
  <1>3. /\ w.configuration = c /\ w.mode = v.mode /\ w.active = v.active
        /\ \A r \in Registers : w.registers[r] =
             IF r = "packet_parameters" THEN s.value ELSE v.registers[r]
    BY <1>1, <1>2, AfterIs
  <1> HIDE DEF s, w
  <1>4. Ready(w)
    BY <1>1, <1>3, NeededAre DEF Ready
  <1> QED
    BY <1>2, <1>3, <1>4 DEF s, w, c

LEMMA SendStep ==
  ASSUME NEW v \in ViewType, NEW p \in Seq(AnyStep), p # <<>>, Fits(v, <<>>, p),
         StopsFirst(v, <<>>, p), Sends(v, p)
  PROVE  Fits(After(v, Head(p)), <<>>, Tail(p))
  <1> DEFINE c == v.configuration
             w == After(v, Head(p))
  <1>1. PICK m \in 1..Len(p), n \in Lengths : SendsAt(p, c, n, m)
    BY DEF Sends
  <1>2. Ready(v) /\ n \in Nat /\ c \in Configurations
    BY RadioHalAssumption DEF Sends, Ready
  <1>3. /\ Tail(p) \in Seq(AnyStep) /\ Len(p) \in Nat \ {0} /\ Len(Tail(p)) = Len(p) - 1
        /\ Head(p) = p[1]
        /\ \A i \in 1..(Len(p) - 1) : Tail(p)[i] = p[i + 1]
    BY TailIs
  <1>4. CASE m = 1
    <2>1. p[1] = Parameters(c, n) /\ p[1] \notin Harmless
      BY <1>1, <1>4, HarmlessIs, HarmlessAre DEF SendsAt
    <2>2. Stopped(v, <<>>)
      BY <2>1, StopsFirstStep
    <2>3. Ready(w) /\ Quiet(w) /\ w.configuration = c
      BY <1>2, <1>3, <2>1, <2>2, ParametersKeep DEF Stopped, Quiet
    <2> HIDE DEF w
    <2>4. \A i \in 1..Len(Tail(p)) : Tail(p)[i] \in Harmless \cup {On, Send("SetTx")}
      BY <1>1, <1>3, <1>4 DEF SendsAt
    <2>5. Harmless \cup {On, Send("SetTx")} \subseteq StartSteps(c)
      BY DEF StartSteps, Starting
    <2>6. Tail(p) \in Seq(StartSteps(c))
      <3>1. \A i \in 1..Len(Tail(p)) : Tail(p)[i] \in StartSteps(c)
        BY <2>4, <2>5
      <3> QED
        BY <1>3, <3>1, SeqNarrows
    <2>7. LengthComesFirst(Tail(p), c)
      <3>1. ~WantsLength(On, c) /\ ~WantsLength(Send("SetTx"), c)
        BY DEF WantsLength, On, Set, Send
      <3>2. \A s \in Harmless : ~WantsLength(s, c)
        BY HarmlessIs, HarmlessAre
      <3> QED
        BY <2>4, <3>1, <3>2 DEF LengthComesFirst
    <2>8. Acting(w, Tail(p)) /\ ~Receives(w)
      BY <2>3, <2>6, <2>7 DEF Acting, Quiet, Receives
    <2>9. Fits(w, <<>>, Tail(p))
      BY <2>3, <2>8, ReadyFits DEF TaskFits
    <2> QED
      BY <2>9 DEF w
  <1>5. CASE m # 1
    <2>1. p[1] \in Harmless /\ m - 1 \in 1..Len(Tail(p))
      BY <1>1, <1>3, <1>5 DEF SendsAt
    <2>2. Gentle(v, w)
      BY <1>3, <2>1, HarmlessIs, HarmlessAre
    <2>3. StopsFirst(w, <<>>, Tail(p))
      BY <1>3, <2>1, StopsFirstStep
    <2> HIDE DEF w
    <2>4. SendsAt(Tail(p), c, n, m - 1)
      <3>1. Tail(p)[m - 1] = p[m]
        BY <1>3, <2>1
      <3>2. \A i \in 1..((m - 1) - 1) : Tail(p)[i] = p[i + 1] /\ i + 1 \in 1..(m - 1)
        BY <1>3, <2>1
      <3>3. \A i \in ((m - 1) + 1)..Len(Tail(p)) : Tail(p)[i] = p[i + 1] /\ i + 1 \in (m + 1)..Len(p)
        BY <1>3, <2>1
      <3> QED
        BY <1>1, <3>1, <3>2, <3>3 DEF SendsAt
    <2>5. Sends(w, Tail(p))
      BY <1>2, <2>1, <2>2, <2>4, GentleKeeps DEF Sends, Gentle
    <2>6. Ready(w) /\ Sound(w)
      BY <1>2, <2>2, GentleKeeps DEF Fits
    <2>7. Fits(w, <<>>, Tail(p))
      BY <2>3, <2>5, <2>6, ReadyFits DEF TaskFits, Sound
    <2> QED
      BY <2>7 DEF w
  <1> QED
    BY <1>4, <1>5

(* rfManagerHal_setConfiguration(), step by step: what comes is there, or still comes. *)
LEMMA ConfigureStepsAre ==
  ASSUME NEW d \in Configurations, NEW s \in ConfigureSteps(d)
  PROVE  /\ s \in AnyStep
         /\ s \notin Harmless =>
              \/ s = Send("SetPacketType")
              \/ \E r \in Registers : s = Write(r, ValueOf(r, d))
  <1>1. s \in Harmless \/ s = Send("SetPacketType")
        \/ \E r \in Registers : s = Write(r, ValueOf(r, d))
    BY DEF ConfigureSteps
  <1>2. Send("SetPacketType") \in AnyStep
    BY CommandsAre DEF Send, AnyStep, Ordinary
  <1>3. \A r \in Registers : Write(r, ValueOf(r, d)) \in AnyStep
    <2> TAKE r \in Registers
    <2>1. d \in Configured /\ d.length \in Nat
      BY ConfiguredIs DEF Configured
    <2>2. ValueOf(r, d) \in Values
      BY <2>1 DEF ValueOf, Values
    <2> QED
      BY <2>2 DEF Write, AnyStep, Ordinary
  <1> QED
    BY <1>1, <1>2, <1>3 DEF Harmless

LEMMA ComesStep ==
  ASSUME NEW v \in ViewType, NEW p \in Seq(AnyStep), p # <<>>, NEW d \in Configurations,
         p[1] \in ConfigureSteps(d), StopsFirst(v, <<>>, p),
         NEW r \in Registers, NEW m \in 2..Len(p), NEW i \in 0..(m - 1),
         Comes(v, <<>>, p, r, d, i)
  PROVE  \E k \in 0..(m - 2) : Comes(After(v, p[1]), <<>>, Tail(p), r, d, k)
  <1> DEFINE s == p[1]
             w == After(v, s)
             q == Tail(p)
  <1>1. /\ Len(p) \in Nat \ {0} /\ Len(q) = Len(p) - 1
        /\ \A j \in 1..(Len(p) - 1) : q[j] = p[j + 1]
    BY TailIs
  <1>2. s \in AnyStep /\ (s \notin Harmless => \/ s = Send("SetPacketType")
                                               \/ \E x \in Registers : s = Write(x, ValueOf(x, d)))
    BY ConfigureStepsAre
  <1>3. s \in Harmless => /\ Gentle(v, w) /\ s # Send("SetPacketType")
                          /\ \A x, y : s # Write(x, y)
    BY HarmlessIs, HarmlessAre
  <1>4. s \notin Harmless => Stopped(v, <<>>)
    BY StopsFirstStep
  <1>5. Stopped(v, <<>>) => Stopped(w, <<>>)
    <2>1. CASE s \in Harmless
      BY <1>3, <2>1, GentleKeeps DEF Stopped
    <2>2. CASE s \notin Harmless
      <3>1. /\ s.do \in {"command", "program"}
            /\ s.do = "command" => s.name = "SetPacketType"
        <4>1. CASE s = Send("SetPacketType")
          BY <4>1 DEF Send
        <4>2. ASSUME NEW x \in Registers, s = Write(x, ValueOf(x, d))
              PROVE  s.do = "program"
          BY <4>2 DEF Write
        <4> QED
          BY <1>2, <2>2, <4>1, <4>2
      <3>2. w.mode = v.mode /\ w.active = v.active
        BY <1>2, <3>1, AfterIs DEF CommandedMode
      <3> QED
        BY <3>2 DEF Stopped, Quiet
    <2> QED
      BY <2>1, <2>2
  <1>6. w.registers[r] = ValueOf(r, d) \/ (s = Send("SetPacketType") /\ r \in Volatile)
        \/ (w.registers[r] = v.registers[r] /\ s # Write(r, ValueOf(r, d)))
    <2>1. CASE s \in Harmless
      BY <1>3, <2>1 DEF Gentle
    <2>2. CASE s = Send("SetPacketType")
      <3>1. s.do = "command" /\ s.name = "SetPacketType" /\ s # Write(r, ValueOf(r, d))
        BY <2>2 DEF Send, Write
      <3> QED
        BY <1>2, <2>2, <3>1, AfterIs
    <2>3. ASSUME NEW x \in Registers, s = Write(x, ValueOf(x, d))
          PROVE  \/ w.registers[r] = ValueOf(r, d)
                 \/ w.registers[r] = v.registers[r] /\ s # Write(r, ValueOf(r, d))
      <3>1. s.do = "program" /\ s.register = x /\ s.value = ValueOf(x, d)
        BY <2>3 DEF Write
      <3>2. w.registers[r] = IF r = x THEN ValueOf(x, d) ELSE v.registers[r]
        BY <1>2, <3>1, AfterIs
      <3>3. r # x => s # Write(r, ValueOf(r, d))
        BY <3>1 DEF Write
      <3> QED
        BY <3>2, <3>3
    <2> QED
      BY <1>2, <2>1, <2>2, <2>3
  <1>7. /\ i = 0 => Stopped(v, <<>>) /\ v.registers[r] = ValueOf(r, d)
        /\ i # 0 => p[i] = Write(r, ValueOf(r, d))
        /\ r \in Volatile => \A j \in (i + 1)..Len(p) : p[j] # Send("SetPacketType")
    BY DEF Comes
  <1> HIDE DEF s, w, q
  <1>8. ASSUME NEW k \in Nat, k + 1 >= i
        PROVE  r \in Volatile => \A j \in (k + 1)..Len(q) : q[j] # Send("SetPacketType")
    <2> SUFFICES ASSUME r \in Volatile, NEW j \in (k + 1)..Len(q)
                 PROVE  q[j] # Send("SetPacketType")
      OBVIOUS
    <2>1. j \in 1..(Len(p) - 1) /\ j + 1 \in (i + 1)..Len(p)
      BY <1>1, <1>8
    <2> QED
      BY <1>1, <1>7, <2>1
  <1>9. CASE i > 1
    <2>1. PICK k \in 1..(m - 2) : k = i - 1
      BY <1>1, <1>9
    <2>2. k \in Nat /\ k + 1 >= i /\ k # 0 /\ k \in 1..(Len(p) - 1) /\ k \in 0..(m - 2)
      BY <1>1, <2>1
    <2>3. q[k] = Write(r, ValueOf(r, d))
      BY <1>1, <1>7, <1>9, <2>1, <2>2
    <2>4. r \in Volatile => \A j \in (k + 1)..Len(q) : q[j] # Send("SetPacketType")
      BY <1>8, <2>2
    <2>5. Comes(w, <<>>, q, r, d, k)
      BY <2>2, <2>3, <2>4 DEF Comes
    <2> QED
      BY <2>2, <2>5 DEF w, s, q
  <1>10. CASE i \in {0, 1}
    <2>1. Stopped(w, <<>>)
      <3>1. i = 1 => s = Write(r, ValueOf(r, d))
        BY <1>7 DEF s
      <3> QED
        BY <1>3, <1>4, <1>5, <1>7, <1>10, <3>1
    <2>2. w.registers[r] = ValueOf(r, d)
      <3>1. i = 0 /\ r \in Volatile => s # Send("SetPacketType")
        BY <1>1, <1>7 DEF s
      <3>2. i = 1 => s = Write(r, ValueOf(r, d)) /\ s # Send("SetPacketType")
        BY <1>7 DEF s, Send, Write
      <3> QED
        BY <1>6, <1>7, <1>10, <3>1, <3>2
    <2>3. PICK k \in 0..(m - 2) : k = 0
      OBVIOUS
    <2>4. k \in Nat /\ k + 1 >= i
      BY <1>10, <2>3
    <2>5. r \in Volatile => \A j \in (k + 1)..Len(q) : q[j] # Send("SetPacketType")
      BY <1>8, <2>4
    <2>6. Comes(w, <<>>, q, r, d, k)
      BY <2>1, <2>2, <2>3, <2>5 DEF Comes
    <2> QED
      BY <2>3, <2>6 DEF w, s, q
  <1> QED
    BY <1>9, <1>10

LEMMA ConfigureStep ==
  ASSUME NEW v \in ViewType, NEW p \in Seq(AnyStep), p # <<>>, Fits(v, <<>>, p),
         StopsFirst(v, <<>>, p), Configures(v, <<>>, p)
  PROVE  Fits(After(v, Head(p)), <<>>, Tail(p))
  <1> DEFINE s == p[1]
             w == After(v, s)
             q == Tail(p)
  <1>1. PICK d \in Configurations, m \in 1..Len(p) : ConfiguresAt(v, <<>>, p, d, m)
    BY DEF Configures
  <1>2. /\ q \in Seq(AnyStep) /\ Len(p) \in Nat \ {0} /\ Len(q) = Len(p) - 1 /\ Head(p) = s
        /\ \A i \in 1..(Len(p) - 1) : q[i] = p[i + 1]
    BY TailIs
  <1>3. /\ p[m] = Set("configuration", d)
        /\ \A i \in 1..(m - 1) : p[i] \in ConfigureSteps(d)
        /\ \A i \in (m + 1)..Len(p) : p[i] \in Harmless
        /\ \A r \in Needed(d) : \E i \in 0..(m - 1) : Comes(v, <<>>, p, r, d, i)
    BY <1>1 DEF ConfiguresAt
  <1>4. CASE m = 1
    <2>1. s = Set("configuration", d) /\ s \notin Harmless
      BY <1>3, <1>4, HarmlessIs, HarmlessAre
    <2>2. Stopped(v, <<>>)
      BY <2>1, StopsFirstStep
    <2>3. /\ s \in AnyStep /\ s.do = "assign" /\ s.variable = "configuration" /\ s.value = d
      BY <2>1 DEF Set, AnyStep, Ordinary, Assignment
    <2>4. /\ w.configuration = d /\ w.registers = v.registers /\ w.mode = v.mode
          /\ w.active = v.active
      BY <2>3, AfterIs
    <2> HIDE DEF w
    <2>5. \A r \in Needed(d) : w.registers[r] = ValueOf(r, d)
      <3> TAKE r \in Needed(d)
      <3>1. PICK i \in 0..(m - 1) : Comes(v, <<>>, p, r, d, i)
        BY <1>3
      <3> QED
        BY <1>4, <2>4, <3>1 DEF Comes
    <2>6. Ready(w)
      BY <2>4, <2>5, NeededAre DEF Ready, ValueOf
    <2>7. ~Receives(w)
      BY <2>2, <2>4 DEF Stopped, Quiet, Receives
    <2>8. q \in Seq(Harmless)
      <3>1. \A i \in 1..Len(q) : q[i] \in Harmless
        BY <1>2, <1>3, <1>4
      <3> QED
        BY <1>2, <3>1, SeqNarrows
    <2>9. Fits(w, <<>>, q)
      BY <2>6, <2>7, <2>8, ReadyFits DEF TaskFits
    <2> QED
      BY <1>2, <2>9 DEF w
  <1>5. CASE m # 1
    <2>1. m \in 2..Len(p) /\ m - 1 \in 1..Len(q) /\ s \in ConfigureSteps(d)
      BY <1>2, <1>3, <1>5
    <2>2. ConfiguresAt(w, <<>>, q, d, m - 1)
      <3>1. q[m - 1] = p[m]
        BY <1>2, <2>1
      <3>2. \A i \in 1..((m - 1) - 1) : q[i] = p[i + 1] /\ i + 1 \in 1..(m - 1)
        BY <1>2, <2>1
      <3>3. \A i \in ((m - 1) + 1)..Len(q) : q[i] = p[i + 1] /\ i + 1 \in (m + 1)..Len(p)
        BY <1>2, <2>1
      <3>4. \A r \in Needed(d) : \E i \in 0..(m - 2) : Comes(w, <<>>, q, r, d, i)
        BY <1>3, <2>1, NeededAre, ComesStep
      <3>5. m - 2 = (m - 1) - 1
        BY <2>1
      <3> HIDE DEF w, q
      <3> QED
        BY <1>3, <3>1, <3>2, <3>3, <3>4, <3>5 DEF ConfiguresAt
    <2>3. Configures(w, <<>>, q)
      BY <2>1, <2>2 DEF Configures
    <2>4. CASE s \in Harmless
      <3>1. Gentle(v, w) /\ StopsFirst(w, <<>>, q)
        BY <2>4, HarmlessIs, HarmlessAre, StopsFirstStep
      <3> HIDE DEF w, q
      <3>2. Sound(w)
        BY <3>1, GentleKeeps DEF Fits
      <3>3. Fits(w, <<>>, q)
        BY <2>3, <3>1, <3>2, EmptyIsCalm DEF Fits, Settled, HandlerFits, TaskFits
      <3> QED
        BY <1>2, <3>3 DEF w, q
    <2>5. CASE s \notin Harmless
      <3>1. Stopped(v, <<>>)
        BY <2>5, StopsFirstStep
      <3>2. /\ s.do \in {"command", "program"} /\ s \in AnyStep
            /\ s.do = "command" => s.name = "SetPacketType"
        BY <2>1, <2>5, ConfigureStepsAre DEF Send, Write
      <3>3. w.mode = v.mode /\ w.active = v.active
        BY <3>2, AfterIs DEF CommandedMode
      <3> HIDE DEF w, q
      <3>4. Quiet(w) /\ ~Receives(w) /\ Stopped(w, <<>>)
        BY <3>1, <3>3 DEF Stopped, Quiet, Receives
      <3>5. Sound(w) /\ StopsFirst(w, <<>>, q)
        BY <3>4 DEF Sound, StopsFirst
      <3>6. Fits(w, <<>>, q)
        BY <2>3, <3>5, EmptyIsCalm DEF Fits, Settled, HandlerFits, TaskFits
      <3> QED
        BY <1>2, <3>6 DEF w, q
    <2> QED
      BY <2>4, <2>5
  <1> QED
    BY <1>4, <1>5

LEMMA ObjectStep ==
  ASSUME NEW v \in ViewType, NEW p \in Seq(AnyStep), p # <<>>, Fits(v, <<>>, p)
  PROVE  Fits(After(v, Head(p)), <<>>, Tail(p))
  BY HarmlessStep, StartStep, SendStep, ConfigureStep DEF Fits, TaskFits

-----------------------------------------------------------------------------
(* What the programs do, part by part. *)

LEMMA JoinIs ==
  ASSUME NEW S, NEW p \in Seq(S), NEW q \in Seq(S)
  PROVE  /\ p \o q \in Seq(S) /\ Len(p) \in Nat /\ Len(q) \in Nat
         /\ Len(p \o q) = Len(p) + Len(q)
         /\ \A i \in 1..Len(p) : i \in 1..Len(p \o q) /\ (p \o q)[i] = p[i]
         /\ \A i \in 1..Len(q) : Len(p) + i \in 1..Len(p \o q) /\ (p \o q)[Len(p) + i] = q[i]
         /\ \A i \in 1..Len(p \o q) :
              \/ i \in 1..Len(p)
              \/ i > Len(p) /\ i - Len(p) \in 1..Len(q) /\ (p \o q)[i] = q[i - Len(p)]
  <1>1. p \o q \in Seq(S) /\ Len(p) \in Nat /\ Len(q) \in Nat /\ Len(p \o q) = Len(p) + Len(q)
    OBVIOUS
  <1>2. \A i \in 1..Len(p) : (p \o q)[i] = p[i]
    OBVIOUS
  <1>3. \A i \in 1..Len(q) : (p \o q)[Len(p) + i] = q[i]
    OBVIOUS
  <1>4. ASSUME NEW i \in 1..Len(p \o q), i > Len(p)
        PROVE  i - Len(p) \in 1..Len(q) /\ (p \o q)[i] = q[i - Len(p)]
    <2>1. i - Len(p) \in 1..Len(q) /\ Len(p) + (i - Len(p)) = i
      BY <1>1, <1>4
    <2> QED
      BY <1>3, <2>1
  <1>5. \A i \in 1..Len(p) : i \in 1..Len(p \o q)
    BY <1>1
  <1>6. \A i \in 1..Len(q) : Len(p) + i \in 1..Len(p \o q)
    BY <1>1
  <1>7. \A i \in 1..Len(p \o q) : i \in 1..Len(p) \/ i > Len(p)
    BY <1>1
  <1> QED
    BY <1>1, <1>2, <1>3, <1>4, <1>5, <1>6, <1>7

(* The harmless parts. *)
LEMMA HarmlessParts ==
  /\ <<>> \in Seq(Harmless) /\ \A p, q \in Seq(Harmless) : p \o q \in Seq(Harmless)
  /\ \A name \in CommandNames \ (Starting \cup {"SetPacketType"}) : Command(name) \in Seq(Harmless)
  /\ \A x \in BOOLEAN : Assign("transmitting", x) \in Seq(Harmless)
  /\ Assign("radioOperationActive", FALSE) \in Seq(Harmless)
  /\ \A side \in {"rx", "tx"} : SetRfSwitch(side) \in Seq(Harmless)
  /\ \A o \in Operations : Operation(o) \in Seq(Harmless)
  /\ HalInit \in Seq(Harmless)
  <1>1. \A e \in Harmless : <<e>> \in Seq(Harmless)
    OBVIOUS
  <1>2. <<>> \in Seq(Harmless) /\ \A p, q \in Seq(Harmless) : p \o q \in Seq(Harmless)
    OBVIOUS
  <1>3. \A name \in CommandNames \ (Starting \cup {"SetPacketType"}) :
          Command(name) \in Seq(Harmless)
    <2>1. \A name \in CommandNames \ (Starting \cup {"SetPacketType"}) :
            [do |-> "command", name |-> name] \in Harmless
      BY DEF Harmless, AnyStep, Ordinary
    <2> QED
      BY <1>1, <2>1 DEF Command
  <1>4. \A x \in BOOLEAN : Assign("transmitting", x) \in Seq(Harmless)
    <2>1. \A x \in BOOLEAN :
            [do |-> "assign", variable |-> "transmitting", value |-> x] \in Harmless
      BY DEF Harmless, AnyStep, Ordinary, Assignment
    <2> QED
      BY <1>1, <2>1 DEF Assign
  <1>5. Assign("radioOperationActive", FALSE) \in Seq(Harmless)
    <2>1. Off \in Harmless
      BY DEF Harmless, AnyStep, Ordinary, Assignment, Off, Set
    <2> QED
      BY <1>1, <2>1 DEF Assign, Off, Set
  <1>6. \A side \in {"rx", "tx"} : SetRfSwitch(side) \in Seq(Harmless)
    <2>1. \A side \in {"rx", "tx"} :
            [do |-> "assign", variable |-> "rf_switch", value |-> side] \in Harmless
      BY DEF Harmless, AnyStep, Ordinary, Assignment
    <2> QED
      BY <1>1, <2>1 DEF SetRfSwitch, Assign
  <1>7. \A o \in Operations : Operation(o) \in Seq(Harmless)
    <2>1. \A o \in Operations :
            [do |-> "assign", variable |-> "active_operation", value |-> o] \in Harmless
      BY DEF Harmless, AnyStep, Ordinary, Assignment
    <2> QED
      BY <1>1, <2>1 DEF Operation, Assign
  <1>8. HalInit \in Seq(Harmless)
    <2>1. \A k \in 1..18 : HalSteps[k] \in Harmless
      <3> TAKE k \in 1..18
      <3>1. /\ HalSteps[k] \in AnyStep
            /\ HalSteps[k].do \in {"assign", "command", "wakeup", "expect", "clearErrors"}
        BY HalStepsAre, AnyStepIs
      <3>2. HalSteps[k].do = "assign" =>
              HalSteps[k].variable \in {"rf_switch", "nvic", "initialised"}
        BY HalStepsAre
      <3>3. HalSteps[k].do = "command" => HalSteps[k].name \notin Starting \cup {"SetPacketType"}
        BY HalStepsAre DEF Starting
      <3> QED
        BY <3>1, <3>2, <3>3 DEF Harmless
    <2>2. /\ HalInit \in Seq(AnyStep) /\ Len(HalInit) = 18
          /\ \A k \in 1..18 : HalInit[k] = HalSteps[k]
      BY HalInitIs DEF Prefix
    <2>3. PICK p : p = HalInit
      OBVIOUS
    <2>4. \A i \in 1..Len(p) : p[i] \in Harmless
      BY <2>1, <2>2, <2>3
    <2>5. p \in Seq(Harmless)
      BY <2>2, <2>3, <2>4, SeqNarrows
    <2> QED
      BY <2>3, <2>5
  <1> QED
    BY <1>2, <1>3, <1>4, <1>5, <1>6, <1>7, <1>8

(* The same step or part at the end, for programs of any steps. *)
LEMMA StepAtEnd ==
  ASSUME NEW p \in Seq(AnyStep), NEW s \in AnyStep
  PROVE  /\ p \o <<s>> \in Seq(AnyStep) /\ Len(p) \in Nat /\ Len(p \o <<s>>) = Len(p) + 1
         /\ \A i \in 1..Len(p) : (p \o <<s>>)[i] = p[i]
         /\ (p \o <<s>>)[Len(p) + 1] = s
  OBVIOUS

Stopping(p) ==
  /\ p \in Seq(AnyStep) /\ Len(p) > 2
  /\ p[1] = Off /\ p[2] = NotTransmitting /\ p[3] = Send("SetStandby")

LEMMA StoppingStays ==
  ASSUME NEW p, NEW q \in Seq(AnyStep), Stopping(p)
  PROVE  Stopping(p \o q)
  <1>1. p \in Seq(AnyStep) /\ Len(p) > 2
    BY DEF Stopping
  <1>2. /\ p \o q \in Seq(AnyStep) /\ Len(p) \in Nat /\ Len(q) \in Nat
        /\ Len(p \o q) = Len(p) + Len(q) /\ \A i \in 1..Len(p) : (p \o q)[i] = p[i]
    BY <1>1, JoinIs
  <1>3. 1 \in 1..Len(p) /\ 2 \in 1..Len(p) /\ 3 \in 1..Len(p)
    BY <1>1, <1>2
  <1>4. (p \o q)[1] = p[1] /\ (p \o q)[2] = p[2] /\ (p \o q)[3] = p[3]
    BY <1>2, <1>3
  <1>5. Len(p \o q) > 2
    BY <1>1, <1>2
  <1> QED
    BY <1>2, <1>4, <1>5 DEF Stopping

LEMMA StopIsFirst == Stop \in Seq(Harmless) /\ Stopping(Stop)
  <1> DEFINE p1 == Assign("radioOperationActive", FALSE)
             off == Assign("transmitting", FALSE)
             p2 == p1 \o off
             p3 == p2 \o Command("SetStandby")
             p4 == p3 \o Command("ClearIrqStatus")
             p5 == p4 \o SetRfSwitch("rx")
  <1>1. p1 = <<Off>> /\ off = <<NotTransmitting>>
        /\ Command("SetStandby") = <<Send("SetStandby")>>
    BY DEF Assign, Command, Off, NotTransmitting, Set, Send
  <1>2. Off \in AnyStep /\ NotTransmitting \in AnyStep /\ Send("SetStandby") \in AnyStep
    BY CommandsAre DEF Off, NotTransmitting, Set, Send, AnyStep, Ordinary, Assignment
  <1>3. Harmless \subseteq AnyStep
    BY DEF Harmless
  <1>4. Command("ClearIrqStatus") \in Seq(AnyStep) /\ SetRfSwitch("rx") \in Seq(AnyStep)
    <2>1. Command("ClearIrqStatus") \in Seq(Harmless) /\ SetRfSwitch("rx") \in Seq(Harmless)
      BY HarmlessParts, CommandsAre DEF Starting
    <2> QED
      BY <1>3, <2>1
  <1>5. Stop = p5
    BY DEF Stop
  <1>6. Stop \in Seq(Harmless)
    BY HarmlessParts, CommandsAre DEF Stop, Starting
  <1> HIDE DEF off, p1, p2, p3, p4, p5
  <1>7. p1 \in Seq(AnyStep) /\ Len(p1) = 1 /\ p1[1] = Off
    BY <1>1, <1>2
  <1>8. p2 \in Seq(AnyStep) /\ Len(p2) = 2 /\ p2[1] = Off /\ p2[2] = NotTransmitting
    <2>1. p2 = p1 \o <<NotTransmitting>>
      BY <1>1 DEF p2
    <2>2. /\ p2 \in Seq(AnyStep) /\ Len(p2) = Len(p1) + 1
          /\ \A i \in 1..Len(p1) : p2[i] = p1[i]
          /\ p2[Len(p1) + 1] = NotTransmitting
      BY <1>2, <1>7, <2>1, StepAtEnd
    <2> QED
      BY <1>7, <2>2
  <1>9. /\ p3 \in Seq(AnyStep) /\ Len(p3) = 3 /\ p3[1] = Off /\ p3[2] = NotTransmitting
        /\ p3[3] = Send("SetStandby")
    <2>1. p3 = p2 \o <<Send("SetStandby")>>
      BY <1>1 DEF p3
    <2>2. /\ p3 \in Seq(AnyStep) /\ Len(p3) = Len(p2) + 1
          /\ \A i \in 1..Len(p2) : p3[i] = p2[i]
          /\ p3[Len(p2) + 1] = Send("SetStandby")
      BY <1>2, <1>8, <2>1, StepAtEnd
    <2> QED
      BY <1>8, <2>2
  <1>10. Stopping(p4)
    <2>1. Stopping(p3)
      BY <1>9 DEF Stopping
    <2> QED
      BY <1>4, <2>1, StoppingStays DEF p4
  <1>11. Stopping(p5)
    BY <1>4, <1>10, StoppingStays DEF p5
  <1> QED
    BY <1>5, <1>6, <1>11

(* Programs that start an operation: a part more. *)
WritesLength(p, c) == \E j \in 1..Len(p) : p[j] = Parameters(c, c.length)
LEMMA StartsJoin ==
  ASSUME NEW c, NEW p, NEW q, Starts(p, c), q \in Seq(StartSteps(c)),
         WritesLength(p, c) \/ Starts(q, c)
  PROVE  /\ Starts(p \o q, c)
         /\ WritesLength(p, c) \/ WritesLength(q, c) => WritesLength(p \o q, c)
  <1>1. p \in Seq(StartSteps(c)) /\ LengthComesFirst(p, c)
    BY DEF Starts
  <1>2. /\ p \o q \in Seq(StartSteps(c)) /\ Len(p) \in Nat /\ Len(q) \in Nat
        /\ Len(p \o q) = Len(p) + Len(q)
        /\ \A i \in 1..Len(p) : i \in 1..Len(p \o q) /\ (p \o q)[i] = p[i]
        /\ \A i \in 1..Len(q) : Len(p) + i \in 1..Len(p \o q) /\ (p \o q)[Len(p) + i] = q[i]
        /\ \A i \in 1..Len(p \o q) :
             \/ i \in 1..Len(p)
             \/ i > Len(p) /\ i - Len(p) \in 1..Len(q) /\ (p \o q)[i] = q[i - Len(p)]
    BY <1>1, JoinIs
  <1> DEFINE pq == p \o q
  <1> HIDE DEF pq
  <1>3. ASSUME NEW i \in 1..Len(pq), WantsLength(pq[i], c)
        PROVE  \E j \in 1..(i - 1) : pq[j] = Parameters(c, c.length)
    <2>1. CASE i \in 1..Len(p)
      <3>1. WantsLength(p[i], c)
        BY <1>2, <1>3, <2>1 DEF pq
      <3>2. PICK j \in 1..(i - 1) : p[j] = Parameters(c, c.length)
        BY <1>1, <2>1, <3>1 DEF LengthComesFirst
      <3>3. j \in 1..Len(p)
        BY <1>2, <2>1
      <3> QED
        BY <1>2, <3>2, <3>3 DEF pq
    <2>2. CASE i > Len(p) /\ i - Len(p) \in 1..Len(q) /\ pq[i] = q[i - Len(p)]
      <3>1. CASE WritesLength(p, c)
        <4>1. PICK j \in 1..Len(p) : p[j] = Parameters(c, c.length)
          BY <3>1 DEF WritesLength
        <4>2. j \in 1..(i - 1)
          BY <1>2, <2>2
        <4> QED
          BY <1>2, <4>1, <4>2 DEF pq
      <3>2. CASE Starts(q, c)
        <4>1. PICK j \in 1..((i - Len(p)) - 1) : q[j] = Parameters(c, c.length)
          BY <1>3, <2>2, <3>2 DEF Starts, LengthComesFirst
        <4>2. j \in 1..Len(q) /\ Len(p) + j \in 1..(i - 1)
          BY <1>2, <2>2
        <4> QED
          BY <1>2, <4>1, <4>2 DEF pq
      <3> QED
        BY <3>1, <3>2
    <2> QED
      BY <1>2, <2>1, <2>2 DEF pq
  <1>4. Starts(pq, c)
    BY <1>2, <1>3 DEF Starts, LengthComesFirst, pq
  <1>5. WritesLength(p, c) \/ WritesLength(q, c) => WritesLength(pq, c)
    BY <1>2 DEF WritesLength, pq
  <1> QED
    BY <1>4, <1>5 DEF pq

LEMMA StartParts ==
  ASSUME NEW c \in Configurations
  PROVE  /\ \A p \in Seq(Harmless) : Starts(p, c)
         /\ Starts(Assign("radioOperationActive", TRUE), c)
         /\ Starts(SetPacketParameters(c, c.length), c)
         /\ WritesLength(SetPacketParameters(c, c.length), c)
         /\ \A name \in Starting : Command(name) \in Seq(StartSteps(c))
         /\ \A name \in {"SetTx", "SetTxCw", "SetTxInfinitePreamble"} : Starts(Command(name), c)
         /\ c.cadExit = 0 => Starts(Command("SetCad"), c)
  <1>1. \A p \in Seq(Harmless) : Starts(p, c)
    <2> TAKE p \in Seq(Harmless)
    <2>1. Harmless \subseteq StartSteps(c)
      BY DEF StartSteps
    <2>2. \A i \in 1..Len(p) : p[i] \in Harmless
      OBVIOUS
    <2>3. p \in Seq(StartSteps(c))
      BY <2>1
    <2>4. \A s \in Harmless : ~WantsLength(s, c)
      BY HarmlessAre
    <2> QED
      BY <2>2, <2>3, <2>4 DEF Starts, LengthComesFirst
  <1>2. \A s \in StartSteps(c) :
          <<s>> \in Seq(StartSteps(c)) /\ (~WantsLength(s, c) => Starts(<<s>>, c))
    <2> TAKE s \in StartSteps(c)
    <2>1. <<s>> \in Seq(StartSteps(c)) /\ Len(<<s>>) = 1 /\ <<s>>[1] = s
      OBVIOUS
    <2>2. \A i \in 1..Len(<<s>>) : <<s>>[i] = s
      OBVIOUS
    <2> QED
      BY <2>1, <2>2 DEF Starts, LengthComesFirst
  <1>3. Starts(Assign("radioOperationActive", TRUE), c)
    <2>1. On \in StartSteps(c) /\ ~WantsLength(On, c)
      BY DEF StartSteps, WantsLength, On, Set
    <2>2. Assign("radioOperationActive", TRUE) = <<On>>
      BY DEF Assign, On, Set
    <2> QED
      BY <1>2, <2>1, <2>2
  <1>4. Starts(SetPacketParameters(c, c.length), c)
        /\ WritesLength(SetPacketParameters(c, c.length), c)
    <2> DEFINE s == Parameters(c, c.length)
    <2>1. s \in StartSteps(c) /\ ~WantsLength(s, c)
      BY DEF StartSteps, WantsLength, Parameters, Write
    <2>2. SetPacketParameters(c, c.length) = <<s>>
      BY DEF SetPacketParameters, Program, Parameters, Write
    <2>3. WritesLength(<<s>>, c)
      <3> HIDE DEF s
      <3>1. 1 \in 1..Len(<<s>>) /\ <<s>>[1] = s
        OBVIOUS
      <3> QED
        BY <3>1 DEF WritesLength, s
    <2> QED
      BY <1>2, <2>1, <2>2, <2>3
  <1>5. \A name \in Starting : /\ Send(name) \in StartSteps(c)
                               /\ Command(name) = <<Send(name)>>
    BY DEF StartSteps, Command, Send
  <1>6. \A name \in {"SetTx", "SetTxCw", "SetTxInfinitePreamble"} :
          name \in Starting /\ ~WantsLength(Send(name), c)
    BY DEF Starting, WantsLength, Send
  <1>7. "SetCad" \in Starting /\ (c.cadExit = 0 => ~WantsLength(Send("SetCad"), c))
    BY DEF Starting, WantsLength, Send
  <1>8. \A name \in Starting : Command(name) \in Seq(StartSteps(c))
    BY <1>2, <1>5
  <1>9. \A name \in {"SetTx", "SetTxCw", "SetTxInfinitePreamble"} : Starts(Command(name), c)
    BY <1>2, <1>5, <1>6
  <1>10. c.cadExit = 0 => Starts(Command("SetCad"), c)
    BY <1>2, <1>5, <1>7
  <1> QED
    BY <1>1, <1>3, <1>4, <1>8, <1>9, <1>10

LEMMA OperationsStart ==
  ASSUME NEW c \in Configurations
  PROVE  /\ Starts(StartReceive(c), c) /\ Starts(StartCad(c), c)
         /\ Starts(StartContinuousWave, c) /\ Starts(StartContinuousPreamble, c)
         /\ Starts(ReadReceivedPacket, c)
  <1> DEFINE off == Assign("transmitting", FALSE)
             tx == Assign("transmitting", TRUE)
             on == Assign("radioOperationActive", TRUE)
             parameters == SetPacketParameters(c, c.length)
             standby == IF c.rxMode = 2 THEN Command("SetStandby") ELSE <<>>
             name == <<"SetRx", "SetRxContinuous", "SetRxDutyCycle">>[c.rxMode + 1]
             scan == IF c.cadExit # 0 THEN parameters ELSE <<>>
  <1>1. /\ off \in Seq(Harmless) /\ tx \in Seq(Harmless) /\ standby \in Seq(Harmless)
        /\ SetRfSwitch("rx") \in Seq(Harmless) /\ SetRfSwitch("tx") \in Seq(Harmless)
        /\ <<>> \in Seq(Harmless) /\ \A p, q \in Seq(Harmless) : p \o q \in Seq(Harmless)
    BY HarmlessParts, CommandsAre DEF Starting
  <1>2. ReadReceivedPacket \in Seq(Harmless)
    BY HarmlessParts, CommandsAre DEF ReadReceivedPacket, Starting
  <1>3. name \in Starting
    <2>1. c.rxMode = 0 \/ c.rxMode = 1 \/ c.rxMode = 2
      BY RadioHalAssumption
    <2>2. name \in {"SetRx", "SetRxContinuous", "SetRxDutyCycle"}
      BY <2>1
    <2> QED
      BY <2>2 DEF Starting
  <1>4. /\ \A p \in Seq(Harmless) : Starts(p, c)
        /\ Starts(on, c) /\ Starts(parameters, c) /\ WritesLength(parameters, c)
        /\ Command(name) \in Seq(StartSteps(c)) /\ Command("SetCad") \in Seq(StartSteps(c))
        /\ Starts(Command("SetTxCw"), c) /\ Starts(Command("SetTxInfinitePreamble"), c)
        /\ c.cadExit = 0 => Starts(Command("SetCad"), c)
    BY <1>3, StartParts DEF Starting
  <1>5. \A p, q : Starts(p, c) /\ Starts(q, c) =>
          Starts(p \o q, c) /\ (WritesLength(p, c) \/ WritesLength(q, c) => WritesLength(p \o q, c))
    BY StartsJoin DEF Starts
  <1>6. \A p, q : Starts(p, c) /\ WritesLength(p, c) /\ q \in Seq(StartSteps(c)) =>
          Starts(p \o q, c)
    BY StartsJoin
  <1>7. StartReceive(c) = off \o SetRfSwitch("rx") \o standby \o parameters \o on \o Command(name)
    BY Zenon DEF StartReceive
  <1>8. StartCad(c) = off \o SetRfSwitch("rx") \o scan \o on \o Command("SetCad")
    BY Zenon DEF StartCad
  <1>9. /\ StartContinuousWave = SetRfSwitch("tx") \o tx \o on \o Command("SetTxCw")
        /\ StartContinuousPreamble = SetRfSwitch("tx") \o tx \o on
                                     \o Command("SetTxInfinitePreamble")
    BY Zenon DEF StartContinuousWave, StartContinuousPreamble
  <1>10. (c.cadExit # 0 => scan = parameters) /\ (c.cadExit = 0 => scan = <<>>)
    OBVIOUS
  <1> HIDE DEF off, tx, on, parameters, standby, name, scan
  <1>11. Starts(StartReceive(c), c)
    <2>1. Starts(off \o SetRfSwitch("rx") \o standby, c)
      BY <1>1, <1>4
    <2>2. /\ Starts(off \o SetRfSwitch("rx") \o standby \o parameters, c)
          /\ WritesLength(off \o SetRfSwitch("rx") \o standby \o parameters, c)
      BY <1>4, <1>5, <2>1
    <2>3. /\ Starts(off \o SetRfSwitch("rx") \o standby \o parameters \o on, c)
          /\ WritesLength(off \o SetRfSwitch("rx") \o standby \o parameters \o on, c)
      BY <1>4, <1>5, <2>2
    <2> QED
      BY <1>4, <1>6, <1>7, <2>3
  <1>12. Starts(StartCad(c), c)
    <2>1. Starts(off \o SetRfSwitch("rx"), c)
      BY <1>1, <1>4
    <2>2. /\ Starts(off \o SetRfSwitch("rx") \o scan, c)
          /\ c.cadExit # 0 => WritesLength(off \o SetRfSwitch("rx") \o scan, c)
      <3>1. Starts(scan, c) /\ (c.cadExit # 0 => WritesLength(scan, c))
        BY <1>1, <1>4, <1>10
      <3> QED
        BY <1>5, <2>1, <3>1
    <2>3. /\ Starts(off \o SetRfSwitch("rx") \o scan \o on, c)
          /\ c.cadExit # 0 => WritesLength(off \o SetRfSwitch("rx") \o scan \o on, c)
      BY <1>4, <1>5, <2>2
    <2> QED
      BY <1>4, <1>5, <1>6, <1>8, <2>3
  <1>13. Starts(StartContinuousWave, c) /\ Starts(StartContinuousPreamble, c)
    <2>1. Starts(SetRfSwitch("tx") \o tx \o on, c)
      BY <1>1, <1>4, <1>5
    <2> QED
      BY <1>4, <1>5, <1>9, <2>1
  <1> QED
    BY <1>2, <1>4, <1>11, <1>12, <1>13

(* Transmitting: the harmless part before, the packet's parameters, and what starts it. *)
SendSteps(c, n) == Harmless \cup {On, Send("SetTx"), Parameters(c, n)}
Sent(p, c, n) == p \in Seq(SendSteps(c, n)) /\ \E m \in 1..Len(p) : SendsAt(p, c, n, m)

LEMMA SentJoin ==
  ASSUME NEW c, NEW n, NEW p \in Seq(Harmless), NEW q, Sent(q, c, n),
         NEW z \in Seq(Harmless \cup {On, Send("SetTx")})
  PROVE  Sent(p \o q, c, n) /\ Sent(q \o z, c, n)
  <1> DEFINE T == SendSteps(c, n)
             pq == p \o q
             qz == q \o z
  <1>1. p \in Seq(T) /\ q \in Seq(T) /\ z \in Seq(T)
    <2>1. Harmless \subseteq T /\ Harmless \cup {On, Send("SetTx")} \subseteq T
      BY DEF SendSteps
    <2>2. q \in Seq(T)
      BY DEF Sent
    <2> HIDE DEF T
    <2> QED
      BY <2>1, <2>2
  <1>2. \A i \in 1..Len(p) : p[i] \in Harmless
    OBVIOUS
  <1>3. \A i \in 1..Len(z) : z[i] \in Harmless \cup {On, Send("SetTx")}
    OBVIOUS
  <1>4. PICK m \in 1..Len(q) : SendsAt(q, c, n, m)
    BY DEF Sent
  <1>5. /\ q[m] = Parameters(c, n)
        /\ \A i \in 1..(m - 1) : q[i] \in Harmless
        /\ \A i \in (m + 1)..Len(q) : q[i] \in Harmless \cup {On, Send("SetTx")}
    BY <1>4 DEF SendsAt
  <1> HIDE DEF T, pq, qz
  <1>6. /\ pq \in Seq(T) /\ Len(p) \in Nat /\ Len(q) \in Nat
        /\ Len(pq) = Len(p) + Len(q)
        /\ \A i \in 1..Len(p) : i \in 1..Len(pq) /\ pq[i] = p[i]
        /\ \A i \in 1..Len(q) : Len(p) + i \in 1..Len(pq) /\ pq[Len(p) + i] = q[i]
        /\ \A i \in 1..Len(pq) :
             \/ i \in 1..Len(p)
             \/ i > Len(p) /\ i - Len(p) \in 1..Len(q) /\ pq[i] = q[i - Len(p)]
    BY <1>1, JoinIs DEF pq
  <1>7. /\ qz \in Seq(T) /\ Len(q) \in Nat /\ Len(z) \in Nat
        /\ Len(qz) = Len(q) + Len(z)
        /\ \A i \in 1..Len(q) : i \in 1..Len(qz) /\ qz[i] = q[i]
        /\ \A i \in 1..Len(qz) :
             \/ i \in 1..Len(q)
             \/ i > Len(q) /\ i - Len(q) \in 1..Len(z) /\ qz[i] = z[i - Len(q)]
    BY <1>1, JoinIs DEF qz
  <1>8. Sent(pq, c, n)
    <2> DEFINE k == Len(p) + m
    <2>1. k \in 1..Len(pq) /\ pq[k] = Parameters(c, n)
      BY <1>5, <1>6
    <2>2. ASSUME NEW i \in 1..(k - 1) PROVE pq[i] \in Harmless
      <3>1. i \in 1..Len(pq) /\ (i > Len(p) => i - Len(p) \in 1..(m - 1))
        BY <1>6, <2>2
      <3> QED
        BY <1>2, <1>5, <1>6, <3>1
    <2>3. ASSUME NEW i \in (k + 1)..Len(pq) PROVE pq[i] \in Harmless \cup {On, Send("SetTx")}
      <3>1. i \in 1..Len(pq) /\ ~(i \in 1..Len(p)) /\ i - Len(p) \in (m + 1)..Len(q)
        BY <1>6, <2>3
      <3>2. pq[i] = q[i - Len(p)]
        BY <1>6, <3>1
      <3> QED
        BY <1>5, <3>1, <3>2
    <2> HIDE DEF k
    <2>4. SendsAt(pq, c, n, k)
      BY <2>1, <2>2, <2>3 DEF SendsAt
    <2> QED
      BY <1>6, <2>1, <2>4 DEF Sent, T
  <1>9. Sent(qz, c, n)
    <2>1. m \in 1..Len(qz) /\ qz[m] = Parameters(c, n)
      BY <1>5, <1>7
    <2>2. \A i \in 1..(m - 1) : qz[i] \in Harmless
      BY <1>5, <1>7
    <2>3. ASSUME NEW i \in (m + 1)..Len(qz) PROVE qz[i] \in Harmless \cup {On, Send("SetTx")}
      <3>1. i \in 1..Len(qz) /\ (i \in 1..Len(q) => i \in (m + 1)..Len(q))
        BY <1>7, <2>3
      <3>2. CASE i \in 1..Len(q)
        BY <1>5, <1>7, <3>1, <3>2
      <3>3. CASE ~(i \in 1..Len(q))
        BY <1>3, <1>7, <3>1, <3>3
      <3> QED
        BY <3>2, <3>3
    <2>4. SendsAt(qz, c, n, m)
      BY <2>1, <2>2, <2>3 DEF SendsAt
    <2> QED
      BY <1>7, <2>1, <2>4 DEF Sent, T
  <1> QED
    BY <1>8, <1>9 DEF pq, qz

LEMMA TransmitSends ==
  ASSUME NEW c \in Configurations, NEW n \in Lengths, NEW p \in Seq(Harmless)
  PROVE  Sent(p \o Transmit(c, n), c, n)
  <1> DEFINE tx == Assign("transmitting", TRUE)
             on == Assign("radioOperationActive", TRUE)
             w == Command("WriteBuffer")
             x == tx \o SetRfSwitch("tx")
             S == Harmless \cup {On, Send("SetTx")}
  <1>1. tx \in Seq(Harmless) /\ SetRfSwitch("tx") \in Seq(Harmless) /\ w \in Seq(Harmless)
    BY HarmlessParts, CommandsAre DEF Starting
  <1>2. on = <<On>> /\ Command("SetTx") = <<Send("SetTx")>>
        /\ SetPacketParameters(c, n) = <<Parameters(c, n)>>
    BY DEF Assign, On, Set, Command, Send, SetPacketParameters, Program, Parameters, Write
  <1>3. Transmit(c, n) = x \o SetPacketParameters(c, n) \o w \o on \o Command("SetTx")
    BY Zenon DEF Transmit
  <1> HIDE DEF tx, on, w
  <1>4. x \in Seq(Harmless)
    BY <1>1, HarmlessParts
  <1>5. on \in Seq(S) /\ Command("SetTx") \in Seq(S) /\ w \in Seq(S)
    <2>1. \A e \in S : <<e>> \in Seq(S)
      OBVIOUS
    <2>2. On \in S /\ Send("SetTx") \in S /\ Harmless \subseteq S
      OBVIOUS
    <2> HIDE DEF S
    <2>3. w \in Seq(S)
      BY <1>1, <2>2
    <2> QED
      BY <1>2, <2>1, <2>2, <2>3
  <1>6. Sent(SetPacketParameters(c, n), c, n)
    <2>1. PICK e : e = Parameters(c, n)
      OBVIOUS
    <2>2. PICK q : q = <<e>>
      OBVIOUS
    <2>3. e \in SendSteps(c, n)
      BY <2>1 DEF SendSteps
    <2>4. q \in Seq(SendSteps(c, n)) /\ Len(q) = 1 /\ q[1] = e
      BY <2>2, <2>3
    <2>5. SendsAt(q, c, n, 1)
      BY <2>1, <2>4 DEF SendsAt
    <2> QED
      BY <1>2, <2>1, <2>2, <2>4, <2>5 DEF Sent
  <1> HIDE DEF x, S
  <1>7. PICK q1 : q1 = x \o SetPacketParameters(c, n)
    OBVIOUS
  <1>8. PICK q2 : q2 = q1 \o w
    OBVIOUS
  <1>9. PICK q3 : q3 = q2 \o on
    OBVIOUS
  <1>10. PICK q4 : q4 = q3 \o Command("SetTx")
    OBVIOUS
  <1>11. \A q, z : Sent(q, c, n) /\ z \in Seq(S) => Sent(q \o z, c, n)
    BY <1>4, SentJoin DEF S
  <1>12. \A y, q : y \in Seq(Harmless) /\ Sent(q, c, n) => Sent(y \o q, c, n)
    BY <1>5, SentJoin DEF S
  <1>13. Sent(q1, c, n)
    BY <1>4, <1>6, <1>7, <1>12
  <1>14. Sent(q2, c, n)
    BY <1>5, <1>8, <1>11, <1>13
  <1>15. Sent(q3, c, n)
    BY <1>5, <1>9, <1>11, <1>14
  <1>16. Sent(q4, c, n)
    BY <1>5, <1>10, <1>11, <1>15
  <1>17. q4 = Transmit(c, n)
    BY <1>3, <1>7, <1>8, <1>9, <1>10
  <1> QED
    BY <1>12, <1>16, <1>17

(* Setting a configuration: each part brings its registers, and none takes them back. *)
Clean(p) == \A i \in 1..Len(p) : p[i] # Send("SetPacketType")
Brings(p, r, d) ==
  \E i \in 1..Len(p) :
    /\ p[i] = Write(r, ValueOf(r, d))
    /\ r \in Volatile => \A j \in (i + 1)..Len(p) : p[j] # Send("SetPacketType")

LEMMA BringsJoin ==
  ASSUME NEW d, NEW p \in Seq(ConfigureSteps(d)), NEW q \in Seq(ConfigureSteps(d)), NEW r
  PROVE  /\ p \o q \in Seq(ConfigureSteps(d))
         /\ Clean(p) /\ Clean(q) => Clean(p \o q)
         /\ Brings(q, r, d) => Brings(p \o q, r, d)
         /\ Brings(p, r, d) /\ (r \in Volatile => Clean(q)) => Brings(p \o q, r, d)
  <1>1. /\ p \o q \in Seq(ConfigureSteps(d)) /\ Len(p) \in Nat /\ Len(q) \in Nat
        /\ Len(p \o q) = Len(p) + Len(q)
        /\ \A i \in 1..Len(p) : i \in 1..Len(p \o q) /\ (p \o q)[i] = p[i]
        /\ \A i \in 1..Len(q) : Len(p) + i \in 1..Len(p \o q) /\ (p \o q)[Len(p) + i] = q[i]
        /\ \A i \in 1..Len(p \o q) :
             \/ i \in 1..Len(p)
             \/ i > Len(p) /\ i - Len(p) \in 1..Len(q) /\ (p \o q)[i] = q[i - Len(p)]
    BY JoinIs
  <1> DEFINE pq == p \o q
  <1> HIDE DEF pq
  <1>2. Clean(p) /\ Clean(q) => Clean(pq)
    BY <1>1 DEF Clean, pq
  <1>3. ASSUME Brings(q, r, d) PROVE Brings(pq, r, d)
    <2>1. PICK i \in 1..Len(q) :
            /\ q[i] = Write(r, ValueOf(r, d))
            /\ r \in Volatile => \A j \in (i + 1)..Len(q) : q[j] # Send("SetPacketType")
      BY <1>3 DEF Brings
    <2>2. PICK k \in 1..Len(pq) : k = Len(p) + i /\ pq[k] = q[i]
      BY <1>1 DEF pq
    <2>3. ASSUME r \in Volatile, NEW j \in (k + 1)..Len(pq)
          PROVE  pq[j] # Send("SetPacketType")
      <3>1. j \in 1..Len(pq) /\ ~(j \in 1..Len(p)) /\ j - Len(p) \in (i + 1)..Len(q)
        BY <1>1, <2>2, <2>3 DEF pq
      <3>2. pq[j] = q[j - Len(p)]
        BY <1>1, <3>1 DEF pq
      <3> QED
        BY <2>1, <2>3, <3>1, <3>2
    <2> QED
      BY <2>1, <2>2, <2>3 DEF Brings
  <1>4. ASSUME Brings(p, r, d), r \in Volatile => Clean(q) PROVE Brings(pq, r, d)
    <2>1. PICK i \in 1..Len(p) :
            /\ p[i] = Write(r, ValueOf(r, d))
            /\ r \in Volatile => \A j \in (i + 1)..Len(p) : p[j] # Send("SetPacketType")
      BY <1>4 DEF Brings
    <2>2. i \in 1..Len(pq) /\ pq[i] = p[i]
      BY <1>1 DEF pq
    <2>3. ASSUME r \in Volatile, NEW j \in (i + 1)..Len(pq)
          PROVE  pq[j] # Send("SetPacketType")
      <3>1. j \in 1..Len(pq) /\ (j \in 1..Len(p) => j \in (i + 1)..Len(p))
        BY <1>1, <2>3 DEF pq
      <3>2. CASE j \in 1..Len(p)
        BY <1>1, <2>1, <2>3, <3>1, <3>2 DEF pq
      <3>3. CASE ~(j \in 1..Len(p))
        BY <1>1, <1>4, <2>3, <3>1, <3>3 DEF pq, Clean
      <3> QED
        BY <3>2, <3>3
    <2> QED
      BY <2>1, <2>2, <2>3 DEF Brings
  <1> QED
    BY <1>1, <1>2, <1>3, <1>4 DEF pq

LEMMA WriteBrings ==
  ASSUME NEW d \in Configurations, NEW r \in Registers
  PROVE  LET p == Program(r, ValueOf(r, d)) IN
         /\ p \in Seq(ConfigureSteps(d)) /\ Clean(p) /\ Brings(p, r, d)
  <1> DEFINE s == Write(r, ValueOf(r, d))
  <1>1. Program(r, ValueOf(r, d)) = <<s>>
    BY DEF Program, Write
  <1>2. s \in ConfigureSteps(d) /\ s # Send("SetPacketType")
    BY DEF ConfigureSteps, Write, Send
  <1>3. s = Write(r, ValueOf(r, d))
    OBVIOUS
  <1> HIDE DEF s
  <1>4. <<s>> \in Seq(ConfigureSteps(d)) /\ Len(<<s>>) = 1 /\ <<s>>[1] = s
    BY <1>2
  <1>5. PICK p : p = <<s>>
    OBVIOUS
  <1>6. Clean(p) /\ Brings(p, r, d)
    BY <1>2, <1>3, <1>4, <1>5 DEF Clean, Brings
  <1> QED
    BY <1>1, <1>4, <1>5, <1>6

Bringing(p, R, d) == p \in Seq(ConfigureSteps(d)) /\ \A r \in R : Brings(p, r, d)

LEMMA BringsMore ==
  ASSUME NEW d, NEW p, NEW q, NEW R, NEW Q, Bringing(p, R, d), Bringing(q, Q, d), Clean(q)
  PROVE  Bringing(p \o q, R \cup Q, d)
  <1>1. p \in Seq(ConfigureSteps(d)) /\ q \in Seq(ConfigureSteps(d))
    BY DEF Bringing
  <1>2. \A r : Brings(p, r, d) \/ Brings(q, r, d) => Brings(p \o q, r, d)
    BY <1>1, BringsJoin
  <1>3. p \o q \in Seq(ConfigureSteps(d))
    BY <1>1
  <1> QED
    BY <1>2, <1>3 DEF Bringing

(* The registers of the packet type. *)
LEMMA RegistersBring ==
  ASSUME NEW d \in Configurations
  PROVE  LET registers == RegistersOf(d.type)
             p == [i \in DOMAIN registers |-> Program(registers[i], d)[1]]
         IN /\ p \in Seq(ConfigureSteps(d)) /\ Clean(p)
            /\ \A i \in DOMAIN registers : Brings(p, registers[i], d)
  <1>1. PICK registers : registers = RegistersOf(d.type)
    OBVIOUS
  <1>2. registers \in Seq(Registers) /\ \A i \in DOMAIN registers : registers[i] \notin Volatile
    <2>1. \A i \in DOMAIN RegistersOf(d.type) : RegistersOf(d.type)[i] \notin Volatile
      BY RadioHalAssumption DEF RegistersOf, GenericRegisters, LoraRegisters, Volatile
    <2> QED
      BY <1>1, <2>1, RegistersAre
  <1> DEFINE p == [i \in DOMAIN registers |-> Program(registers[i], d)[1]]
  <1>3. \A i \in DOMAIN registers : Program(registers[i], d)[1] = Write(registers[i], ValueOf(registers[i], d))
    BY <1>2 DEF Program, Write, ValueOf, Volatile
  <1>4. ASSUME NEW i \in DOMAIN registers
        PROVE  Write(registers[i], ValueOf(registers[i], d)) \in ConfigureSteps(d) \ {Send("SetPacketType")}
    <2>1. registers[i] \in Registers
      BY <1>2
    <2> QED
      BY <2>1 DEF ConfigureSteps, Write, Send
  <1>5. PICK n \in Nat : DOMAIN registers = 1..n
    BY <1>2
  <1>6. p = [i \in 1..n |-> Write(registers[i], ValueOf(registers[i], d))]
    BY <1>3, <1>5
  <1>7. p \in [1..n -> ConfigureSteps(d)] /\ \A i \in 1..n : p[i] # Send("SetPacketType")
        /\ p[i] = Write(registers[i], ValueOf(registers[i], d))
    BY <1>4, <1>5, <1>6
  <1> HIDE DEF p
  <1>8. p \in Seq(ConfigureSteps(d)) /\ Len(p) = n
    BY <1>7
  <1>9. Clean(p)
    BY <1>7, <1>8 DEF Clean
  <1>10. \A i \in DOMAIN registers : Brings(p, registers[i], d)
    BY <1>2, <1>5, <1>7, <1>8 DEF Brings
  <1> QED
    BY <1>1, <1>8, <1>9, <1>10 DEF p

(* rfManagerHal_setConfiguration() after rfManagerHal_stop(). *)
LEMMA SetConfigurationBrings ==
  ASSUME NEW d \in Configurations
  PROVE  /\ Stop \o SetConfiguration(d) \in Seq(ConfigureSteps(d))
         /\ \A r \in Needed(d) : Brings(Stop \o SetConfiguration(d), r, d)
  <1> DEFINE S == ConfigureSteps(d)
             Q == {RegistersOf(d.type)[i] : i \in DOMAIN RegistersOf(d.type)}
             M == IF d.type = "FSK" THEN SetFskModulationParameters(d) ELSE Program("modulation", d)
             R == [i \in DOMAIN RegistersOf(d.type) |-> Program(RegistersOf(d.type)[i], d)[1]]
             P == SetPacketParameters(d, d.length)
  <1>1. \A r \in {"rf_frequency", "modulation", "tx_parameters"} :
          Program(r, d) \in Seq(S) /\ Clean(Program(r, d)) /\ Brings(Program(r, d), r, d)
    <2>1. \A r \in {"rf_frequency", "modulation", "tx_parameters"} : r \in Registers /\ ValueOf(r, d) = d
      BY RegistersAre DEF ValueOf
    <2> QED
      BY <2>1, WriteBrings
  <1>2. P \in Seq(S) /\ Clean(P) /\ Brings(P, "packet_parameters", d)
    <2>1. P = Program("packet_parameters", ValueOf("packet_parameters", d))
          /\ "packet_parameters" \in Registers
      BY RegistersAre DEF ValueOf, SetPacketParameters
    <2>2. PICK r \in Registers : r = "packet_parameters"
      BY <2>1
    <2> QED
      BY <2>1, <2>2, WriteBrings
  <1>3. R \in Seq(S) /\ Clean(R) /\ \A r \in Q : Brings(R, r, d)
    BY RegistersBring
  <1>4. \A p \in Seq(Harmless) : p \in Seq(S) /\ Clean(p)
    <2>1. Harmless \subseteq S
      BY DEF ConfigureSteps
    <2>2. \A p \in Seq(Harmless) : \A i \in 1..Len(p) : p[i] \in Harmless
      OBVIOUS
    <2> HIDE DEF S
    <2> QED
      BY <2>1, <2>2, HarmlessAre DEF Clean
  <1>5. Command("SetPacketType") \in Seq(S)
    <2>1. PICK s \in S : s = Send("SetPacketType")
      BY DEF ConfigureSteps
    <2>2. Command("SetPacketType") = <<s>>
      BY <2>1 DEF Command, Send
    <2>3. PICK T : T = S
      OBVIOUS
    <2>4. s \in T
      BY <2>1, <2>3
    <2> HIDE DEF S
    <2>5. <<s>> \in Seq(T)
      BY <2>4
    <2> QED
      BY <2>2, <2>3, <2>5
  <1>6. M \in Seq(S) /\ Clean(M) /\ Brings(M, "modulation", d)
    <2>1. CASE d.type # "FSK"
      BY <1>1, <2>1
    <2>2. CASE d.type = "FSK"
      <3>1. PICK q \in Seq(Harmless) : q = Command("TxModulationWorkaround")
        <4>1. "TxModulationWorkaround" \in CommandNames \ (Starting \cup {"SetPacketType"})
          BY CommandsAre DEF Starting
        <4> QED
          BY <4>1, HarmlessParts
      <3>2. PICK p : p = Program("modulation", d)
        OBVIOUS
      <3>3. p \in Seq(S) /\ q \in Seq(S) /\ Clean(p) /\ Clean(q) /\ Brings(p, "modulation", d)
        BY <1>1, <1>4, <3>1, <3>2
      <3>4. p \o q \in Seq(S) /\ Clean(p \o q) /\ Brings(p \o q, "modulation", d)
        BY <3>3, BringsJoin
      <3> QED
        BY <2>2, <3>1, <3>2, <3>4 DEF SetFskModulationParameters
    <2> QED
      BY <2>1, <2>2
  <1>7. SetConfiguration(d) =
          Program("rf_frequency", d) \o Command("SetPacketType") \o M \o R
          \o Program("tx_parameters", d) \o P
    BY Zenon DEF SetConfiguration
  <1> HIDE DEF M, R, P
  <1>9. PICK p1 : p1 = Program("rf_frequency", d)
    OBVIOUS
  <1>10. PICK p2 : p2 = p1 \o Command("SetPacketType")
    OBVIOUS
  <1>11. PICK p3 : p3 = p2 \o M
    OBVIOUS
  <1>12. PICK p4 : p4 = p3 \o R
    OBVIOUS
  <1>13. PICK p5 : p5 = p4 \o Program("tx_parameters", d)
    OBVIOUS
  <1>14. PICK p6 : p6 = p5 \o P
    OBVIOUS
  <1> HIDE DEF S, Q
  <1>15. Bringing(p2, {"rf_frequency"}, d)
    <2>1. PICK q : q = Command("SetPacketType")
      OBVIOUS
    <2>2. p1 \in Seq(S) /\ q \in Seq(S) /\ Brings(p1, "rf_frequency", d)
      BY <1>1, <1>5, <1>9, <2>1
    <2>3. "rf_frequency" \notin Volatile
      BY DEF Volatile
    <2>4. p1 \o q \in Seq(S) /\ Brings(p1 \o q, "rf_frequency", d)
      BY <2>2, <2>3, BringsJoin DEF S
    <2> QED
      BY <1>10, <2>1, <2>4 DEF Bringing, S
  <1>16. Bringing(p3, {"rf_frequency"} \cup {"modulation"}, d)
    <2>1. Bringing(M, {"modulation"}, d)
      BY <1>6 DEF Bringing, S
    <2> QED
      BY <1>6, <1>11, <1>15, <2>1, BringsMore
  <1>17. Bringing(p4, ({"rf_frequency"} \cup {"modulation"}) \cup Q, d)
    <2>1. Bringing(R, Q, d)
      BY <1>3 DEF Bringing, S
    <2> QED
      BY <1>3, <1>12, <1>16, <2>1, BringsMore
  <1>18. Bringing(p5, (({"rf_frequency"} \cup {"modulation"}) \cup Q) \cup {"tx_parameters"}, d)
    <2>1. PICK q : q = Program("tx_parameters", d)
      OBVIOUS
    <2>2. Bringing(q, {"tx_parameters"}, d) /\ Clean(q)
      BY <1>1, <2>1 DEF Bringing, S
    <2> QED
      BY <1>13, <1>17, <2>1, <2>2, BringsMore
  <1>19. Bringing(p6, ((({"rf_frequency"} \cup {"modulation"}) \cup Q) \cup {"tx_parameters"})
                      \cup {"packet_parameters"}, d)
    <2>1. Bringing(P, {"packet_parameters"}, d)
      BY <1>2 DEF Bringing, S
    <2> QED
      BY <1>2, <1>14, <1>18, <2>1, BringsMore
  <1>20. p6 = SetConfiguration(d)
    BY <1>7, <1>9, <1>10, <1>11, <1>12, <1>13, <1>14
  <1>21. p6 \in Seq(S) /\ \A r \in Needed(d) : Brings(p6, r, d)
    BY <1>19 DEF Bringing, Needed, Q, S
  <1>22. Stop \in Seq(S)
    <2>1. Stop \in Seq(Harmless)
      BY StopIsFirst
    <2> QED
      BY <1>4, <2>1
  <1>23. PICK p7 : p7 = Stop \o p6
    OBVIOUS
  <1>24. p7 \in Seq(S) /\ \A r \in Needed(d) : Brings(p7, r, d)
    <2>1. \A r : Brings(p6, r, d) => Brings(Stop \o p6, r, d)
      BY <1>21, <1>22, BringsJoin DEF S
    <2>2. Stop \o p6 \in Seq(S)
      BY <1>21, <1>22
    <2> QED
      BY <1>21, <1>23, <2>1, <2>2
  <1> QED
    BY <1>20, <1>23, <1>24 DEF S

(* A request that configures. *)
LEMMA ConfigurationComes ==
  ASSUME NEW v \in ViewType, NEW d \in Configurations
  PROVE  Configures(v, <<>>, Stop \o SetConfiguration(d) \o Assign("configuration", d)
                             \o Operation("IDLE"))
  <1>1. PICK p \in Seq(ConfigureSteps(d)) : p = Stop \o SetConfiguration(d)
    BY SetConfigurationBrings
  <1>2. \A r \in Needed(d) : Brings(p, r, d)
    BY <1>1, SetConfigurationBrings
  <1>3. PICK s : s = Set("configuration", d)
    OBVIOUS
  <1>4. PICK o \in Seq(Harmless) : o = Operation("IDLE")
    BY HarmlessParts DEF Operations
  <1>5. \A e \in ConfigureSteps(d) : e \in AnyStep
    BY ConfigureStepsAre
  <1>6. p \in Seq(AnyStep)
    BY <1>1, <1>5
  <1>7. s \in AnyStep
    BY <1>3 DEF Set, AnyStep, Ordinary, Assignment, Configured
  <1>8. o \in Seq(AnyStep)
    <2>1. Harmless \subseteq AnyStep
      BY DEF Harmless
    <2> QED
      BY <1>4, <2>1
  <1>9. PICK q : q = p \o <<s>>
    OBVIOUS
  <1>10. /\ q \in Seq(AnyStep) /\ Len(p) \in Nat /\ Len(q) = Len(p) + 1
         /\ \A i \in 1..Len(p) : q[i] = p[i]
         /\ q[Len(p) + 1] = s
    BY <1>6, <1>7, <1>9, StepAtEnd
  <1> DEFINE H == Stop \o SetConfiguration(d) \o Assign("configuration", d)
                  \o Operation("IDLE")
             h == q \o o
  <1>11. h = H
    BY <1>1, <1>3, <1>4, <1>9 DEF Assign, Set
  <1> HIDE DEF h, H
  <1>12. /\ h \in Seq(AnyStep) /\ Len(o) \in Nat /\ Len(h) = Len(q) + Len(o)
         /\ \A i \in 1..Len(q) : h[i] = q[i]
         /\ \A i \in 1..Len(h) :
              \/ i \in 1..Len(q)
              \/ i > Len(q) /\ i - Len(q) \in 1..Len(o) /\ h[i] = o[i - Len(q)]
    <2>1. PICK S : S = AnyStep
      OBVIOUS
    <2>2. q \in Seq(S) /\ o \in Seq(S)
      BY <1>8, <1>10, <2>1
    <2>3. /\ h \in Seq(S) /\ Len(o) \in Nat /\ Len(h) = Len(q) + Len(o)
          /\ \A i \in 1..Len(q) : h[i] = q[i]
          /\ \A i \in 1..Len(h) :
               \/ i \in 1..Len(q)
               \/ i > Len(q) /\ i - Len(q) \in 1..Len(o) /\ h[i] = o[i - Len(q)]
      BY <2>2, JoinIs DEF h
    <2> QED
      BY <2>1, <2>3
  <1> DEFINE m == Len(p) + 1
  <1>13. m \in 1..Len(h) /\ h[m] = s
    BY <1>10, <1>12
  <1>14. \A i \in 1..(m - 1) : h[i] = p[i]
    BY <1>10, <1>12
  <1>15. \A i \in 1..(m - 1) : p[i] \in ConfigureSteps(d)
    BY <1>1
  <1>16. ASSUME NEW i \in (m + 1)..Len(h) PROVE h[i] \in Harmless
    <2>1. i \in 1..Len(h) /\ ~(i \in 1..Len(q))
      BY <1>10, <1>12, <1>16
    <2>2. i - Len(q) \in 1..Len(o) /\ h[i] = o[i - Len(q)]
      BY <1>12, <2>1
    <2> QED
      BY <1>4, <2>2
  <1>17. ASSUME NEW r \in Needed(d)
         PROVE  \E i \in 0..(m - 1) : Comes(v, <<>>, h, r, d, i)
    <2>1. PICK i \in 1..Len(p) :
            /\ p[i] = Write(r, ValueOf(r, d))
            /\ r \in Volatile => \A j \in (i + 1)..Len(p) : p[j] # Send("SetPacketType")
      BY <1>2, <1>17 DEF Brings
    <2>2. i \in 0..(m - 1) /\ i # 0 /\ h[i] = Write(r, ValueOf(r, d))
      BY <1>10, <1>14, <2>1
    <2>3. ASSUME r \in Volatile, NEW j \in (i + 1)..Len(h)
          PROVE  h[j] # Send("SetPacketType")
      <3>1. CASE j \in 1..(m - 1)
        <4>1. j \in (i + 1)..Len(p)
          BY <1>10, <2>1, <2>3, <3>1
        <4> QED
          BY <1>14, <2>1, <2>3, <3>1, <4>1
      <3>2. CASE j = m
        BY <1>3, <1>13, <3>2 DEF Set, Send
      <3>3. CASE j \in (m + 1)..Len(h)
        BY <1>16, <3>3, HarmlessAre
      <3>4. j \in 1..(m - 1) \/ j = m \/ j \in (m + 1)..Len(h)
        <4>1. Len(h) \in Nat /\ Len(p) \in Nat /\ i \in Nat \ {0} /\ j \in Int
              /\ j > i /\ j <= Len(h)
          BY <1>10, <1>12, <2>1, <2>3
        <4> QED
          BY <4>1
      <3> QED
        BY <3>1, <3>2, <3>3, <3>4
    <2> QED
      BY <2>2, <2>3 DEF Comes
  <1> HIDE DEF m
  <1>18. ConfiguresAt(v, <<>>, h, d, m)
    BY <1>3, <1>13, <1>14, <1>15, <1>16, <1>17 DEF ConfiguresAt
  <1>19. Configures(v, <<>>, h)
    BY <1>13, <1>18 DEF Configures
  <1> QED
    BY <1>11, <1>19 DEF H

(* An idle object is ready for whatever is asked of it. *)
LEMMA IdleIsReady ==
  ASSUME NEW v, Fits(v, <<>>, <<>>), v.configuration \in Configurations
  PROVE  Ready(v)
  BY DEF Fits, Settled, Configures

LEMMA TransmitIs ==
  \A c \in Configurations, n \in Lengths : Transmit(c, n) \in Programs
  <1> SUFFICES ASSUME NEW c \in Configurations, NEW n \in Lengths
               PROVE  Transmit(c, n) \in Programs
    OBVIOUS
  <1>1. SetPacketParameters(c, n) \in Programs
    BY ParametersAre, RadioHalAssumption DEF Configured
  <1> QED
    BY <1>1, Pieces, CommandsAre DEF Transmit

LEMMA OperationFits ==
  ASSUME NEW v \in ViewType, Fits(v, <<>>, <<>>), v.configuration \in Configurations,
         NEW o \in Operations, NEW p, Starts(p, v.configuration),
         NEW h, h = Stop \o Operation(o) \o p
  PROVE  Fits(v, <<>>, h)
  <1> DEFINE c == v.configuration
  <1>1. Stop \o Operation(o) \in Seq(Harmless)
    BY StopIsFirst, HarmlessParts
  <1>2. Starts(Stop \o Operation(o), c)
    BY <1>1, StartParts
  <1>3. p \in Seq(StartSteps(c))
    BY DEF Starts
  <1>4. Starts(h, c)
    BY <1>2, <1>3, StartsJoin
  <1> HIDE DEF c
  <1>5. Acting(v, h)
    BY <1>4, IdleIsReady DEF Acting, Starts, c
  <1> QED
    BY <1>5, IdleIsReady, EmptyIsCalm DEF Fits, Settled, HandlerFits, TaskFits

LEMMA RequestFits ==
  ASSUME NEW v \in ViewType, Fits(v, <<>>, <<>>), v = View, NEW h \in Handlers
  PROVE  Fits(v, <<>>, h)
  <1> DEFINE c == v.configuration
  <1>1. mem.configuration = c
    BY DEF View
  <1>2. Sound(v) /\ HandlerFits(v, <<>>)
    BY DEF Fits
  <1>3. \A p : v.configuration \in Configurations => Settled(v, <<>>, p)
    BY IdleIsReady DEF Settled
  <1>4. \A p : Settled(v, <<>>, p)
    BY <1>3 DEF Settled
  <1>5. c \in Configurations \/ c = NoConfiguration
    BY DEF ViewType, Configured
  <1>6. <<>> \in Seq(AnyStep) /\ Harmless \subseteq AnyStep
    BY DEF Harmless
  <1>7. Stop \in Seq(Harmless)
    BY StopIsFirst
  <1>8. \A p : p \in Seq(Harmless) => Fits(v, <<>>, p)
    BY <1>2, <1>4 DEF Fits, TaskFits
  <1>9. \A p, q : Stopping(p) /\ q \in Programs => Stopping(p \o q)
    <2>1. \A s \in Ordinary : s \in AnyStep
      BY OrdinaryIs
    <2>2. \A q \in Programs : q \in Seq(AnyStep)
      BY <2>1 DEF Programs
    <2> QED
      BY <2>2, StoppingStays
  <1>10. /\ \A p \in Programs : Stopping(Stop \o p)
         /\ \A p, q \in Programs : StopsFirst(v, <<>>, Stop \o p \o q)
         /\ \A p, q, r \in Programs : StopsFirst(v, <<>>, Stop \o p \o q \o r)
    <2>1. \A p : Stopping(p) => StopsFirst(v, <<>>, p)
      BY DEF Stopping, StopsFirst
    <2> QED
      BY <1>9, <2>1, StopIsFirst
  <1>11. ASSUME NEW d \in Configurations
        PROVE  Fits(v, <<>>, Stop \o SetConfiguration(d) \o Assign("configuration", d)
                             \o Operation("IDLE"))
    <2>1. PICK g : g = Stop \o SetConfiguration(d) \o Assign("configuration", d)
                       \o Operation("IDLE")
      OBVIOUS
    <2>2. Configures(v, <<>>, g)
      BY <2>1, ConfigurationComes
    <2>3. StopsFirst(v, <<>>, g)
      <3>1. /\ SetConfiguration(d) \in Programs /\ Assign("configuration", d) \in Programs
            /\ Operation("IDLE") \in Programs
        BY SetConfigurationIs, Pieces DEF Operations
      <3> QED
        BY <1>10, <2>1, <3>1
    <2> QED
      BY <1>2, <1>4, <2>1, <2>2, <2>3 DEF Fits, TaskFits
  <1>12. Fits(v, <<>>, GetErrors)
    <2>1. "GetDeviceErrors" \in CommandNames \ (Starting \cup {"SetPacketType"})
      BY CommandsAre DEF Starting
    <2>2. GetErrors \in Seq(Harmless)
      BY <2>1, HarmlessParts DEF GetErrors
    <2> QED
      BY <1>8, <2>2
  <1>13. Operation("IDLE") \in Seq(Harmless) /\ Operation("CALIBRATION") \in Seq(Harmless)
    BY HarmlessParts DEF Operations
  <1>14. \A p, q \in Seq(Harmless) : p \o q \in Seq(Harmless)
    BY HarmlessParts
  <1>15. Fits(v, <<>>, Stop \o Operation("IDLE"))
    BY <1>7, <1>8, <1>13, <1>14
  <1>16. Fits(v, <<>>, Stop \o Operation("CALIBRATION") \o Calibrate)
    <2>1. Calibrate \in Seq(Harmless)
      <3>1. {"Cal", "CalImg"} \subseteq CommandNames \ (Starting \cup {"SetPacketType"})
        BY CommandsAre DEF Starting
      <3>2. Command("Cal") \in Seq(Harmless) /\ Command("CalImg") \in Seq(Harmless)
        BY <3>1, HarmlessParts
      <3> QED
        BY <1>14, <3>2 DEF Calibrate
    <2> QED
      BY <1>7, <1>8, <1>13, <1>14, <2>1
  <1>17. ASSUME c # NoConfiguration, NEW n \in Lengths
         PROVE  Fits(v, <<>>, Stop \o Operation("PACKET_TX") \o Transmit(c, n))
    <2>1. PICK p \in Seq(Harmless) : p = Stop \o Operation("PACKET_TX")
      <3>1. Operation("PACKET_TX") \in Seq(Harmless)
        BY HarmlessParts DEF Operations
      <3> QED
        BY <1>7, <1>14, <3>1
    <2>2. PICK g : g = p \o Transmit(c, n)
      OBVIOUS
    <2>3. Sent(g, c, n)
      BY <1>5, <1>17, <2>1, <2>2, TransmitSends
    <2>4. Ready(v) /\ Sends(v, g)
      BY <1>5, <1>17, <2>3, IdleIsReady DEF Sends, Sent
    <2>5. StopsFirst(v, <<>>, g)
      <3>1. Operation("PACKET_TX") \in Programs
        BY Pieces DEF Operations
      <3>2. Transmit(c, n) \in Programs
        BY <1>5, <1>17, TransmitIs
      <3> QED
        BY <1>10, <2>1, <2>2, <3>1, <3>2
    <2> QED
      BY <1>2, <1>4, <2>1, <2>2, <2>4, <2>5 DEF Fits, TaskFits
  <1>18. ASSUME c # NoConfiguration, NEW o \in Operations, NEW p, Starts(p, c)
         PROVE  Fits(v, <<>>, Stop \o Operation(o) \o p)
    BY <1>5, <1>18, OperationFits
  <1>19. ASSUME c # NoConfiguration
         PROVE  /\ Fits(v, <<>>, Stop \o Operation("CONTINUOUS_WAVE_TX") \o StartContinuousWave)
                /\ Fits(v, <<>>, Stop \o Operation("CONTINUOUS_PREAMBLE_TX")
                                \o StartContinuousPreamble)
                /\ Fits(v, <<>>, Stop \o Operation("RX") \o StartReceive(c))
                /\ Fits(v, <<>>, Stop \o Operation("CAD") \o StartCad(c))
    <2>1. {"CONTINUOUS_WAVE_TX", "CONTINUOUS_PREAMBLE_TX", "RX", "CAD"} \subseteq Operations
      BY DEF Operations
    <2>2. c \in Configurations
      BY <1>5, <1>19
    <2> QED
      BY <1>18, <1>19, <2>1, <2>2, OperationsStart
  <1> QED
    <2>1. h \in {Stop \o SetConfiguration(d) \o Assign("configuration", d) \o Operation("IDLE") :
                   d \in Configurations}
          \/ h \in {GetErrors, Stop \o Operation("IDLE"),
                   Stop \o Operation("CALIBRATION") \o Calibrate}
          \/ /\ c # NoConfiguration
             /\ \/ h \in {Stop \o Operation("PACKET_TX") \o Transmit(c, n) : n \in Lengths}
                \/ h = Stop \o Operation("CONTINUOUS_WAVE_TX") \o StartContinuousWave
                \/ h = Stop \o Operation("CONTINUOUS_PREAMBLE_TX") \o StartContinuousPreamble
                \/ h = Stop \o Operation("RX") \o StartReceive(c)
                \/ h = Stop \o Operation("CAD") \o StartCad(c)
      BY <1>1 DEF Handlers
    <2> HIDE DEF c
    <2> QED
      BY <1>11, <1>12, <1>15, <1>16, <1>17, <1>19, <2>1

(* The handler calls back: nothing once the flag is cleared, else it starts again what listens. *)
LEMMA CallbacksFit ==
  ASSUME NEW v \in ViewType, v = View, NEW isr, NEW p, Fits(v, isr, p)
  PROVE  Fits(v, Callbacks, p)
  <1> DEFINE c == mem.configuration
             seen == IF mem.radioOperationActive THEN irq ELSE {}
             rearm == IF mem.active_operation = "CAD" THEN StartCad(c)
                      ELSE IF c.rxMode = 2 THEN StartReceive(c) ELSE <<>>
             c1 == IF "CRC_ERROR" \in seen
                   THEN (IF mem.active_operation = "RX" /\ c.rxMode = 2
                         THEN StartReceive(c) ELSE <<>>)
                   ELSE IF "RX_DONE" \in seen THEN ReadReceivedPacket \o rearm ELSE <<>>
             c2 == IF "TIMEOUT" \in seen /\ ~mem.transmitting THEN rearm ELSE <<>>
             c3 == IF "CAD_DONE" \in seen /\ "CAD_DETECTED" \notin seen THEN StartCad(c)
                   ELSE <<>>
  <1>1. Callbacks = c1 \o c2 \o c3
    BY Zenon DEF Callbacks
  <1>2. v.configuration = c /\ v.active = mem.radioOperationActive
    BY DEF View
  <1>3. ASSUME ~v.active PROVE Callbacks = <<>>
    <2>1. seen = {}
      BY <1>2, <1>3
    <2> HIDE DEF seen
    <2>2. c1 = <<>> /\ c2 = <<>> /\ c3 = <<>>
      BY <2>1
    <2> HIDE DEF c1, c2, c3
    <2> QED
      BY <1>1, <2>2
  <1>4. ASSUME v.active PROVE Starts(Callbacks, c)
    <2>1. c \in Configurations
      BY <1>2, <1>4 DEF Fits, Sound, Quiet, Ready
    <2>2. Starts(StartReceive(c), c) /\ Starts(StartCad(c), c) /\ Starts(ReadReceivedPacket, c)
      BY <2>1, OperationsStart
    <2>3. Starts(<<>>, c)
      BY <2>1, HarmlessParts, StartParts
    <2>4. \A q, r : Starts(q, c) /\ Starts(r, c) => Starts(q \o r, c)
      BY StartsJoin DEF Starts
    <2> HIDE DEF c, seen
    <2>5. Starts(rearm, c)
      BY <2>2, <2>3
    <2> HIDE DEF rearm
    <2>6. Starts(c1, c) /\ Starts(c2, c) /\ Starts(c3, c)
      BY <2>2, <2>3, <2>4, <2>5
    <2> HIDE DEF c1, c2, c3
    <2> QED
      BY <1>1, <2>4, <2>6
  <1> HIDE DEF c
  <1> QED
    BY <1>2, <1>3, <1>4, CallBackStep DEF Starts

(* The object calls nothing back. *)
LEMMA ObjectCallsNothingBack ==
  ASSUME NEW v, NEW p \in Seq(AnyStep), p # <<>>, Fits(v, <<>>, p)
  PROVE  Head(p).do # "callBack"
  <1>1. Head(p) = p[1] /\ 1 \in 1..Len(p) /\ Len(p) \in Nat
    OBVIOUS
  <1>2. CASE p \in Seq(Harmless)
    <2>1. p[1] \in Harmless
      BY <1>1, <1>2
    <2> QED
      BY <1>1, <2>1, HarmlessAre
  <1>3. CASE Acting(v, p)
    <2>1. p[1] \in StartSteps(v.configuration)
      BY <1>1, <1>3 DEF Acting
    <2> QED
      BY <1>1, <2>1, StartStepsAre
  <1>4. CASE Sends(v, p)
    <2>1. PICK m \in 1..Len(p), n \in Lengths : SendsAt(p, v.configuration, n, m)
      BY <1>4 DEF Sends
    <2>2. CASE m = 1
      BY <1>1, <2>1, <2>2 DEF SendsAt, Parameters, Write
    <2>3. CASE m # 1
      <3>1. p[1] \in Harmless
        BY <2>1, <2>3 DEF SendsAt
      <3> QED
        BY <1>1, <3>1, HarmlessAre
    <2> QED
      BY <2>2, <2>3
  <1>5. CASE Configures(v, <<>>, p)
    <2>1. PICK d \in Configurations, m \in 1..Len(p) : ConfiguresAt(v, <<>>, p, d, m)
      BY <1>5 DEF Configures
    <2>2. CASE m = 1
      BY <1>1, <2>1, <2>2 DEF ConfiguresAt, Set
    <2>3. CASE m # 1
      <3>1. p[1] \in ConfigureSteps(d)
        BY <2>1, <2>3 DEF ConfiguresAt
      <3>2. \/ p[1] \in Harmless \/ p[1] = Send("SetPacketType")
            \/ \E r \in Registers : p[1] = Write(r, ValueOf(r, d))
        BY <3>1 DEF ConfigureSteps
      <3>3. p[1] \in Harmless => p[1].do # "callBack"
        BY HarmlessAre
      <3>4. \A r, x : Write(r, x).do # "callBack"
        BY DEF Write
      <3>5. Send("SetPacketType").do # "callBack"
        BY DEF Send
      <3>6. p[1].do # "callBack"
        BY <3>2, <3>3, <3>4, <3>5, Zenon
      <3> QED
        BY <1>1, <3>6
    <2> QED
      BY <2>2, <2>3
  <1> QED
    BY <1>2, <1>3, <1>4, <1>5 DEF Fits, TaskFits

-----------------------------------------------------------------------------
(* The state: a transaction is one step of its context's program, and a step without one the *)
(* object or the handler takes at once. *)
Transacting == \A a \in Contexts : at[a] # "next" => Step(a).do \notin {"assign", "callBack"}
ProgrammedInv == Programmed /\ Transacting

LEMMA RestsAre ==
  ASSUME HalInv
  PROVE  /\ View \in ViewType
         /\ \A a \in Contexts : todo[a] \in Seq(AnyStep) /\ Rest(a) \in Seq(AnyStep)
         /\ todo["isr"] = <<>> => Rest("isr") = <<>>
  <1>1. View \in ViewType
    BY DEF HalInv, TypeOK, MemoryType, RadioType, View, ViewType
  <1>2. \A p \in Seq(Ordinary) : p \in Seq(AnyStep)
    <2>1. \A s \in Ordinary : s \in AnyStep
      BY OrdinaryIs
    <2> QED
      BY <2>1
  <1>3. todo["isr"] \in Seq(AnyStep)
    BY <1>2 DEF HalInv, TypeOK
  <1>4. todo["task"] \in Seq(AnyStep)
    <2>1. CASE mem.initialised
      BY <1>2, <2>1 DEF HalInv, TypeOK
    <2>2. CASE ~mem.initialised
      BY <2>2, LeftIs DEF HalInv, Initialising, InitialisedSoFar
    <2> QED
      BY <2>1, <2>2
  <1>5. \A a \in Contexts : todo[a] \in Seq(AnyStep) /\ (todo[a] = <<>> => at[a] = "next")
    BY <1>3, <1>4 DEF HalInv, InterruptIsKept, Contexts
  <1>6. \A a \in Contexts : Rest(a) \in Seq(AnyStep)
    BY <1>5 DEF Rest
  <1> QED
    BY <1>1, <1>5, <1>6 DEF Rest, Contexts

LEMMA StepTaken ==
  ASSUME HalInv, Programmed, NEW a \in Contexts, Runs(a), at[a] # "window",
         Step(a).do # "callBack", View' = After(View, Step(a)), Rest(a)' = Tail(todo[a]),
         \A b \in Contexts : b # a => Rest(b)' = Rest(b)
  PROVE  Programmed'
  <1>1. /\ View \in ViewType /\ Rest(a) = todo[a] /\ todo[a] \in Seq(AnyStep) /\ todo[a] # <<>>
        /\ a = "task" => Rest("isr") = <<>>
    BY RestsAre DEF Rest, Runs
  <1>2. Fits(View, Rest("isr"), Rest("task"))
    BY DEF Programmed
  <1>3. CASE a = "isr"
    <2>1. Fits(After(View, Head(todo["isr"])), Tail(todo["isr"]), Rest("task"))
      BY <1>1, <1>2, <1>3, HandlerStep DEF Step
    <2>2. Rest("task")' = Rest("task")
      BY <1>3 DEF Contexts
    <2> QED
      BY <1>3, <2>1, <2>2 DEF Programmed, Step
  <1>4. CASE a = "task"
    <2>1. Fits(After(View, Head(todo["task"])), <<>>, Tail(todo["task"]))
      BY <1>1, <1>2, <1>4, ObjectStep
    <2>2. Rest("isr")' = <<>>
      BY <1>1, <1>4 DEF Contexts
    <2> QED
      BY <1>4, <2>1, <2>2 DEF Programmed, Step
  <1> QED
    BY <1>3, <1>4 DEF Contexts

LEMMA NoStepTaken ==
  ASSUME Programmed, Gentle(View, View'), \A a \in Contexts : Rest(a)' = Rest(a)
  PROVE  Programmed'
  <1>1. Fits(View, Rest("isr"), Rest("task"))
    BY DEF Programmed
  <1>2. HandlerFits(View', Rest("isr"))
    BY <1>1, GentleKeeps DEF Fits, HandlerFits
  <1>3. Fits(View', Rest("isr"), Rest("task"))
    BY <1>1, <1>2, GentleFits
  <1> QED
    BY <1>3 DEF Programmed, Contexts

LEMMA SameViewIsGentle == ASSUME NEW v, NEW w, v = w PROVE Gentle(v, w)
  BY DEF Gentle

LEMMA ProgrammedKeptByCompute ==
  ASSUME HalInv, ProgrammedInv, NEW a \in Contexts, Compute(a)
  PROVE  ProgrammedInv'
  <1>1. /\ Runs(a) /\ at[a] = "next" /\ at' = at /\ radio' = radio
        /\ DOMAIN todo = Contexts /\ View \in ViewType
        /\ todo[a] \in Seq(AnyStep) /\ todo[a] # <<>> /\ Step(a) \in AnyStep
        /\ mem \in MemoryType
    BY RestsAre, RunsIs DEF Compute, HalInv, TypeOK
  <1>2. \A b \in Contexts : b # a => todo'[b] = todo[b]
    BY <1>1 DEF Compute, Finish
  <1>3. Transacting'
    <2>1. \A b \in Contexts : at'[b] # "next" => todo'[b] = todo[b]
      BY <1>1, <1>2
    <2> QED
      BY <1>1, <2>1 DEF ProgrammedInv, Transacting, Step
  <1>4. \A b \in Contexts : b # a => Rest(b)' = Rest(b)
    BY <1>1, <1>2 DEF Rest
  <1>5. CASE Step(a).do = "callBack"
    <2>1. /\ Fits(View, Rest("isr"), Rest("task")) /\ Rest(a) = todo[a]
          /\ a = "task" => Rest("isr") = <<>>
      BY <1>1, RestsAre DEF ProgrammedInv, Programmed, Rest, Runs
    <2>2. a = "isr"
      <3>1. CASE a = "task"
        BY <1>1, <1>5, <2>1, <3>1, ObjectCallsNothingBack DEF Step
      <3> QED
        BY <3>1 DEF Contexts
    <2>3. Fits(View, Callbacks, Rest("task"))
      BY <1>1, <2>1, CallbacksFit
    <2>4. View' = View /\ Rest("isr")' = Callbacks /\ Rest("task")' = Rest("task")
      BY <1>1, <1>4, <1>5, <2>2 DEF Compute, View, Rest, Contexts
    <2>5. Programmed'
      BY <2>3, <2>4 DEF Programmed
    <2> QED
      BY <1>3, <2>5 DEF ProgrammedInv
  <1>6. CASE Step(a).do # "callBack"
    <2>1. Rest(a)' = Tail(todo[a])
      BY <1>1, <1>6 DEF Compute, Finish, Rest
    <2>2. View' = After(View, Step(a))
      <3>1. CASE Step(a).do = "assign"
        BY <1>1, <3>1 DEF Compute, View, After, MemoryType
      <3>2. CASE Step(a).do \in {"clearErrors", "clearRead"}
        BY <1>1, <3>2 DEF Compute, View, After
      <3> QED
        BY <1>6, <3>1, <3>2 DEF Compute
    <2>3. at[a] # "window"
      BY <1>1
    <2>4. Programmed'
      BY <1>1, <1>4, <1>6, <2>1, <2>2, <2>3, StepTaken DEF ProgrammedInv
    <2> QED
      BY <1>3, <2>4 DEF ProgrammedInv
  <1> QED
    BY <1>5, <1>6

LEMMA ProgrammedKeptByPlaces ==
  ASSUME HalInv, ProgrammedInv, NEW a \in Contexts,
         Begin(a) \/ Poll(a) \/ Mask(a) \/ Check(a) \/ Select(a) \/ AwaitWake(a) \/ Transfer(a)
  PROVE  ProgrammedInv'
  <1>1. /\ Runs(a) /\ at[a] # "window" /\ todo' = todo
        /\ mem \in MemoryType /\ radio \in RadioType /\ at \in [Contexts -> Places]
    BY DEF HalInv, TypeOK, Begin, Poll, Mask, Check, Select, AwaitWake, Transfer
  <1>2. PICK p : p # "window" /\ at' = [at EXCEPT ![a] = p]
    BY DEF Begin, Poll, Mask, Check, Select, AwaitWake, Transfer, Goto
  <1>3. \A b \in Contexts : Rest(b)' = Rest(b)
    BY <1>1, <1>2 DEF Rest
  <1>4. Gentle(View, View')
    <2>1. CASE Select(a)
      BY <1>1, <2>1 DEF Select, Gentle, View, RadioType, MemoryType
    <2>2. CASE ~Select(a)
      <3>1. UNCHANGED <<mem.configuration, mem.radioOperationActive, radio>>
        BY <1>1, <2>2
           DEF Begin, Poll, Mask, Check, AwaitWake, Transfer, RestoreRadioIrq, MemoryType
      <3>2. View' = View
        BY <3>1 DEF View
      <3> QED
        BY <3>2, SameViewIsGentle
    <2> QED
      BY <2>1, <2>2
  <1>5. Transacting'
    <2>1. \A b \in Contexts : Step(b)' = Step(b)
      BY <1>1 DEF Step
    <2>2. at[a] = "next" => Begin(a)
      BY DEF Poll, Mask, Check, Select, AwaitWake, Transfer
    <2>3. Begin(a) => Step(a).do \notin {"assign", "callBack"}
      BY DEF Begin
    <2> QED
      BY <1>1, <1>2, <2>1, <2>2, <2>3 DEF ProgrammedInv, Transacting
  <1> QED
    BY <1>3, <1>4, <1>5, NoStepTaken DEF ProgrammedInv

LEMMA ProgrammedKeptByRelease ==
  ASSUME HalInv, ProgrammedInv, NEW a \in Contexts, Release(a)
  PROVE  ProgrammedInv'
  <1>1. /\ Runs(a) /\ at[a] = "release" /\ at' = [at EXCEPT ![a] = "window"]
        /\ mem' = mem /\ todo' = todo /\ radio' = [Obey(Step(a)) EXCEPT !.line = "rising"]
        /\ radio \in RadioType /\ at \in [Contexts -> Places] /\ Step(a) \in AnyStep
        /\ Step(a).do \notin {"assign", "callBack"}
    BY RunsIs DEF Release, Goto, HalInv, TypeOK, ProgrammedInv, Transacting
  <1>2. \A b \in Contexts : b # a => Rest(b)' = Rest(b)
    BY <1>1 DEF Rest
  <1>3. Rest(a)' = Tail(todo[a])
    BY <1>1 DEF Rest
  <1>4. View' = After(View, Step(a))
    <2>1. PICK s \in AnyStep : s = Step(a)
      BY <1>1
    <2>2. s.do \in {"command", "program", "clearErrors", "clearRead", "wakeup", "expect"}
      BY <1>1, <2>1, AnyStepIs
    <2>3. /\ radio'.registers = After(View, s).registers
          /\ radio'.mode = After(View, s).mode
      <3>1. CASE s.do = "program"
        BY <1>1, <2>1, <3>1 DEF Obey, After, View, RadioType
      <3>2. CASE s.do = "command"
        <4>1. ModeAfter(s.name) = CommandedMode(s.name, radio.mode)
          BY DEF ModeAfter, CommandedMode
        <4> QED
          BY <1>1, <2>1, <3>2, <4>1 DEF Obey, After, View, RadioType
      <3>3. CASE s.do \in {"clearErrors", "clearRead", "wakeup", "expect"}
        BY <1>1, <2>1, <3>3 DEF Obey, After, View, RadioType
      <3> QED
        BY <2>2, <3>1, <3>2, <3>3
    <2>4. /\ After(View, s).configuration = mem.configuration
          /\ After(View, s).active = mem.radioOperationActive
      BY <1>1, <2>1 DEF After, View
    <2> QED
      BY <1>1, <2>1, <2>3, <2>4 DEF View, After
  <1>5. Programmed'
    BY <1>1, <1>2, <1>3, <1>4, StepTaken DEF ProgrammedInv
  <1>6. Transacting'
    <2>1. \A b \in Contexts : Step(b)' = Step(b)
      BY <1>1 DEF Step
    <2> QED
      BY <1>1, <2>1 DEF ProgrammedInv, Transacting
  <1> QED
    BY <1>5, <1>6 DEF ProgrammedInv

LEMMA ProgrammedKeptByWindow ==
  ASSUME HalInv, ProgrammedInv, NEW a \in Contexts, Window(a)
  PROVE  ProgrammedInv'
  <1>1. /\ at[a] = "window" /\ at' = [at EXCEPT ![a] = "next"]
        /\ todo' = [todo EXCEPT ![a] = Tail(@)] /\ radio' = radio
        /\ DOMAIN todo = Contexts /\ at \in [Contexts -> Places] /\ mem \in MemoryType
    BY DEF Window, Goto, Finish, HalInv, TypeOK
  <1>2. \A b \in Contexts : Rest(b)' = Rest(b)
    BY <1>1 DEF Rest
  <1>3. View' = View
    BY <1>1 DEF Window, RestoreRadioIrq, View, MemoryType
  <1>4. Programmed'
    BY <1>2, <1>3, SameViewIsGentle, NoStepTaken DEF ProgrammedInv
  <1>5. Transacting'
    <2>1. \A b \in Contexts : at'[b] # "next" => at[b] # "next" /\ todo'[b] = todo[b]
      BY <1>1
    <2> QED
      BY <2>1 DEF ProgrammedInv, Transacting, Step
  <1> QED
    BY <1>4, <1>5 DEF ProgrammedInv

LEMMA IndicationsAreRead ==
  Calm(Command("GetIrqStatus") \o ClearRead \o CallBack)
  BY DEF Calm, Command, Send, ClearRead, CallBack

LEMMA ProgrammedKeptByRequests ==
  ASSUME HalInv, ProgrammedInv, HandleRequest \/ SUBGHZ_Radio_IRQHandler
  PROVE  ProgrammedInv'
  <1>1. /\ UNCHANGED <<mem, at, radio>> /\ View' = View /\ View \in ViewType
        /\ Fits(View, Rest("isr"), Rest("task")) /\ DOMAIN todo = Contexts
        /\ todo["isr"] = <<>> /\ Rest("isr") = <<>> /\ at["isr"] = "next"
    BY RestsAre DEF HandleRequest, SUBGHZ_Radio_IRQHandler, View, ProgrammedInv, Programmed,
                    HalInv, TypeOK, InterruptIsKept, Contexts
  <1>2. CASE HandleRequest
    <2>1. PICK h \in Handlers : todo' = [todo EXCEPT !["task"] = h]
      BY <1>2 DEF HandleRequest
    <2>2. Rest("task") = <<>> /\ at["task"] = "next"
      BY <1>2 DEF HandleRequest, HalInv, InterruptIsKept, Contexts, Rest
    <2>3. Rest("task")' = h /\ Rest("isr")' = <<>>
      BY <1>1, <2>1, <2>2 DEF Rest, Contexts
    <2>4. Fits(View, <<>>, h)
      BY <1>1, <2>2, RequestFits
    <2>5. Programmed'
      BY <1>1, <2>3, <2>4 DEF Programmed
    <2>6. Transacting'
      BY <1>1, <2>1, <2>2 DEF ProgrammedInv, Transacting, Step, Contexts
    <2> QED
      BY <2>5, <2>6 DEF ProgrammedInv
  <1>3. CASE SUBGHZ_Radio_IRQHandler
    <2>1. PICK new : /\ new = Command("GetIrqStatus") \o ClearRead \o CallBack
                     /\ todo' = [todo EXCEPT !["isr"] = new]
      BY <1>3 DEF SUBGHZ_Radio_IRQHandler
    <2>2. Rest("task")' = Rest("task") /\ Rest("isr")' = new
      BY <1>1, <2>1 DEF Rest, Contexts
    <2>3. Calm(new) /\ HandlerFits(View, new)
      BY <2>1, IndicationsAreRead DEF HandlerFits
    <2>4. Fits(View, new, Rest("task"))
      BY <1>1, <2>3, SameViewIsGentle, GentleFits
    <2>5. Programmed'
      BY <1>1, <2>2, <2>4 DEF Programmed
    <2>6. Transacting'
      BY <1>1, <2>1 DEF ProgrammedInv, Transacting, Step, Contexts
    <2> QED
      BY <2>5, <2>6 DEF ProgrammedInv
  <1> QED
    BY <1>2, <1>3

LEMMA ProgrammedKeptByRadio ==
  ASSUME HalInv, ProgrammedInv, RadioSettles \/ RadioDozes \/ RadioEnds
  PROVE  ProgrammedInv'
  <1>1. UNCHANGED <<mem, at, todo>> /\ radio \in RadioType
    BY DEF RadioSettles, RadioDozes, RadioEnds, HalInv, TypeOK
  <1>2. \A b \in Contexts : Rest(b)' = Rest(b) /\ Step(b)' = Step(b)
    BY <1>1 DEF Rest, Step
  <1>3. Gentle(View, View')
    <2>1. CASE RadioSettles \/ RadioDozes
      <3>1. View' = View
        BY <1>1, <2>1 DEF RadioSettles, RadioDozes, View, RadioType
      <3> QED
        BY <3>1, SameViewIsGentle
    <2>2. CASE RadioEnds
      <3>1. PICK end \in Ends : radio' = [radio EXCEPT !.flags = @ \cup end[1], !.mode = end[2]]
        BY <2>2 DEF RadioEnds
      <3>2. \/ end[2] \in {"standby", radio.mode}
            \/ radio.mode = "cad" /\ end[2] = "cadRx" /\ mem.configuration.cadExit # 0
        BY <3>1 DEF Ends
      <3>3. radio'.mode = end[2] /\ radio'.registers = radio.registers
        BY <1>1, <3>1 DEF RadioType
      <3> QED
        BY <1>1, <3>2, <3>3 DEF Gentle, View
    <2> QED
      BY <2>1, <2>2
  <1>4. Programmed'
    BY <1>2, <1>3, NoStepTaken DEF ProgrammedInv
  <1>5. Transacting'
    BY <1>1, <1>2 DEF ProgrammedInv, Transacting
  <1> QED
    BY <1>4, <1>5 DEF ProgrammedInv

LEMMA ProgrammedHoldsAtFirst == Init => ProgrammedInv
  <1> SUFFICES ASSUME Init PROVE ProgrammedInv
    OBVIOUS
  <1>1. Rest("task") = HalInit /\ Rest("isr") = <<>>
    BY DEF Init, Rest, Contexts
  <1>2. View.configuration = NoConfiguration /\ View.mode = "sleep" /\ ~View.active
    BY DEF Init, View
  <1>3. NoConfiguration \notin Configurations
    BY NeededAre
  <1>4. Quiet(View) /\ ~Receives(View)
    BY <1>2 DEF Quiet, Receives
  <1>5. Sound(View) /\ Settled(View, <<>>, HalInit)
    BY <1>2, <1>3, <1>4 DEF Sound, Settled
  <1>6. Programmed
    BY <1>1, <1>5, EmptyIsCalm, HarmlessParts DEF Programmed, Fits, HandlerFits, TaskFits
  <1>7. Transacting
    BY DEF Init, Transacting, Contexts
  <1> QED
    BY <1>6, <1>7 DEF ProgrammedInv

LEMMA ProgrammedIsKept == HalInv /\ ProgrammedInv /\ [Next]_vars => ProgrammedInv'
  <1> SUFFICES ASSUME HalInv, ProgrammedInv, [Next]_vars PROVE ProgrammedInv'
    OBVIOUS
  <1>1. ASSUME NEW a \in Contexts, Context(a) PROVE ProgrammedInv'
    BY <1>1, ProgrammedKeptByCompute, ProgrammedKeptByPlaces, ProgrammedKeptByRelease,
       ProgrammedKeptByWindow DEF Context
  <1>2. CASE HandleRequest \/ SUBGHZ_Radio_IRQHandler
    BY <1>2, ProgrammedKeptByRequests
  <1>3. CASE RadioSettles \/ RadioDozes \/ RadioEnds
    BY <1>3, ProgrammedKeptByRadio
  <1>4. CASE UNCHANGED vars
    <2>1. View' = View /\ \A b \in Contexts : Rest(b)' = Rest(b)
      BY <1>4 DEF vars, View, Rest
    <2>2. Programmed'
      BY <2>1, SameViewIsGentle, NoStepTaken DEF ProgrammedInv
    <2>3. Transacting'
      BY <1>4 DEF vars, ProgrammedInv, Transacting, Step
    <2> QED
      BY <2>2, <2>3 DEF ProgrammedInv
  <1> QED
    BY <1>1, <1>2, <1>3, <1>4 DEF Next

\* Whatever was transmitted, scanned, configured or interrupted before, a radio that receives or
\* transmits a packet has every register of its packet type from the configuration in force, and
\* when it receives the length configured.  (rfManagerHal_setConfiguration(), startReceive(),
\* startCad(), transmit(), SUBGHZ_Radio_IRQHandler().)
THEOREM RadioStaysProgrammed == Spec => []RadioIsProgrammed
  <1>1. ProgrammedInv => RadioIsProgrammed
    <2> SUFFICES ASSUME ProgrammedInv,
                        radio.mode \in {"rx", "rxContinuous", "rxDutyCycle", "cadRx", "tx"}
                 PROVE  LET c == mem.configuration
                            registers == RegistersOf(c.type)
                        IN /\ \A r \in {"rf_frequency", "modulation", "tx_parameters"}
                                   \cup {registers[i] : i \in DOMAIN registers} :
                                radio.registers[r] = c
                           /\ radio.registers.packet_parameters.configuration = c
                           /\ radio.mode # "tx" =>
                                radio.registers.packet_parameters.length = c.length
      BY DEF RadioIsProgrammed
    <2>1. View.mode = radio.mode /\ View.configuration = mem.configuration
          /\ View.registers = radio.registers
      BY DEF View
    <2>2. Ready(View)
      BY <2>1 DEF ProgrammedInv, Programmed, Fits, Sound, Quiet
    <2>3. radio.mode # "tx" => HasLength(View)
      BY <2>1 DEF ProgrammedInv, Programmed, Fits, Sound, Receives
    <2>4. mem.configuration \in Configurations
          /\ \A r \in Needed(mem.configuration) :
               IF r = "packet_parameters"
               THEN radio.registers[r].configuration = mem.configuration
               ELSE radio.registers[r] = mem.configuration
      BY <2>1, <2>2 DEF Ready
    <2>5. \A i \in DOMAIN RegistersOf(mem.configuration.type) :
            RegistersOf(mem.configuration.type)[i] # "packet_parameters"
      BY <2>4, RadioHalAssumption DEF RegistersOf, GenericRegisters, LoraRegisters
    <2>6. \A r \in {"rf_frequency", "modulation", "tx_parameters"}
                  \cup {RegistersOf(mem.configuration.type)[i] :
                          i \in DOMAIN RegistersOf(mem.configuration.type)} :
            r \in Needed(mem.configuration) /\ r # "packet_parameters"
      BY <2>5 DEF Needed
    <2>7. "packet_parameters" \in Needed(mem.configuration)
      BY DEF Needed
    <2> QED
      BY <2>1, <2>3, <2>4, <2>6, <2>7 DEF HasLength
  <1>2. Init => ProgrammedInv
    BY ProgrammedHoldsAtFirst
  <1>3. HalInv /\ ProgrammedInv /\ [Next]_vars => ProgrammedInv'
    BY ProgrammedIsKept
  <1> QED
    BY <1>1, <1>2, <1>3, HalInvHoldsAtFirst, HalInvIsKept, PTL DEF Spec

=============================================================================
