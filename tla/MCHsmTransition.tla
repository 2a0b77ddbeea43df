-------------------------- MODULE MCHsmTransition --------------------------
EXTENDS FuzzExample

\* Two machines: that of test/hsm, five levels below top, and the fuzzing example.
MCParent ==
  [S1 |-> "top", S11 |-> "S1", S111 |-> "S11", S1111 |-> "S111", S11111 |-> "S1111",
   S2 |-> "top", S21 |-> "S2", S211 |-> "S21", S2111 |-> "S211", S2112 |-> "S211",
   S3 |-> "top", S31 |-> "S3", S311 |-> "S31", S4 |-> "top", S41 |-> "S4"]
  @@ [operational |-> "top", standby |-> "operational", armed |-> "operational",
      collecting |-> "operational"]
MCState == DOMAIN MCParent
MCInitialOf ==
  [S1 |-> "S11", S11 |-> "S111", S111 |-> "S1111", S1111 |-> "S11111",
   S211 |-> "S2111", S4 |-> "S41", operational |-> "standby"]

\* Every transition the hierarchy admits, and those of the test.
TestState == MCState \ {"operational", "standby", "armed", "collecting"}
AllArcs == TestState \X TestState
TestArcs ==
  {<<"S1", "S211">>, <<"S2111", "S2112">>, <<"S2112", "S2">>, <<"S2", "S21">>,
   <<"S21", "S31">>, <<"S31", "S3">>, <<"S3", "S311">>, <<"S311", "S41">>,
   <<"S41", "S41">>, <<"S41", "S4">>}

\* Setups: accepted, reserved, and rejected for each of the three reasons.
Setup(s, g, t) == [slot |-> s, gate |-> g, target |-> t]
MCSetups == {Setup(17, 17, 2), Setup(16, 239, 1), CRASH_SETUP, HANG_SETUP,
             Setup(0, 17, 2), Setup(17, 240, 2), Setup(17, 17, 0)}

\* Steps at and around the gates, the saturation and the reserved values.
Step(s, v, f) == [slot |-> s, value |-> v, flags |-> f]
MCSteps == {Step(17, 17, {}), Step(17, 16, {}), Step(17, 34, {"stop"}), Step(17, 34, {}),
            Step(17, 222, {"boost"}), Step(16, 224, {"boost"}), Step(16, 0, {"boost"}),
            Step(16, 31, {"clear"})}
=============================================================================
