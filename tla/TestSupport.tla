---------------------------- MODULE TestSupport ----------------------------
(***************************************************************************)
(* What the unit tests of the repository stand on: fake functions (eff.h), *)
(* the test framework (etf.c) and its report (emf_test_report.c), printing *)
(* (emf_print.c) and the standard output of the STM32F103 (stdio.c).  Each *)
(* is sequential; an operation takes a state to the next one.              *)
(***************************************************************************)
EXTENDS Integers, SequencesExt, FiniteSets

CONSTANTS
  ARG_HISTORY_LEN, CALL_HISTORY_LEN,   \* EFF_ARG_HISTORY_LEN, EFF_CALL_HISTORY_LEN
  PRINT_MAX_LEN,                       \* EMF_PRINT_MAX_LEN
  STDOUT_CAPACITY                      \* STDOUT_TX_BUFFER_CAPACITY

-----------------------------------------------------------------------------
(* Fake functions.  A custom fake is named by the value it returns, 0 is none; the arguments *)
(* of a call are one value, as every arity repeats the same text.                            *)

NewFake ==
  [call_count |-> 0, arg_val |-> 0, arg_history |-> <<>>, arg_histories_dropped |-> 0,
   return_val |-> 0, return_val_seq |-> <<>>, return_val_seq_idx |-> 0,
   return_val_history |-> <<>>,
   custom_fake |-> 0, custom_fake_seq |-> <<>>, custom_fake_seq_idx |-> 0]

ResetFake(f) == NewFake

\* The index is left alone: a second sequence goes on where the first one was.
SetReturnSeq(f, seq) == [f EXCEPT !.return_val_seq = seq]
SetCustomFakeSeq(f, seq) == [f EXCEPT !.custom_fake_seq = seq]

\* A sequence gives its elements one by one, and its last one ever after.
Element(seq, idx) == IF idx < Len(seq) THEN seq[idx + 1] ELSE seq[Len(seq)]
NextIndex(seq, idx) == IF idx < Len(seq) THEN idx + 1 ELSE idx

SaveArgs(f, arg) ==
  LET room == f.call_count < ARG_HISTORY_LEN IN
  [f EXCEPT !.arg_val = arg,
            !.arg_history = IF room THEN Append(@, arg) ELSE @,
            !.arg_histories_dropped = IF room THEN @ ELSE @ + 1,
            !.call_count = @ + 1]

RegisterCall(history, function) ==
  IF Len(history) < CALL_HISTORY_LEN THEN Append(history, function) ELSE history

\* A void fake runs the next of its custom fakes and then the single one as well.
VoidCall(f, arg) ==
  [fake |-> [SaveArgs(f, arg) EXCEPT !.custom_fake_seq_idx = NextIndex(f.custom_fake_seq, @)],
   ran |-> (IF f.custom_fake_seq = <<>> THEN <<>>
            ELSE <<Element(f.custom_fake_seq, f.custom_fake_seq_idx)>>)
           \o (IF f.custom_fake = 0 THEN <<>> ELSE <<f.custom_fake>>)]

\* SAVE_RET_HISTORY
Returns(f, value) ==
  [fake |-> [f EXCEPT !.return_val_history =
               IF f.call_count - 1 < ARG_HISTORY_LEN THEN Append(@, value) ELSE @],
   value |-> value]

\* A fake with a value returns that of its custom fakes, if it has any.
ValueCall(f, arg) ==
  LET called == SaveArgs(f, arg) IN
  IF f.custom_fake_seq # <<>>
  THEN Returns([called EXCEPT !.custom_fake_seq_idx = NextIndex(f.custom_fake_seq, @)],
               Element(f.custom_fake_seq, f.custom_fake_seq_idx))
  ELSE IF f.custom_fake # 0 THEN Returns(called, f.custom_fake)
  ELSE IF f.return_val_seq # <<>>
  THEN Returns([called EXCEPT !.return_val_seq_idx = NextIndex(f.return_val_seq, @)],
               Element(f.return_val_seq, f.return_val_seq_idx))
  ELSE Returns(called, f.return_val)

-----------------------------------------------------------------------------
(* The test framework.  The report is what is printed; the set-ups and tear-downs are counted. *)

NewSuite ==
  [test_cnt |-> 0, skip_cnt |-> 0, last_skipped |-> FALSE,
   set_ups |-> 0, tear_downs |-> 0, report |-> <<>>, exit |-> "no"]

Printed(s, line) == [s EXCEPT !.report = Append(@, line)]

\* The result of the test before, which is known when the next one starts or none does.
PrintPassed(s) == Printed([s EXCEPT !.tear_downs = @ + 1], <<"PASSED", s.test_cnt>>)
PrintSkipped(s) == Printed(s, <<"SKIPPED", s.test_cnt>>)

ETF_test(s, execute) ==
  LET closed == IF s.last_skipped THEN PrintSkipped(s)
                ELSE IF s.test_cnt > 0 THEN PrintPassed(s) ELSE s
      cnt == s.test_cnt + 1
  IN [Printed(closed, <<"test", cnt>>) EXCEPT
       !.test_cnt = cnt,
       !.set_ups = IF execute THEN @ + 1 ELSE @,
       !.skip_cnt = IF execute THEN @ ELSE @ + 1,
       !.last_skipped = ~execute]

PrintSummary(s, failed) == Printed(s, <<"summary", s.test_cnt, s.skip_cnt, failed>>)

ETF_fail(s) ==
  [PrintSummary(Printed(s, <<"FAILED", s.test_cnt>>), 1) EXCEPT !.exit = "failure"]

\* main(), after ETF_run().
Finish(s) ==
  [PrintSummary(IF s.last_skipped THEN PrintSkipped(s) ELSE PrintPassed(s), 0)
     EXCEPT !.exit = "success"]

\* ETF_run(): each of the tests is skipped, passes or fails.
SuiteOf(outcomes) ==
  LET Did(s, outcome) ==
        IF s.exit # "no" THEN s
        ELSE IF outcome = "fails" THEN ETF_fail(ETF_test(s, TRUE))
        ELSE ETF_test(s, outcome = "passes")
      end == FoldLeft(Did, NewSuite, outcomes)
  IN IF end.exit = "no" THEN Finish(end) ELSE end

-----------------------------------------------------------------------------
(* Printing.  A character is its code, a float is given in thousandths. *)

MINUS == 45
DOT == 46
DIGIT_0 == 48
PERCENT == 37
QUESTION_MARK == 63
LETTER_U == 117
LETTER_I == 105
LETTER_F == 102
LETTER_C == 99
LETTER_S == 115

UintText[n \in Nat] ==
  (IF n < 10 THEN <<>> ELSE UintText[n \div 10]) \o <<DIGIT_0 + (n % 10)>>

Signed(negative, text) == (IF negative THEN <<MINUS>> ELSE <<>>) \o text
IntText(n) == Signed(n < 0, UintText[IF n < 0 THEN -n ELSE n])

\* writeFloat(): a fraction that rounds up to 100 is printed as such.
FloatText(n) ==
  LET magnitude == IF n < 0 THEN -n ELSE n
      frac == ((magnitude % 1000) * 100 + 500) \div 1000
  IN Signed(n < 0, UintText[magnitude \div 1000] \o <<DOT>>
                     \o (IF frac < 10 THEN <<DIGIT_0>> ELSE <<>>) \o UintText[frac])

Conversions == {LETTER_U, LETTER_I, LETTER_F, LETTER_C, LETTER_S}

Converted(specifier, arg) ==
  CASE specifier = LETTER_U -> UintText[arg]
    [] specifier = LETTER_I -> IntText(arg)
    [] specifier = LETTER_F -> FloatText(arg)
    [] specifier = LETTER_C -> <<arg>>
    [] specifier = LETTER_S -> arg
    [] specifier = PERCENT -> <<PERCENT>>
    [] OTHER -> <<QUESTION_MARK>>

NewBuffer == [data |-> <<>>, overflow |-> FALSE]

\* writeStr() and writeChar()
Write(b, text, max) ==
  LET room == max - Len(b.data) IN
  IF Len(text) <= room THEN [b EXCEPT !.data = @ \o text]
  ELSE [data |-> b.data \o SubSeq(text, 1, room), overflow |-> TRUE]

\* EMF_print(), up to the assertion that nothing overflowed.
EMF_print(fmt, args, max) ==
  LET Did(s, i) ==
        IF s.buffer.overflow THEN s
        ELSE IF s.percent
        THEN [s EXCEPT !.percent = FALSE,
                       !.arg = IF fmt[i] \in Conversions THEN @ + 1 ELSE @,
                       !.buffer = Write(@, Converted(fmt[i], args[s.arg]), max)]
        ELSE IF fmt[i] = PERCENT /\ i < Len(fmt) THEN [s EXCEPT !.percent = TRUE]
        ELSE [s EXCEPT !.buffer = Write(@, <<fmt[i]>>, max)]
  IN FoldLeft(Did, [buffer |-> NewBuffer, arg |-> 1, percent |-> FALSE],
              [i \in 1..Len(fmt) |-> i]).buffer

-----------------------------------------------------------------------------
(* The standard output: a ring that the interrupt of the USART empties. *)

NewStdout ==
  [buffer |-> [i \in 0..(STDOUT_CAPACITY - 1) |-> 0], head |-> 0, tail |-> 0, count |-> 0,
   txeie |-> FALSE, accepted |-> FALSE, dr |-> 0]

EBF_stdoutWrite(s, data) ==
  LET accepted == Len(data) <= STDOUT_CAPACITY - s.count IN
  IF ~accepted THEN [s EXCEPT !.accepted = FALSE]
  ELSE [s EXCEPT
         !.buffer = [i \in DOMAIN @ |->
            LET n == (i - s.tail) % STDOUT_CAPACITY IN IF n < Len(data) THEN data[n + 1] ELSE @[i]],
         !.tail = (@ + Len(data)) % STDOUT_CAPACITY,
         !.count = @ + Len(data),
         !.txeie = TRUE, !.accepted = TRUE]

\* The transmit data register is empty and its interrupt enabled.
USART1_IRQHandler(s) ==
  LET sends == s.count > 0 IN
  [s EXCEPT !.dr = IF sends THEN s.buffer[s.head] ELSE @,
            !.head = IF sends THEN (@ + 1) % STDOUT_CAPACITY ELSE @,
            !.count = IF sends THEN @ - 1 ELSE @,
            !.txeie = s.count > 1]

-----------------------------------------------------------------------------
(* Properties of runs of operations, given as digits: see MiddlewareIsSound of HostCommand. *)

LeastOf(a, b) == IF a < b THEN a ELSE b
Calls(ops, from) == {i \in from..Len(ops) : ops[i] = 1}

\* 0 resets, 1 calls, 2 sets a sequence of return values, 3 one of custom fakes.
FakeRun(ops, custom) ==
  LET Did(s, i) ==
        CASE ops[i] = 0 -> [s EXCEPT !.f = [ResetFake(@) EXCEPT !.custom_fake = custom],
                                     !.v = [ResetFake(@) EXCEPT !.custom_fake = custom]]
          [] ops[i] = 2 -> [s EXCEPT !.f = SetReturnSeq(@, <<21, 22>>)]
          [] ops[i] = 3 -> [s EXCEPT !.f = SetCustomFakeSeq(@, <<31, 32>>),
                                     !.v = SetCustomFakeSeq(@, <<31, 32>>)]
          [] OTHER -> LET c == ValueCall(s.f, i)
                          d == VoidCall(s.v, i)
                      IN [f |-> c.fake, v |-> d.fake, value |-> c.value, ran |-> d.ran,
                          calls |-> RegisterCall(s.calls, "f")]
      new == [NewFake EXCEPT !.custom_fake = custom]
  IN FoldLeft(Did, [f |-> new, v |-> new, value |-> 0, ran |-> <<>>, calls |-> <<>>],
              [i \in 1..Len(ops) |-> i])

\* A call is answered by the fake that was set for it, a sequence by the number of the calls
\* it has answered; the histories hold the first calls since the reset, in order.
FakesAnswer(ops) ==
  \A custom \in {0, 40} :
    LET n == Len(ops)
        start == IF \E i \in 1..n : ops[i] = 0
                 THEN CHOOSE i \in 1..n : ops[i] = 0 /\ \A j \in (i + 1)..n : ops[j] # 0
                 ELSE 1
        end == FakeRun(ops, custom)
        count == Cardinality(Calls(ops, start))
        \* Calls since a sequence was first set, 0 if none is.
        Since(op) == LET S == {i \in start..n : ops[i] = op}
                     IN IF S = {} THEN 0
                        ELSE LeastOf(2, Cardinality(Calls(ops, CHOOSE i \in S : \A j \in S : i <= j)))
    IN /\ end.f.call_count = count /\ end.v.call_count = count
       /\ Len(end.f.arg_history) = LeastOf(count, ARG_HISTORY_LEN)
       /\ end.f.arg_history = end.v.arg_history
       /\ Len(end.f.return_val_history) = Len(end.f.arg_history)
       /\ Len(end.f.arg_history) + end.f.arg_histories_dropped = count
       /\ \A k \in 1..Len(end.f.arg_history) :
            Cardinality({i \in Calls(ops, start) : i <= end.f.arg_history[k]}) = k
       /\ Len(end.calls) = LeastOf(Cardinality(Calls(ops, 1)), CALL_HISTORY_LEN)
       /\ ops[n] = 1 =>
            /\ end.value = IF Since(3) > 0 THEN 30 + Since(3)
                           ELSE IF custom # 0 THEN custom
                           ELSE IF Since(2) > 0 THEN 20 + Since(2) ELSE 0
            /\ end.ran = (IF Since(3) > 0 THEN <<30 + Since(3)>> ELSE <<>>)
                           \o (IF custom # 0 THEN <<custom>> ELSE <<>>)

\* Each test that started is reported once, right after its title, the first failure is the
\* last of them, and what was set up and did not fail is torn down.
SuitesAreReported(ops) ==
  LET outcomes == [i \in 1..Len(ops) |-> CASE ops[i] = 0 -> "skip" [] ops[i] = 3 -> "fails"
                                           [] OTHER -> "passes"]
      failing == {i \in 1..Len(ops) : outcomes[i] = "fails"}
      last == IF failing = {} THEN Len(ops) ELSE CHOOSE i \in failing : \A j \in failing : i <= j
      Is(what) == Cardinality({i \in 1..last : outcomes[i] = what})
      end == SuiteOf(outcomes)
  IN /\ Len(end.report) = 2 * last + 1
     /\ \A i \in 1..last :
          /\ end.report[2 * i - 1] = <<"test", i>>
          /\ end.report[2 * i] = <<CASE outcomes[i] = "skip" -> "SKIPPED"
                                     [] outcomes[i] = "fails" -> "FAILED"
                                     [] OTHER -> "PASSED", i>>
     /\ end.report[2 * last + 1] = <<"summary", last, Is("skip"), Is("fails")>>
     /\ end.exit = IF failing = {} THEN "success" ELSE "failure"
     /\ end.set_ups = Is("passes") + Is("fails") /\ end.tear_downs = Is("passes")

\* A number prints as its digits, and a message that is too long overflows and is cut.
PrintingIsExact(ops) ==
  LET NumberIn(digits) == FoldLeft(LAMBDA n, d : 10 * n + d, 0, digits)
      Shown(text) == NumberIn(SelectSeq([i \in 1..Len(text) |-> text[i] - DIGIT_0],
                                        LAMBDA d : d \in 0..9))
      n == NumberIn([i \in 1..Len(ops) |-> <<0, 4, 5, 9>>[ops[i] + 1]])
      float == FloatText(-n)
      fmt == [i \in 1..Len(ops) |-> <<LETTER_I, PERCENT, LETTER_F, 97>>[ops[i] + 1]]
      args == <<-n, n, 7>>
      whole == EMF_print(fmt, args, 1000)
      message == EMF_print(fmt, args, PRINT_MAX_LEN)
  IN /\ Shown(UintText[n]) = n /\ (n > 0 => UintText[n][1] # DIGIT_0)
     /\ n > 0 => IntText(-n) = <<MINUS>> \o UintText[n]
     /\ n % 1000 < 995 => Shown(float) = (n + 5) \div 10 /\ float[Len(float) - 2] = DOT
     /\ message.overflow <=> Len(whole.data) > PRINT_MAX_LEN
     /\ message.data = SubSeq(whole.data, 1, LeastOf(PRINT_MAX_LEN, Len(whole.data)))

\* 0 is an interrupt, if enabled; otherwise so many bytes are written.  A message is accepted
\* as a whole or not at all, bytes leave in order, and none stays behind for good.
StdoutIsAQueue(ops) ==
  LET Did(s, i) ==
        LET data == [k \in 1..ops[i] |-> 10 * i + k]
            r == IF ops[i] = 0 THEN USART1_IRQHandler(s.stdout) ELSE EBF_stdoutWrite(s.stdout, data)
        IN IF ops[i] = 0 /\ ~s.stdout.txeie THEN s
           ELSE IF ops[i] = 0
           THEN [stdout |-> r, queue |-> Tail(s.queue), sound |-> s.sound /\ r.dr = Head(s.queue)]
           ELSE [stdout |-> r, queue |-> s.queue \o (IF r.accepted THEN data ELSE <<>>),
                 sound |-> s.sound /\ (r.accepted <=> Len(s.queue) + ops[i] <= STDOUT_CAPACITY)]
      end == FoldLeft(Did, [stdout |-> NewStdout, queue |-> <<>>, sound |-> TRUE],
                      [i \in 1..Len(ops) |-> i])
  IN /\ end.sound
     /\ end.stdout.count = Len(end.queue)
     /\ end.stdout.txeie <=> end.queue # <<>>

=============================================================================
