------------------------ MODULE QuickJsEngineProofs -------------------------
(***************************************************************************)
(* Proofs that a payload only ever runs under a deadline and that          *)
(* deadline-exceeded is never said of a call that had time left, for every *)
(* nesting depth and every length of the job queue.                        *)
(***************************************************************************)
EXTENDS QuickJsEngine, SequenceTheorems, TLAPS

\* A deadline is set exactly while a call is in progress; only then is there payload
\* code or a promise to settle; and the flag is raised only after the deadline.
DeadlineCoversCall ==
    /\ call = "none" <=> deadline = "none"
    /\ stack # <<>> => deadline # "none"
    /\ promise # "none" => deadline # "none"
    /\ interrupted /\ call # "none" => deadline = "passed"

IInv == TypeOK /\ DeadlineCoversCall /\ DeadlineIsHonest

-----------------------------------------------------------------------------

\* A prefix of a sequence of members of S is one, and has the length asked for.
LEMMA PrefixTyped ==
    ASSUME NEW S, NEW s, NEW n \in Nat, \A i \in 1..n : s[i] \in S
    PROVE  SubSeq(s, 1, n) \in Seq(S) /\ Len(SubSeq(s, 1, n)) = n
<1>1. 1 \in Int /\ n \in Int
  OBVIOUS
<1>2. SubSeq(s, 1, n) \in Seq(S)
  BY <1>1, SubSeqProperties
<1>3. Len(SubSeq(s, 1, n)) = IF 1 <= n THEN n - 1 + 1 ELSE 0
  BY <1>1, SubSeqProperties
<1> QED
  BY <1>2, <1>3

\* The arithmetic of taking the last element away.
LEMMA OneLess ==
    ASSUME NEW k \in Nat, k > 0
    PROVE  /\ k - 1 \in Nat
           /\ \A i \in 1..(k - 1) : i \in 1..k
           /\ k \in 1..k
  OBVIOUS

\* What a sequence is left with when its last element is taken (the native stack).
LEMMA BelowIsShorter ==
    ASSUME TypeOK, stack # <<>>
    PROVE  /\ Top \in Frames
           /\ Below \in Seq(Frames)
           /\ Len(Below) = Len(stack) - 1
           /\ Len(stack) \in Nat
           /\ Len(stack) > 0
<1>1. stack \in Seq(Frames) /\ Len(stack) \in Nat /\ Len(stack) > 0
  BY EmptySeq, LenProperties DEF TypeOK
<1> DEFINE k == Len(stack)
<1>2. k \in Nat /\ k > 0
  BY <1>1
<1>3. \A i \in 1..k : stack[i] \in Frames
  BY <1>1, ElementOfSeq
<1> HIDE DEF k
<1>4. /\ k - 1 \in Nat
      /\ \A i \in 1..(k - 1) : i \in 1..k
      /\ k \in 1..k
  BY <1>2, OneLess
<1>5. \A i \in 1..(k - 1) : stack[i] \in Frames
  BY <1>3, <1>4
<1>6. SubSeq(stack, 1, k - 1) \in Seq(Frames) /\ Len(SubSeq(stack, 1, k - 1)) = k - 1
  BY <1>4, <1>5, PrefixTyped
<1>7. Below = SubSeq(stack, 1, k - 1) /\ Top = stack[k]
  BY Zenon DEF Below, Top, k
<1> QED
  BY <1>1, <1>3, <1>4, <1>6, <1>7, Zenon DEF k

\* The codes of an exception without a telling text are codes of the engine.
LEMMA DefaultCodesAreCodes == DefaultCodes \subseteq Codes \ {"deadline-exceeded"}
  BY DEF DefaultCodes, Codes

LEMMA ReportedIsCode ==
    ASSUME TypeOK, NEW code \in Codes
    PROVE  Reported(code) \in Codes
  BY DEF TypeOK, Reported, Codes, ModuleErrors

\* A failure ends the call and names deadline-exceeded only after the deadline.
LEMMA FailKeeps ==
    ASSUME IInv, NEW code \in Codes, NEW cut \in BOOLEAN, polls' \in BOOLEAN,
           code = "deadline-exceeded" => deadline = "passed",
           FailWith(code, cut)
    PROVE  IInv'
<1> USE DEF IInv
<1>1. /\ call' = "none" /\ deadline' = "none" /\ stack' = <<>> /\ promise' = "none"
      /\ interrupted' = cut
      /\ outcome' = [call |-> call, run |-> code, reported |-> Reported(code),
                     late |-> deadline = "passed", cut |-> cut]
  BY DEF FailWith, Return
<1>2. namespace' \in BOOLEAN /\ jobs' \in 0..MaxJobs /\ moduleError' \in ModuleErrors \cup {"none"}
  <2>1. CASE Dropped
    <3>1. namespace' = FALSE /\ jobs' = 0 /\ moduleError' = "none"
      BY <2>1 DEF FailWith
    <3>2. namespace' \in BOOLEAN
      BY <3>1, Zenon
    <3> QED
      BY <3>1, <3>2, EngineAssumption
  <2>2. CASE ~ Dropped
    BY <2>2 DEF FailWith, TypeOK
  <2> QED
    BY <2>1, <2>2
<1>3. (deadline = "passed") \in BOOLEAN
  OBVIOUS
<1>4. Reported(code) \in Codes
  BY ReportedIsCode
<1>5. interrupted' \in BOOLEAN
  BY <1>1, Zenon
<1>6. stack' \in Seq(Frames) /\ Len(stack') <= MaxDepth
  BY <1>1, EmptySeq, EngineAssumption
<1>7. outcome' \in [call : Calls \cup {"none"}, run : Codes \cup {"none", "ok"},
                    reported : Codes \cup {"none", "ok"}, late : BOOLEAN, cut : BOOLEAN]
  BY <1>1, <1>3, <1>4 DEF TypeOK
<1>8. TypeOK'
  BY <1>1, <1>2, <1>5, <1>6, <1>7 DEF TypeOK
<1>9. DeadlineCoversCall'
  BY <1>1 DEF DeadlineCoversCall
<1>10. outcome'.run = code /\ (outcome'.late <=> deadline = "passed")
  <2>1. outcome'.run = code
    BY <1>1
  <2>2. outcome'.late = (deadline = "passed")
    BY <1>1, Zenon
  <2> QED
    BY <2>1, <2>2
<1>11. DeadlineIsHonest'
  BY <1>10 DEF DeadlineIsHonest
<1> QED
  BY <1>8, <1>9, <1>11

\* A failure with one of the default codes keeps the invariant.
LEMMA FailByDefaultKeeps ==
    ASSUME IInv, NEW cut \in BOOLEAN, polls' \in BOOLEAN, FailByDefault(cut)
    PROVE  IInv'
<1>1. PICK code \in DefaultCodes : FailWith(code, cut)
  BY DEF FailByDefault
<1>2. code \in Codes /\ code # "deadline-exceeded"
  BY DefaultCodesAreCodes
<1> QED
  BY <1>1, <1>2, FailKeeps

\* The first frame of a call is within the depth of the stack.
LEMMA FirstFrameTyped ==
    ASSUME NEW stage
    PROVE  FirstFrame(stage) \in Seq(Frames) /\ Len(FirstFrame(stage)) <= MaxDepth
<1>1. <<>> \in Seq(Frames) /\ <<"main">> \in Seq(Frames) /\ <<"input">> \in Seq(Frames)
  BY DEF Frames
<1>2. Len(<<>>) = 0 /\ Len(<<"main">>) = 1 /\ Len(<<"input">>) = 1
  OBVIOUS
<1> QED
  BY <1>1, <1>2, EngineAssumption DEF FirstFrame

\* A call that starts has a fresh deadline and a lowered flag.
LEMMA RunKeeps ==
    ASSUME IInv, NEW stage \in Calls, RunWithDeadline(stage),
           polls' \in BOOLEAN, namespace' \in BOOLEAN, UNCHANGED <<jobs, moduleError, outcome>>
    PROVE  IInv'
<1> USE DEF IInv
<1>1. interrupted' \in BOOLEAN /\ ~ interrupted'
  <2>1. interrupted' = FALSE
    BY DEF RunWithDeadline
  <2> QED
    BY <2>1, Zenon
<1>2. stack' \in Seq(Frames) /\ Len(stack') <= MaxDepth
  BY FirstFrameTyped DEF RunWithDeadline
<1>3. call' = stage /\ deadline' = "armed" /\ promise' = "none" /\ stage # "none"
  BY DEF RunWithDeadline, Calls, LoadStages, Lifecycle
<1>4. TypeOK'
  BY <1>1, <1>2, <1>3 DEF TypeOK
<1>5. DeadlineCoversCall'
  BY <1>1, <1>3 DEF DeadlineCoversCall
<1>6. DeadlineIsHonest'
  BY DEF DeadlineIsHonest
<1> QED
  BY <1>4, <1>5, <1>6

\* A successful end of a call, or of a stage of the load, keeps the invariant.
LEMMA SucceedKeeps ==
    ASSUME IInv, Succeed, polls' \in BOOLEAN
    PROVE  IInv'
<1> USE DEF IInv
<1>1. CASE /\ call \in {"initialize", "evaluate", "validate"}
           /\ RunWithDeadline(NextStage(call))
           /\ namespace' = (call # "initialize")
           /\ UNCHANGED <<jobs, moduleError, outcome>>
  <2>1. NextStage(call) \in Calls
    BY <1>1 DEF NextStage, Calls, LoadStages
  <2>2. namespace' \in BOOLEAN
    BY <1>1, Zenon
  <2> QED
    BY <1>1, <2>1, <2>2, RunKeeps
<1>2. CASE /\ call \in {"load", "enable", "invoke", "disable", "unload"}
           /\ Return("ok", "ok", interrupted)
           /\ namespace' \in BOOLEAN /\ jobs' \in 0..MaxJobs
           /\ moduleError' \in ModuleErrors \cup {"none"}
  <2>1. /\ call' = "none" /\ deadline' = "none" /\ stack' = <<>> /\ promise' = "none"
        /\ interrupted' = interrupted
        /\ outcome' = [call |-> call, run |-> "ok", reported |-> "ok",
                       late |-> deadline = "passed", cut |-> interrupted]
    BY <1>2 DEF Return
  <2>2. (deadline = "passed") \in BOOLEAN /\ interrupted \in BOOLEAN
    BY DEF TypeOK
  <2>3. outcome' \in [call : Calls \cup {"none"}, run : Codes \cup {"none", "ok"},
                      reported : Codes \cup {"none", "ok"}, late : BOOLEAN, cut : BOOLEAN]
    BY <2>1, <2>2 DEF TypeOK
  <2>4. stack' \in Seq(Frames) /\ Len(stack') <= MaxDepth
    BY <2>1, EmptySeq, EngineAssumption
  <2>5. TypeOK'
    BY <1>2, <2>1, <2>2, <2>3, <2>4 DEF TypeOK
  <2>6. DeadlineCoversCall'
    BY <2>1 DEF DeadlineCoversCall
  <2>7. DeadlineIsHonest'
    <3>1. outcome'.run = "ok"
      BY <2>1
    <3> QED
      BY <3>1 DEF DeadlineIsHonest
  <2> QED
    BY <2>5, <2>6, <2>7
<1>3. CASE /\ call \in {"load", "enable", "invoke", "disable"}
           /\ Return("ok", "ok", interrupted)
           /\ UNCHANGED <<jobs, moduleError, namespace>>
  BY <1>2, <1>3 DEF TypeOK
<1>4. CASE /\ call = "unload"
           /\ Return("ok", "ok", interrupted)
           /\ namespace' = FALSE /\ jobs' = 0 /\ moduleError' = "none"
  <2>1. namespace' \in BOOLEAN
    BY <1>4, Zenon
  <2>2. 0 \in 0..MaxJobs
    BY EngineAssumption
  <2> QED
    BY <1>2, <1>4, <2>1, <2>2
<1> QED
  BY <1>1, <1>3, <1>4 DEF Succeed

\* An exception in the innermost frame keeps the invariant, if a raised flag means that
\* the deadline is over.
LEMMA RaisedKeeps ==
    ASSUME IInv, PayloadRuns, NEW cut \in BOOLEAN, cut => deadline = "passed", Raised(cut),
           polls' \in BOOLEAN
    PROVE  IInv'
<1> USE DEF IInv
<1>1. stack # <<>>
  BY DEF PayloadRuns
<1>2. CASE cut /\ FailWith("deadline-exceeded", cut)
  BY <1>2, FailKeeps DEF Codes
<1>3. CASE /\ Len(stack) < MaxDepth
           /\ stack' = Append(stack, "text")
           /\ UNCHANGED <<call, deadline, interrupted, promise, jobs, moduleError, namespace, outcome>>
  <2>1. "text" \in Frames
    BY DEF Frames
  <2>2. stack' \in Seq(Frames) /\ Len(stack') = Len(stack) + 1 /\ stack' # <<>>
    BY <1>3, <2>1, AppendProperties DEF TypeOK
  <2>3. TypeOK'
    BY <1>3, <2>2, BelowIsShorter, <1>1, EngineAssumption DEF TypeOK
  <2>4. DeadlineCoversCall'
    BY <1>1, <1>3 DEF DeadlineCoversCall
  <2> QED
    BY <1>3, <2>3, <2>4 DEF DeadlineIsHonest
<1>4. CASE FailWith("invalid-value", cut)
  BY <1>4, FailKeeps DEF Codes
<1>5. CASE FailByDefault(cut)
  BY <1>5, FailByDefaultKeeps
<1>6. CASE /\ stack' = Below
           /\ interrupted' = cut
           /\ UNCHANGED <<call, deadline, promise, jobs, moduleError, namespace, outcome>>
  <2>1. TypeOK'
    BY <1>1, <1>6, BelowIsShorter, EngineAssumption DEF TypeOK
  <2>2. DeadlineCoversCall'
    BY <1>1, <1>6 DEF DeadlineCoversCall
  <2> QED
    BY <1>6, <2>1, <2>2 DEF DeadlineIsHonest
<1> QED
  BY <1>2, <1>3, <1>4, <1>5, <1>6 DEF Raised

-----------------------------------------------------------------------------

LEMMA InitInvariant == Init => IInv
<1> SUFFICES ASSUME Init PROVE IInv
  OBVIOUS
<1>1. interrupted \in BOOLEAN /\ namespace \in BOOLEAN /\ polls \in BOOLEAN
  <2>1. interrupted = FALSE /\ namespace = FALSE /\ polls = FALSE
    BY DEF Init
  <2> QED
    BY <2>1, Zenon
<1>2. stack \in Seq(Frames) /\ Len(stack) <= MaxDepth
  BY EmptySeq, EngineAssumption DEF Init
<1>3. outcome \in [call : Calls \cup {"none"}, run : Codes \cup {"none", "ok"},
                   reported : Codes \cup {"none", "ok"}, late : BOOLEAN, cut : BOOLEAN]
  BY DEF Init, NoOutcome
<1>4. TypeOK
  BY <1>1, <1>2, <1>3, EngineAssumption DEF Init, TypeOK
<1>5. DeadlineCoversCall
  BY DEF Init, DeadlineCoversCall
<1>6. DeadlineIsHonest
  <2>1. outcome.run = "none"
    BY DEF Init, NoOutcome
  <2> QED
    BY <2>1 DEF DeadlineIsHonest
<1> QED
  BY <1>4, <1>5, <1>6 DEF IInv

\* A step that keeps the stack within its depth, leaves call and outcome alone and touches
\* neither the deadline nor the flag keeps the invariant: most of what a payload does.
LEMMA QuietStep ==
    ASSUME IInv, UNCHANGED <<call, deadline, interrupted, outcome>>, deadline # "none",
           stack' \in Seq(Frames), Len(stack') <= MaxDepth,
           promise' \in {"none", "pending", "fulfilled", "rejected"}, jobs' \in 0..MaxJobs,
           moduleError' \in ModuleErrors \cup {"none"}, namespace' \in BOOLEAN,
           polls' \in BOOLEAN
    PROVE  IInv'
<1>1. TypeOK'
  BY DEF IInv, TypeOK
<1>2. DeadlineCoversCall'
  BY DEF IInv, DeadlineCoversCall
<1> QED
  BY <1>1, <1>2 DEF IInv, DeadlineIsHonest

\* The native stacks the actions write are within the depth of the stack.
LEMMA StacksTyped ==
    /\ <<>> \in Seq(Frames) /\ Len(<<>>) <= MaxDepth
    /\ \A frame \in Frames : <<frame>> \in Seq(Frames) /\ Len(<<frame>>) <= MaxDepth /\ <<frame>> # <<>>
<1>1. <<>> \in Seq(Frames) /\ Len(<<>>) = 0
  BY EmptySeq
<1>2. \A frame \in Frames : <<frame>> \in Seq(Frames) /\ Len(<<frame>>) = 1
  OBVIOUS
<1>3. \A frame \in Frames : <<frame>> # <<>>
  BY <1>1, <1>2
<1> QED
  BY <1>1, <1>2, <1>3, EngineAssumption

LEMMA EnterKeeps == IInv /\ Enter /\ polls' \in BOOLEAN => IInv'
<1> SUFFICES ASSUME IInv, Enter, polls' \in BOOLEAN PROVE IInv'
  OBVIOUS
<1>1. CASE StartLoad
  <2>1. "initialize" \in Calls
    BY DEF Calls, LoadStages
  <2> QED
    BY <1>1, <2>1, RunKeeps DEF StartLoad, IInv, TypeOK
<1>2. CASE PackageRejected
  BY <1>2, FailKeeps DEF PackageRejected, Fail, Codes, ModuleErrors, IInv, TypeOK
<1>3. ASSUME NEW function \in Lifecycle, Start(function) PROVE IInv'
  <2>1. function \in Calls
    BY <1>3 DEF Calls
  <2> QED
    BY <1>3, <2>1, RunKeeps DEF Start, IInv, TypeOK
<1> QED
  BY <1>1, <1>2, <1>3 DEF Enter

LEMMA ConvertOrSucceedKeeps ==
    ASSUME IInv, ConvertOrSucceed, deadline # "none", polls' \in BOOLEAN
    PROVE  IInv'
<1>1. CASE Succeed
  BY <1>1, SucceedKeeps
<1>2. CASE call = "invoke"
  <2>1. "convert" \in Frames
    BY DEF Frames
  <2> QED
    BY <1>2, <2>1, StacksTyped, QuietStep DEF ConvertOrSucceed, IInv, TypeOK
<1> QED
  BY <1>1, <1>2 DEF ConvertOrSucceed

LEMMA PayloadKeeps == IInv /\ Payload /\ polls' \in BOOLEAN => IInv'
<1> SUFFICES ASSUME IInv, Payload, polls' \in BOOLEAN PROVE IInv'
  OBVIOUS
<1>1. TypeOK /\ DeadlineCoversCall
  BY DEF IInv
<1>2. stack # <<>> => deadline # "none" /\ call # "none"
  BY <1>1 DEF DeadlineCoversCall
<1>3. <<"main">> # <<>> /\ <<"job">> # <<>>
  BY StacksTyped DEF Frames
<1>4. CASE Throw
  BY <1>1, <1>4, RaisedKeeps DEF Throw, PayloadRuns, DeadlineCoversCall, TypeOK
<1>5. CASE MainReturnsPromise
  BY <1>1, <1>2, <1>3, <1>5, StacksTyped, QuietStep DEF MainReturnsPromise, TypeOK
<1>6. CASE MainReturnsValue
  BY <1>2, <1>3, <1>6, ConvertOrSucceedKeeps DEF MainReturnsValue
<1>7. CASE JobReturns
  BY <1>1, <1>2, <1>3, <1>7, StacksTyped, QuietStep DEF JobReturns, TypeOK
<1>8. CASE SettlesPromise
  BY <1>1, <1>2, <1>8, QuietStep DEF SettlesPromise, PayloadRuns, TypeOK
<1>9. CASE QueuesJob
  <2>1. jobs' \in 0..MaxJobs
    BY <1>1, <1>9, EngineAssumption DEF QueuesJob, TypeOK
  <2> QED
    BY <1>1, <1>2, <1>9, <2>1, QuietStep DEF QueuesJob, PayloadRuns, TypeOK
<1>10. CASE ImportRejected
  BY <1>1, <1>2, <1>10, QuietStep DEF ImportRejected, PayloadRuns, TypeOK
<1>11. CASE BridgeCall
  <2>1. "bridge" \in Frames
    BY DEF Frames
  <2>2. stack' \in Seq(Frames) /\ Len(stack') = Len(stack) + 1
    BY <1>1, <1>11, <2>1, AppendProperties DEF BridgeCall, TypeOK
  <2>3. Len(stack') <= MaxDepth
    BY <1>1, <1>11, <2>2, BelowIsShorter, EngineAssumption DEF BridgeCall, PayloadRuns
  <2> QED
    BY <1>1, <1>2, <1>11, <2>2, <2>3, QuietStep DEF BridgeCall, PayloadRuns, TypeOK
<1>12. CASE BridgeConverted
  <2>1. stack # <<>> /\ "transport" \in Frames
    BY <1>12 DEF BridgeConverted, Frames
  <2>2. Below \in Seq(Frames) /\ Len(Below) = Len(stack) - 1 /\ Len(stack) \in Nat
    BY <1>1, <2>1, BelowIsShorter
  <2>3. /\ Append(Below, "transport") \in Seq(Frames)
        /\ Len(Append(Below, "transport")) = Len(stack)
    BY <2>1, <2>2, AppendProperties
  <2>4. stack' \in Seq(Frames) /\ Len(stack') <= MaxDepth
    BY <1>1, <1>12, <2>2, <2>3, EngineAssumption DEF BridgeConverted, TypeOK
  <2> QED
    BY <1>1, <1>2, <1>12, <2>1, <2>4, QuietStep DEF BridgeConverted, TypeOK
<1> QED
  BY <1>4, <1>5, <1>6, <1>7, <1>8, <1>9, <1>10, <1>11, <1>12 DEF Payload

LEMMA ConvertKeeps == IInv /\ Convert /\ polls' \in BOOLEAN => IInv'
<1> SUFFICES ASSUME IInv, Convert, polls' \in BOOLEAN PROVE IInv'
  OBVIOUS
<1>1. TypeOK /\ DeadlineCoversCall
  BY DEF IInv
<1>2. CASE InputConverted
  <2>1. "main" \in Frames /\ <<"input">> # <<>>
    BY StacksTyped DEF Frames
  <2> QED
    BY <1>1, <1>2, <2>1, StacksTyped, QuietStep DEF InputConverted, DeadlineCoversCall, TypeOK
<1>3. CASE InputRejected
  BY <1>1, <1>3, FailKeeps DEF InputRejected, Fail, Codes, TypeOK
<1>4. CASE ResultConverted
  BY <1>4, SucceedKeeps DEF ResultConverted
<1>5. CASE ResultRejected
  BY <1>1, <1>5, FailKeeps DEF ResultRejected, Fail, Codes, TypeOK
<1>6. CASE TextRead
  <2>1. CASE Fail("resource-limit")
    BY <1>1, <2>1, FailKeeps DEF Fail, Codes, TypeOK
  <2>2. CASE FailByDefault(interrupted)
    BY <1>1, <2>2, FailByDefaultKeeps DEF TypeOK
  <2> QED
    BY <1>6, <2>1, <2>2 DEF TextRead
<1> QED
  BY <1>2, <1>3, <1>4, <1>5, <1>6 DEF Convert

LEMMA SettleKeeps == IInv /\ Settle => IInv'
<1> SUFFICES ASSUME IInv, Settle PROVE IInv'
  OBVIOUS
<1>1. TypeOK /\ DeadlineCoversCall /\ polls' \in BOOLEAN
  BY DEF IInv, Settle, TypeOK
<1>2. promise # "none" => deadline # "none"
  BY <1>1 DEF DeadlineCoversCall
<1>3. CASE SettleFulfilled
  BY <1>1, <1>2, <1>3, ConvertOrSucceedKeeps DEF SettleFulfilled
<1>4. CASE SettleRejected
  BY <1>1, <1>4, FailByDefaultKeeps DEF SettleRejected, TypeOK
<1>5. CASE SettlePending
  <2>1. CASE deadline = "passed" /\ Fail("deadline-exceeded")
    BY <1>1, <2>1, FailKeeps DEF Fail, Codes, TypeOK
  <2>2. CASE RunJob
    <3>1. deadline # "none"
      BY <1>2, <1>5 DEF SettlePending
    <3>2. jobs' \in 0..MaxJobs
      BY <1>1, <2>2, EngineAssumption DEF RunJob, TypeOK
    <3>3. "job" \in Frames
      BY DEF Frames
    <3>4. stack' \in Seq(Frames) /\ Len(stack') <= MaxDepth
      BY <1>1, <2>2, <3>3, StacksTyped DEF RunJob, TypeOK
    <3> QED
      BY <1>1, <2>2, <3>1, <3>2, <3>4, QuietStep DEF RunJob, TypeOK
  <2> QED
    BY <1>5, <2>1, <2>2 DEF SettlePending
<1> QED
  BY <1>3, <1>4, <1>5 DEF Settle

LEMMA StepInvariant == IInv /\ [Next]_vars => IInv'
<1> SUFFICES ASSUME IInv, [Next]_vars PROVE IInv'
  OBVIOUS
<1>1. TypeOK /\ DeadlineCoversCall
  BY DEF IInv
<1>2. CASE (Enter \/ Payload \/ Convert) /\ UNCHANGED polls
  BY <1>1, <1>2, EnterKeeps, PayloadKeeps, ConvertKeeps DEF TypeOK
<1>3. CASE Poll
  <2>1. polls' \in BOOLEAN
    <3>1. polls' = ~ polls
      BY <1>3 DEF Poll
    <3> QED
      BY <3>1, Zenon
  <2>2. CASE Raised(TRUE)
    BY <1>3, <2>1, <2>2, RaisedKeeps DEF Poll
  <2>3. CASE EvaluationRejected
    <3>1. interrupted' \in BOOLEAN
      <4>1. interrupted' = TRUE
        BY <2>3 DEF EvaluationRejected
      <4> QED
        BY <4>1, Zenon
    <3>2. TypeOK'
      BY <1>1, <2>1, <2>3, <3>1, StacksTyped DEF EvaluationRejected, TypeOK
    <3>3. DeadlineCoversCall'
      BY <1>1, <1>3, <2>3 DEF EvaluationRejected, Poll, DeadlineCoversCall
    <3> QED
      BY <2>3, <3>2, <3>3 DEF EvaluationRejected, IInv, DeadlineIsHonest
  <2> QED
    BY <1>3, <2>2, <2>3 DEF Poll
<1>4. CASE BridgeAnswered
  <2>1. stack # <<>>
    BY <1>4 DEF BridgeAnswered
  <2>2. Below \in Seq(Frames) /\ Len(Below) = Len(stack) - 1 /\ Len(stack) \in Nat
    BY <1>1, <2>1, BelowIsShorter
  <2>3. Len(stack') <= MaxDepth
    BY <1>1, <1>4, <2>2, EngineAssumption DEF BridgeAnswered, TypeOK
  <2> QED
    BY <1>1, <1>4, <2>1, <2>2, <2>3, QuietStep DEF BridgeAnswered, DeadlineCoversCall, TypeOK
<1>5. CASE Validate
  <2>1. polls' \in BOOLEAN
    BY <1>1, <1>5 DEF Validate, TypeOK
  <2>2. CASE Succeed
    BY <2>1, <2>2, SucceedKeeps
  <2>3. CASE Fail("invalid-export")
    BY <1>1, <2>1, <2>3, FailKeeps DEF Fail, Codes, TypeOK
  <2>4. CASE /\ stack' = <<"text">>
             /\ UNCHANGED <<call, deadline, interrupted, promise, jobs, moduleError, namespace, outcome>>
    <3>1. "text" \in Frames
      BY DEF Frames
    <3> QED
      BY <1>1, <1>5, <2>1, <2>4, <3>1, StacksTyped, QuietStep DEF Validate, DeadlineCoversCall, TypeOK
  <2> QED
    BY <1>5, <2>2, <2>3, <2>4 DEF Validate
<1>6. CASE Settle
  BY <1>6, SettleKeeps
<1>7. CASE Tick
  <2>1. TypeOK'
    BY <1>1, <1>7 DEF Tick, TypeOK
  <2>2. DeadlineCoversCall'
    BY <1>1, <1>7 DEF Tick, DeadlineCoversCall
  <2> QED
    BY <1>7, <2>1, <2>2 DEF Tick, IInv, DeadlineIsHonest
<1>8. CASE UNCHANGED vars
  BY <1>8 DEF vars, IInv, TypeOK, DeadlineCoversCall, DeadlineIsHonest
<1> QED
  BY <1>2, <1>3, <1>4, <1>5, <1>6, <1>7, <1>8 DEF Next

LEMMA Invariant == Spec => []IInv
  BY InitInvariant, StepInvariant, PTL DEF Spec

\* Every variable keeps its kind, and the native stack its depth.
THEOREM EngineTyped == Spec => []TypeOK
<1>1. IInv => TypeOK
  BY DEF IInv
<1> QED
  BY <1>1, Invariant, PTL

\* No payload code runs outside a deadline, wherever the native code calls it from.
THEOREM PayloadAlwaysBounded == Spec => []PayloadIsBounded
<1>1. IInv => PayloadIsBounded
  BY DEF IInv, DeadlineCoversCall, PayloadIsBounded
<1> QED
  BY <1>1, Invariant, PTL

\* deadline-exceeded is only ever said of a call whose deadline is over.
THEOREM DeadlineAlwaysHonest == Spec => []DeadlineIsHonest
<1>1. IInv => DeadlineIsHonest
  BY DEF IInv
<1> QED
  BY <1>1, Invariant, PTL
=============================================================================
