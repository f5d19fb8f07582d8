---------------------------- MODULE QuickJsEngine ---------------------------
(***************************************************************************)
(* One payload inside the Host process: QuickJsPlugin and the runtime it   *)
(* owns.  Every entry into the payload runs under a deadline that the      *)
(* QuickJS interrupt handler polls; the result may be a promise, which     *)
(* settle drives by running queued jobs; an exception is classified by its *)
(* text, and reading that text runs payload code again.                    *)
(*                                                                         *)
(* plugin.rs, runtime.rs, module_loader.rs, bridge.rs, value.rs of         *)
(* aura-quickjs-engine, and QuickJsGuestEngine of aura-quickjs-host.  The  *)
(* payload is the environment: it may do anything JavaScript can do.  Of   *)
(* QuickJS, which is not part of this repository, the model assumes that   *)
(* an interrupt is an exception that JavaScript cannot catch, also in an   *)
(* async function and in a job, and that only the native code which called *)
(* the payload, or the evaluation of a module, turns it into anything else.*)
(***************************************************************************)
EXTENDS Naturals, Sequences

CONSTANTS
    MaxDepth,   \* bound: native frames below the running payload code
    MaxJobs     \* bound: jobs that wait in the QuickJS queue

ASSUME EngineAssumption == MaxDepth \in Nat \ {0} /\ MaxJobs \in Nat

LoadStages == {"initialize", "evaluate", "validate", "load"}
Lifecycle == {"enable", "invoke", "disable", "unload"}
Calls == LoadStages \cup Lifecycle

\* The native code that waits for payload code to return: "main" is JS_Call or
\* JS_EvalFunction, "job" is JS_ExecutePendingJob, "input" is to_raw, "convert" is
\* from_raw on a result, "text" is the string conversion in classify_exception and
\* "bridge" is from_raw on the arguments of a Bridge call.  Under "transport" no
\* payload code runs: the Bridge call waits for its answer.
Frames == {"main", "job", "input", "convert", "text", "bridge", "transport"}

ModuleErrors == {"invalid-module", "path-escape", "resource-limit", "runtime-failure"}
Codes ==
    {"invalid-module", "path-escape", "resource-limit", "runtime-failure", "invalid-export",
     "guest-exception", "invalid-value", "deadline-exceeded"}
IsFatal(code) == code \in {"deadline-exceeded", "resource-limit", "runtime-failure"}

VARIABLES
    call,         \* the run_with_deadline in progress, or "none"
    deadline,     \* InterruptState.deadline: "none", "armed", or "passed" once it is over
    interrupted,  \* InterruptState.interrupted
    stack,        \* native frames with payload code above them; <<>> in the plugin's own code
    promise,      \* state of the promise settle drives, or "none"
    jobs,         \* jobs in the QuickJS queue
    moduleError,  \* ModuleLoaderState.error, or "none"
    namespace,    \* the plugin holds a module namespace
    outcome,      \* how the last entry into the plugin ended
    polls         \* parity of the polls that interrupted the payload, to tell them from throws

vars == <<call, deadline, interrupted, stack, promise, jobs, moduleError, namespace, outcome,
          polls>>

\* run is what run_with_deadline returned, reported what the plugin returned for it.
NoOutcome ==
    [call |-> "none", run |-> "none", reported |-> "none", late |-> FALSE, cut |-> FALSE]

Init ==
    /\ call = "none"
    /\ deadline = "none"
    /\ interrupted = FALSE
    /\ stack = <<>>
    /\ promise = "none"
    /\ jobs = 0
    /\ moduleError = "none"
    /\ namespace = FALSE
    /\ outcome = NoOutcome
    /\ polls = FALSE

Top == stack[Len(stack)]
Below == SubSeq(stack, 1, Len(stack) - 1)
PayloadRuns == stack # <<>> /\ Top # "transport"

FirstFrame(stage) ==
    IF stage = "validate" THEN <<>> ELSE IF stage = "invoke" THEN <<"input">> ELSE <<"main">>

\* Slip: the flag of the previous call is kept.
RunWithDeadlineKeepsFlag(stage) ==
    /\ call' = stage
    /\ deadline' = "armed"
    /\ stack' = FirstFrame(stage)
    /\ promise' = "none"
    /\ UNCHANGED interrupted

RunWithDeadline(stage) ==
    /\ call' = stage
    /\ interrupted' = FALSE
    /\ deadline' = "armed"
    /\ stack' = FirstFrame(stage)
    /\ promise' = "none"

\* A failed load and every unload drop the plugin and its runtime.
Dropped == call \in LoadStages \cup {"unload"}

Reported(code) ==
    IF call = "evaluate" /\ moduleError # "none" THEN moduleError ELSE code

Return(code, reported, cut) ==
    /\ call' = "none"
    /\ interrupted' = cut
    /\ deadline' = "none"
    /\ stack' = <<>>
    /\ promise' = "none"
    /\ outcome' = [call |-> call, run |-> code, reported |-> reported,
                   late |-> deadline = "passed", cut |-> cut]

FailWith(code, cut) ==
    /\ Return(code, Reported(code), cut)
    /\ IF Dropped
         THEN namespace' = FALSE /\ jobs' = 0 /\ moduleError' = "none"
         ELSE UNCHANGED <<namespace, jobs, moduleError>>

Fail(code) == FailWith(code, interrupted)

NextStage(stage) ==
    IF stage = "initialize" THEN "evaluate" ELSE IF stage = "evaluate" THEN "validate" ELSE "load"

Succeed ==
    \/ /\ call \in {"initialize", "evaluate", "validate"}
       /\ RunWithDeadline(NextStage(call))
       /\ namespace' = (call # "initialize")
       /\ UNCHANGED <<jobs, moduleError, outcome>>
    \/ /\ call \in {"load", "enable", "invoke", "disable"}
       /\ Return("ok", "ok", interrupted)
       /\ UNCHANGED <<jobs, moduleError, namespace>>
    \/ /\ call = "unload"
       /\ Return("ok", "ok", interrupted)
       /\ namespace' = FALSE /\ jobs' = 0 /\ moduleError' = "none"

\* The codes an exception may have when its text says nothing else: to_raw names
\* resource-limit for an array and invalid-value for its other helpers.
DefaultCodes ==
    IF call = "initialize" THEN {"runtime-failure"}
    ELSE IF call = "evaluate" THEN {"invalid-module"}
    ELSE IF call = "validate" THEN {"invalid-export"}
    ELSE IF stack # <<>> /\ stack[1] = "input" THEN {"invalid-value", "resource-limit"}
    ELSE IF stack # <<>> /\ stack[1] = "convert" THEN {"invalid-value"}
    ELSE {"guest-exception"}

FailByDefault(cut) == \E code \in DefaultCodes : FailWith(code, cut)

-----------------------------------------------------------------------------
(* Entries into the plugin *)

StartLoad ==
    /\ call = "none"
    /\ ~ namespace
    /\ RunWithDeadline("initialize")
    /\ UNCHANGED <<jobs, moduleError, namespace, outcome>>

\* The runtime or its Bridge objects cannot be made, or the root name, the package root
\* or the root module's file is refused.
PackageRejected ==
    /\ call = "initialize"
    /\ stack = <<"main">>
    /\ \E code \in ModuleErrors : Fail(code)

Start(function) ==
    /\ call = "none"
    /\ namespace
    /\ RunWithDeadline(function)
    /\ UNCHANGED <<jobs, moduleError, namespace, outcome>>

-----------------------------------------------------------------------------
(* The payload *)

\* The innermost native frame sees an exception; cut is the interrupted flag by then.
Raised(cut) ==
    \/ /\ Top \in {"main", "job", "input", "convert"}
       /\ cut
       /\ FailWith("deadline-exceeded", cut)
    \/ /\ Top \in {"main", "job", "input", "convert"}
       /\ ~ cut
       /\ Len(stack) < MaxDepth
       /\ stack' = Append(stack, "text")
       /\ UNCHANGED <<call, deadline, interrupted, promise, jobs, moduleError, namespace, outcome>>
    \/ /\ Top = "convert"               \* map_entries drops the exceptions of its accesses
       /\ FailWith("invalid-value", cut)
    \/ /\ Top = "text"                  \* the text cannot be read
       /\ FailByDefault(cut)
    \/ /\ Top = "bridge"                \* callback_guard answers with a rejected promise
       /\ stack' = Below
       /\ interrupted' = cut
       /\ UNCHANGED <<call, deadline, promise, jobs, moduleError, namespace, outcome>>

\* QuickJS ends the evaluation of a module that was interrupted in one of two ways.
EvaluationRejected ==
    /\ call = "evaluate"
    /\ stack = <<"main">>
    /\ promise' = "rejected"
    /\ stack' = <<>>
    /\ interrupted' = TRUE
    /\ UNCHANGED <<call, deadline, jobs, moduleError, namespace, outcome>>

\* interrupt_handler, once the deadline is over; before that it changes nothing.
Poll ==
    /\ PayloadRuns
    /\ deadline = "passed"
    /\ Raised(TRUE) \/ EvaluationRejected
    /\ polls' = ~ polls

Throw ==
    /\ PayloadRuns
    /\ Raised(interrupted)

MainReturnsPromise ==
    /\ stack = <<"main">>
    /\ call # "initialize"
    /\ promise' \in {"pending", "fulfilled", "rejected"}
    /\ stack' = <<>>
    /\ UNCHANGED <<call, deadline, interrupted, jobs, moduleError, namespace, outcome>>

\* Slip: the result is converted after run_with_deadline returned.
ConvertOrSucceedUntimed ==
    \/ call # "invoke" /\ Succeed
    \/ /\ call = "invoke"
       /\ stack' = <<"convert">>
       /\ promise' = "none"
       /\ deadline' = "none"
       /\ UNCHANGED <<call, interrupted, jobs, moduleError, namespace, outcome>>

\* invoke converts its result under the deadline of the call.
ConvertOrSucceed ==
    \/ call # "invoke" /\ Succeed
    \/ /\ call = "invoke"
       /\ stack' = <<"convert">>
       /\ promise' = "none"
       /\ UNCHANGED <<call, deadline, interrupted, jobs, moduleError, namespace, outcome>>

MainReturnsValue ==
    /\ stack = <<"main">>
    /\ ConvertOrSucceed

JobReturns ==
    /\ stack = <<"job">>
    /\ stack' = <<>>
    /\ UNCHANGED <<call, deadline, interrupted, promise, jobs, moduleError, namespace, outcome>>

SettlesPromise ==
    /\ PayloadRuns
    /\ promise = "pending"
    /\ promise' \in {"fulfilled", "rejected"}
    /\ UNCHANGED <<call, deadline, interrupted, stack, jobs, moduleError, namespace, outcome>>

QueuesJob ==
    /\ PayloadRuns
    /\ call # "initialize"
    /\ jobs < MaxJobs
    /\ jobs' = jobs + 1
    /\ UNCHANGED <<call, deadline, interrupted, stack, promise, moduleError, namespace, outcome>>

\* normalize_callback or load_callback refuses a module; the payload may catch that.
ImportRejected ==
    /\ PayloadRuns
    /\ call # "initialize"
    /\ moduleError' \in ModuleErrors
    /\ UNCHANGED <<call, deadline, interrupted, stack, promise, jobs, namespace, outcome>>

BridgeCall ==
    /\ PayloadRuns
    /\ call # "initialize"
    /\ Len(stack) < MaxDepth
    /\ stack' = Append(stack, "bridge")
    /\ UNCHANGED <<call, deadline, interrupted, promise, jobs, moduleError, namespace, outcome>>

\* The arguments are refused, or they are sent and the thread waits for the answer.
BridgeConverted ==
    /\ stack # <<>>
    /\ Top = "bridge"
    /\ stack' \in {Below, Append(Below, "transport")}
    /\ UNCHANGED <<call, deadline, interrupted, promise, jobs, moduleError, namespace, outcome>>

BridgeAnswered ==
    /\ stack # <<>>
    /\ Top = "transport"
    /\ stack' = Below
    /\ UNCHANGED <<call, deadline, interrupted, promise, jobs, moduleError, namespace, outcome,
                   polls>>

-----------------------------------------------------------------------------
(* The plugin's own code *)

InputConverted ==
    /\ stack = <<"input">>
    /\ stack' = <<"main">>
    /\ UNCHANGED <<call, deadline, interrupted, promise, jobs, moduleError, namespace, outcome>>

InputRejected ==
    /\ stack = <<"input">>
    /\ Fail("invalid-value") \/ Fail("resource-limit")

ResultConverted ==
    /\ stack = <<"convert">>
    /\ Succeed

ResultRejected ==
    /\ stack = <<"convert">>
    /\ Fail("invalid-value")

\* The text names a limit of the runtime, or it does not; validate_exports ignores it.
TextRead ==
    /\ stack # <<>>
    /\ Top = "text"
    /\ (call # "validate" /\ Fail("resource-limit")) \/ FailByDefault(interrupted)

\* Every export is a function, one is not, or reading one raises an exception, whose text
\* is read before the load fails.
Validate ==
    /\ call = "validate"
    /\ stack = <<>>
    /\ \/ Succeed
       \/ Fail("invalid-export")
       \/ /\ stack' = <<"text">>
          /\ UNCHANGED <<call, deadline, interrupted, promise, jobs, moduleError, namespace, outcome>>
    /\ UNCHANGED polls

SettleFulfilled ==
    /\ stack = <<>>
    /\ promise = "fulfilled"
    /\ ConvertOrSucceed

SettleRejected ==
    /\ stack = <<>>
    /\ promise = "rejected"
    /\ FailByDefault(interrupted)

\* Slip: the queue is taken to hold a job.
RunJobUnchecked ==
    /\ jobs' = jobs - 1
    /\ stack' = <<"job">>
    /\ UNCHANGED <<call, deadline, interrupted, promise, moduleError, namespace, outcome>>

\* JS_ExecutePendingJob, or yield_now when the queue is empty.
RunJob ==
    \/ /\ jobs > 0
       /\ jobs' = jobs - 1
       /\ stack' = <<"job">>
       /\ UNCHANGED <<call, deadline, interrupted, promise, moduleError, namespace, outcome>>
    \/ /\ jobs = 0
       /\ UNCHANGED <<call, deadline, interrupted, stack, promise, jobs, moduleError, namespace,
                      outcome>>

\* Slip: only the interrupt handler looks at the deadline.
SettlePendingUntimed ==
    /\ stack = <<>>
    /\ promise = "pending"
    /\ RunJob

SettlePending ==
    /\ stack = <<>>
    /\ promise = "pending"
    /\ IF deadline = "passed" THEN Fail("deadline-exceeded") ELSE RunJob

Settle ==
    /\ SettleFulfilled \/ SettleRejected \/ SettlePending
    /\ UNCHANGED polls

Tick ==
    /\ deadline = "armed"
    /\ deadline' = "passed"
    /\ UNCHANGED <<call, interrupted, stack, promise, jobs, moduleError, namespace, outcome,
                   polls>>

Enter == StartLoad \/ PackageRejected \/ \E function \in Lifecycle : Start(function)

Payload ==
    \/ Throw \/ MainReturnsPromise \/ MainReturnsValue \/ JobReturns \/ SettlesPromise
    \/ QueuesJob \/ ImportRejected \/ BridgeCall \/ BridgeConverted

Convert == InputConverted \/ InputRejected \/ ResultConverted \/ ResultRejected \/ TextRead

Next ==
    \/ (Enter \/ Payload \/ Convert) /\ UNCHANGED polls
    \/ Poll \/ BridgeAnswered \/ Validate \/ Settle \/ Tick

Spec == Init /\ [][Next]_vars

\* Time passes, the plugin's own code runs, QuickJS polls the handler again and again
\* while payload code runs, and the driving process reads and answers each Bridge call.
FairSpec ==
    /\ Spec
    /\ WF_vars(Tick)
    /\ WF_vars(Validate)
    /\ WF_vars(Settle)
    /\ WF_vars(BridgeAnswered)
    /\ SF_vars(Poll)

-----------------------------------------------------------------------------
(* Properties *)

\* Every variable holds a value of its kind.
TypeOK ==
    /\ call \in Calls \cup {"none"}
    /\ deadline \in {"none", "armed", "passed"}
    /\ interrupted \in BOOLEAN
    /\ stack \in Seq(Frames)
    /\ Len(stack) <= MaxDepth
    /\ promise \in {"none", "pending", "fulfilled", "rejected"}
    /\ jobs \in 0..MaxJobs
    /\ moduleError \in ModuleErrors \cup {"none"}
    /\ namespace \in BOOLEAN
    /\ polls \in BOOLEAN
    /\ outcome \in [call : Calls \cup {"none"}, run : Codes \cup {"none", "ok"},
                    reported : Codes \cup {"none", "ok"}, late : BOOLEAN, cut : BOOLEAN]

\* Payload code never runs without a deadline over it, be it called by the plugin, by a
\* job, by a conversion of a value, or by the text of an exception (run_with_deadline).
PayloadIsBounded == stack # <<>> => deadline # "none"

\* A call that fails with deadline-exceeded did outlive its own deadline: an interrupt
\* of an earlier call never fails a later one (run_with_deadline resets the flag).
DeadlineIsHonest == outcome.run = "deadline-exceeded" => outcome.late

\* An interrupt that reaches the arguments of a Bridge call ends in callback_guard.
InterruptAbsorbed == Poll /\ stack' = Below /\ stack' # <<>>

\* Every entry into the plugin returns, whatever the payload does and though its promise
\* may never settle, unless Bridge calls go on absorbing its interrupts for ever; provided
\* the driving process answers the Bridge calls and QuickJS polls, as FairSpec says.
CallsReturnUnlessAbsorbed == []<>(call = "none") \/ []<><<InterruptAbsorbed>>_vars

\* Every entry into the plugin returns (the deadline of runtime.rs:136 and :314).
CallsReturn == []<>(call = "none")

\* A fatal failure of the engine leaves the plugin as a fatal failure: the Host stops
\* instead of answering it (faults.rs:51).
FatalStaysFatal == IsFatal(outcome.run) => IsFatal(outcome.reported)

\* A lifecycle call that fails after an interrupt says deadline-exceeded (tests/runtime.rs:30).
InterruptIsReported ==
    outcome.cut /\ outcome.call \in Lifecycle /\ outcome.run # "ok"
        => outcome.run = "deadline-exceeded"
=============================================================================
