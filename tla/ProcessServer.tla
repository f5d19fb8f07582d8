--------------------------- MODULE ProcessServer ----------------------------
(***************************************************************************)
(* The Host process: one thread that reads commands from its standard      *)
(* input, runs the payload's lifecycle functions, and writes one response  *)
(* for each command to its standard output.  While a lifecycle function    *)
(* runs, the payload may call the Bridge: the same thread then writes a    *)
(* callback request and reads its answer from the same two streams.        *)
(*                                                                         *)
(* server.rs (ProcessServer, ProcessBridge), guest_engine.rs, error.rs     *)
(* and the direction rules of protocol lib.rs (Message::new).  The process *)
(* that drives the Host is the environment: it may write any frame the     *)
(* protocol can carry, in any order, close either pipe, or stop answering  *)
(* or reading for ever.  So may a lifecycle function run for ever.         *)
(***************************************************************************)
EXTENDS Naturals, Sequences

CONSTANTS
    MaxId,              \* i64::MAX, the largest request identifier
    RequestIds,         \* identifiers the driving process uses for its commands
    ReplyIds,           \* identifiers it uses for callback answers
    ParentBodies,       \* message kinds it sends
    DiagnosticLengths,  \* lengths of the messages a descriptor failure may carry
    MaxFrames,          \* bound: frames the driving process writes in a behaviour
    MaxQueue,           \* bound: frames that wait in the input pipe
    MaxCalls            \* bound: Bridge calls one lifecycle function makes before its deadline

Commands == {"Hello", "Load", "Enable", "Invoke", "Disable", "Shutdown"}
ChildReplies == {"Ok", "Result", "Error"}
BridgeRequests == {"BridgeInvoke", "RetainHandle", "ReleaseHandle"}
\* "CallbackUnit" is a CallbackResult whose output is empty, which handle_call tells apart.
BridgeReplies == {"CallbackResult", "CallbackUnit", "CallbackError"}
Bodies == Commands \cup ChildReplies \cup BridgeRequests \cup BridgeReplies

ASSUME ConstantsAssumption ==
    /\ MaxId \in Nat /\ MaxId >= 2
    /\ RequestIds \subseteq Nat
    /\ ReplyIds \subseteq Nat
    /\ ParentBodies \subseteq Bodies
    /\ DiagnosticLengths \subseteq Nat
    /\ MaxFrames \in Nat /\ MaxQueue \in Nat /\ MaxCalls \in Nat

UsesEvenRequestId(body) == body \in BridgeRequests \cup BridgeReplies

\* Slip: the range of the identifier is not checked.
ValidMessageAnyId(id, body) == (id % 2 = 0) <=> UsesEvenRequestId(body)

\* Message::new: a positive signed-64 identifier of the parity of its direction.
ValidMessage(id, body) ==
    /\ id \in 1..MaxId
    /\ (id % 2 = 0) <=> UsesEvenRequestId(body)

\* Bytes read_frame refuses: a bad length, a truncated or an invalid message.
Malformed == [id |-> 0, body |-> "Malformed"]

ParentFrames ==
    {m \in [id : RequestIds \cup ReplyIds, body : ParentBodies] : ValidMessage(m.id, m.body)}
        \cup {Malformed}

NoRequest == [id |-> 0, body |-> "None"]
NoCallback == NoRequest

LifecycleState == {"AwaitHello", "AwaitLoad", "Loaded", "Enabled", "Disabled", "Closed"}

GuestFunctions == {"load", "enable", "invoke", "disable", "unload"}

EngineCodes ==
    {"invalid-module", "invalid-export", "path-escape", "guest-exception", "invalid-value",
     "deadline-exceeded", "resource-limit", "runtime-failure"}

IsFatal(code) == code \in {"deadline-exceeded", "resource-limit", "runtime-failure"}

\* A HostError of this code and message is sent as "code: message"; the code is
\* given by its length, and Message::new refuses a text of more than 4096 bytes.
DiagnosticLimit == 4096
Truncated(length) == IF length > DiagnosticLimit THEN DiagnosticLimit ELSE length
ErrorBody(codeLength, length) ==
    IF codeLength + 2 + Truncated(length) <= DiagnosticLimit THEN "error" ELSE "unwritable"

VARIABLES
    \* the driving process and the two pipes
    input,      \* frames written and not yet read
    sent,       \* how many frames it wrote
    inClosed,   \* it closed the Host's standard input
    outBroken,  \* it closed the Host's standard output, as its death does
    outFull,    \* the output pipe has no room for the next frame until it reads
    \* the Host
    pc,         \* where the thread is
    reader,     \* who holds the reader lock: "free", "serve" or "bridge"
    state,      \* self.state
    plugin,     \* self.engine.plugin.is_some()
    request,    \* the command being handled
    handled,    \* what handle returned: "none", "ok", "error", "unwritable" or "fatal"
    guest,      \* the lifecycle function being run, or "idle"
    calls,      \* Bridge calls it made so far
    callback,   \* the callback request made and not yet answered
    nextId,     \* next_callback_id
    poison,     \* self.poison.is_some()
    exit,       \* "running", "ok", or why serve returned an error
    \* what was exchanged, for the properties
    consumed,   \* frames taken from the input
    accepted,   \* commands serve took
    replied,    \* responses written
    asked,      \* callback requests made
    issued      \* identifiers of the callback requests of the current Bridge

closing == <<inClosed, outBroken>>
parentVars == <<sent, closing, outFull>>
traceVars == <<consumed, accepted, replied, asked, issued>>
bridgeVars == <<callback, nextId, poison>>
vars == <<input, parentVars, pc, reader, state, plugin, request, handled, guest, calls,
          bridgeVars, exit, traceVars>>

Init ==
    /\ input = <<>>
    /\ sent = 0
    /\ inClosed = FALSE
    /\ outBroken = FALSE
    /\ outFull \in BOOLEAN
    /\ pc = "loop"
    /\ reader = "free"
    /\ state = "AwaitHello"
    /\ plugin = FALSE
    /\ request = NoRequest
    /\ handled = "none"
    /\ guest = "idle"
    /\ calls = 0
    /\ callback = NoCallback
    /\ nextId = 2
    /\ poison = FALSE
    /\ exit = "running"
    /\ consumed = 0
    /\ accepted = 0
    /\ replied = 0
    /\ asked = 0
    /\ issued = <<>>

-----------------------------------------------------------------------------
(* The driving process *)

ParentWrite(frame) ==
    /\ ~ inClosed
    /\ sent < MaxFrames
    /\ Len(input) < MaxQueue
    /\ input' = Append(input, frame)
    /\ sent' = sent + 1
    /\ UNCHANGED <<closing, outFull, pc, reader, state, plugin, request, handled, guest,
                   calls, bridgeVars, exit, traceVars>>

ParentCloseInput ==
    /\ ~ inClosed
    /\ inClosed' = TRUE
    /\ UNCHANGED <<input, sent, outBroken, outFull, pc, reader, state, plugin, request, handled,
                   guest, calls, bridgeVars, exit, traceVars>>

\* From now on a write fails, one that was waiting for room too.
ParentCloseOutput ==
    /\ ~ outBroken
    /\ outBroken' = TRUE
    /\ UNCHANGED <<input, sent, inClosed, outFull, pc, reader, state, plugin, request, handled,
                   guest, calls, bridgeVars, exit, traceVars>>

\* It takes what is in the output pipe; nothing makes it.
ParentRead ==
    /\ ~ outBroken
    /\ outFull
    /\ outFull' = FALSE
    /\ UNCHANGED <<input, sent, closing, pc, reader, state, plugin, request, handled, guest,
                   calls, bridgeVars, exit, traceVars>>

\* write_frame and flush: they wait while the pipe is full, and fail once it is closed.
WriteOutput ==
    /\ ~ outBroken
    /\ ~ outFull
    /\ outFull' \in BOOLEAN

-----------------------------------------------------------------------------
(* serve: reading the next command *)

Exit(reason) ==
    /\ exit' = reason
    /\ pc' = "exited"
    /\ request' = NoRequest
    /\ handled' = "none"

\* Slip: the guard lives on until the command has been answered.
ReleaseReaderLate == reader' = reader

\* The guard of the reader lock is dropped at the end of the read.
ReleaseReader == reader' = "free"

LockReader ==
    /\ pc = "loop"
    /\ reader = "free"
    /\ reader' = "serve"
    /\ pc' = "reading"
    /\ UNCHANGED <<input, parentVars, state, plugin, request, handled, guest, calls, bridgeVars,
                   exit, traceVars>>

\* A frame read_frame refuses, or a callback answer no callback waits for.
ReadUnusable ==
    /\ pc = "reading"
    /\ input # <<>>
    /\ Head(input).id % 2 = 0
    /\ input' = Tail(input)
    /\ consumed' = consumed + 1
    /\ ReleaseReader
    /\ Exit("misread")
    /\ UNCHANGED <<parentVars, state, plugin, guest, calls, bridgeVars, accepted, replied, asked,
                   issued>>

ReadCommand ==
    /\ pc = "reading"
    /\ input # <<>>
    /\ Head(input).id % 2 = 1
    /\ input' = Tail(input)
    /\ consumed' = consumed + 1
    /\ accepted' = accepted + 1
    /\ request' = Head(input)
    /\ ReleaseReader
    /\ pc' = "handling"
    /\ UNCHANGED <<parentVars, state, plugin, handled, guest, calls, bridgeVars, exit, replied,
                   asked, issued>>

-----------------------------------------------------------------------------
(* handle: one action for each command.  Those that run a lifecycle        *)
(* function end in GuestReturn.                                            *)

Handling(body) == pc = "handling" /\ request.body = body

\* handle has its result; serve goes on to the poison check.
Result(h) ==
    /\ handled' = h
    /\ pc' = "finishing"

\* The engine enters a lifecycle function.
EnterGuest(f) ==
    /\ guest' = f
    /\ calls' = 0
    /\ pc' = "guest"

\* invalid_state and invalid_value: short static diagnostics, never fatal.
Refuse ==
    /\ Result("error")
    /\ UNCHANGED <<state, plugin, guest, calls, nextId, issued>>

handleUnchanged == <<input, parentVars, reader, request, callback, poison, exit, consumed,
                     accepted, replied, asked>>

HandleHello ==
    /\ Handling("Hello")
    /\ \/ state # "AwaitHello" /\ Refuse
       \/ /\ state = "AwaitHello"
          /\ state' = "AwaitLoad"
          /\ Result("ok")
          /\ UNCHANGED <<plugin, guest, calls, nextId, issued>>
    /\ UNCHANGED handleUnchanged

\* A load that reaches the engine gets a Bridge of its own, whose callback
\* identifiers start again at 2 whatever an earlier, failed load used.
HandleLoad ==
    /\ Handling("Load")
    /\ \/ state # "AwaitLoad" /\ Refuse
       \/ /\ state = "AwaitLoad"
          /\ \E length \in DiagnosticLengths : Result(ErrorBody(18, length))
          /\ UNCHANGED <<state, plugin, guest, calls, nextId, issued>>
       \/ /\ state = "AwaitLoad" /\ plugin
          /\ nextId' = 2
          /\ issued' = <<>>
          /\ Result("error")
          /\ UNCHANGED <<state, plugin, guest, calls>>
       \/ /\ state = "AwaitLoad" /\ ~ plugin
          /\ nextId' = 2
          /\ issued' = <<>>
          /\ EnterGuest("load")
          /\ UNCHANGED <<state, plugin, handled>>
    /\ UNCHANGED handleUnchanged

HandleEnable ==
    /\ Handling("Enable")
    /\ \/ (state # "Loaded" \/ ~ plugin) /\ Refuse
       \/ /\ state = "Loaded" /\ plugin
          /\ EnterGuest("enable")
          /\ UNCHANGED <<state, plugin, handled, nextId, issued>>
    /\ UNCHANGED handleUnchanged

\* The input is decoded before the payload is looked up: invalid-value.
HandleInvoke ==
    /\ Handling("Invoke")
    /\ \/ Refuse
       \/ /\ state = "Enabled" /\ plugin
          /\ EnterGuest("invoke")
          /\ UNCHANGED <<state, plugin, handled, nextId, issued>>
    /\ UNCHANGED handleUnchanged

HandleDisable ==
    /\ Handling("Disable")
    /\ \/ (state # "Enabled" \/ ~ plugin) /\ Refuse
       \/ /\ state = "Enabled" /\ plugin
          /\ EnterGuest("disable")
          /\ UNCHANGED <<state, plugin, handled, nextId, issued>>
    /\ UNCHANGED handleUnchanged

\* Slip: Shutdown is accepted while Enabled.
MayShutdownEnabled == state \in {"Loaded", "Enabled", "Disabled"}

MayShutdown == state \in {"Loaded", "Disabled"}

\* The payload is taken out of the engine before its unload runs, so it is
\* gone even when unload fails and the server stays where it was.
HandleShutdown ==
    /\ Handling("Shutdown")
    /\ \/ (~ MayShutdown \/ ~ plugin) /\ Refuse
       \/ /\ MayShutdown /\ plugin
          /\ plugin' = FALSE
          /\ EnterGuest("unload")
          /\ UNCHANGED <<state, handled, nextId, issued>>
    /\ UNCHANGED handleUnchanged

HandleMisdirected ==
    /\ pc = "handling"
    /\ request.body \in ChildReplies
    /\ Result("fatal")
    /\ UNCHANGED <<state, plugin, guest, calls, nextId, issued>>
    /\ UNCHANGED handleUnchanged

Handle ==
    \/ HandleHello \/ HandleLoad \/ HandleEnable \/ HandleInvoke \/ HandleDisable
    \/ HandleShutdown \/ HandleMisdirected

-----------------------------------------------------------------------------
(* serve: the poison check, then the response *)

finishUnchanged == <<input, sent, closing, reader, state, plugin, guest, calls, bridgeVars,
                     consumed, accepted, asked, issued>>

\* Slip: serve uses what handle returned before it looks at the poison.
HealthyUnchecked == pc = "finishing"

Healthy == pc = "finishing" /\ ~ poison

\* Poison outranks whatever handle returned.
FinishPoisoned ==
    /\ pc = "finishing"
    /\ poison
    /\ Exit("poisoned")
    /\ UNCHANGED <<replied, outFull, finishUnchanged>>

FinishFailed ==
    /\ Healthy
    /\ \/ handled = "fatal" /\ Exit("fatal")
       \/ handled = "unwritable" /\ Exit("unwritable")
       \/ handled \in {"ok", "error"} /\ outBroken /\ Exit("io")
    /\ UNCHANGED <<replied, outFull, finishUnchanged>>

FinishReply ==
    /\ Healthy
    /\ handled \in {"ok", "error"}
    /\ WriteOutput
    /\ replied' = replied + 1
    /\ IF handled = "ok" /\ request.body = "Shutdown"
       THEN Exit("ok")
       ELSE /\ pc' = "loop"
            /\ request' = NoRequest
            /\ handled' = "none"
            /\ UNCHANGED exit
    /\ UNCHANGED finishUnchanged

-----------------------------------------------------------------------------
(* close_on_eof: reached from serve at the end of the input, between two   *)
(* commands.  What disable and unload return is ignored.                   *)

cleanupUnchanged == <<input, parentVars, bridgeVars, traceVars>>

\* Slip: the payload is unloaded without its disable.
NeedsDisableNever == FALSE

NeedsDisable == state = "Enabled" /\ plugin

ReadEof ==
    /\ pc = "reading"
    /\ input = <<>>
    /\ inClosed
    /\ ReleaseReader
    /\ IF NeedsDisable
       THEN EnterGuest("disable")
       ELSE pc' = "cleanup" /\ UNCHANGED <<guest, calls>>
    /\ UNCHANGED <<state, plugin, request, handled, exit, cleanupUnchanged>>

\* Slip: close_on_eof expects disable to have moved the server on.
NeedsUnloadUnlessEnabled == state \in {"Loaded", "Disabled"} /\ plugin

NeedsUnload == state \in {"Loaded", "Enabled", "Disabled"} /\ plugin

Cleanup ==
    /\ pc = "cleanup"
    /\ IF NeedsUnload
       THEN /\ plugin' = FALSE
            /\ EnterGuest("unload")
            /\ UNCHANGED <<state, request, handled, exit>>
       ELSE /\ state' = "Closed"
            /\ Exit("ok")
            /\ UNCHANGED <<plugin, guest, calls>>
    /\ UNCHANGED <<reader, cleanupUnchanged>>

-----------------------------------------------------------------------------
(* The end of a lifecycle function *)

\* Slip: a disabled payload may be enabled again.
SuccessorReenables ==
    [load |-> "Loaded", enable |-> "Enabled", invoke |-> "Enabled", disable |-> "Loaded",
     unload |-> "Closed"]

\* Where the server goes when the function it ran for a command succeeds.
Successor ==
    [load |-> "Loaded", enable |-> "Enabled", invoke |-> "Enabled", disable |-> "Disabled",
     unload |-> "Closed"]

guestUnchanged == <<input, parentVars, reader, request, bridgeVars, traceVars>>

\* An invoke result may be too large for a frame, which only the write finds out.
GuestSucceeds ==
    /\ pc = "guest"
    /\ request # NoRequest
    /\ guest' = "idle"
    /\ state' = Successor[guest]
    /\ plugin' = (plugin \/ guest = "load")
    /\ \/ Result("ok")
       \/ guest = "invoke" /\ Result("unwritable")
    /\ UNCHANGED <<calls, exit, guestUnchanged>>

GuestFails ==
    /\ pc = "guest"
    /\ request # NoRequest
    /\ guest' = "idle"
    /\ \E code \in EngineCodes : Result(IF IsFatal(code) THEN "fatal" ELSE "error")
    /\ UNCHANGED <<state, plugin, calls, exit, guestUnchanged>>

\* The two calls of close_on_eof, whatever they return.
CleanupGuestReturns ==
    /\ pc = "guest"
    /\ request = NoRequest
    /\ guest' = "idle"
    /\ IF guest = "disable"
       THEN pc' = "cleanup" /\ UNCHANGED <<state, request, handled, exit>>
       ELSE state' = "Closed" /\ Exit("ok")
    /\ UNCHANGED <<plugin, calls, input, parentVars, reader, bridgeVars, traceVars>>

GuestReturn == GuestSucceeds \/ GuestFails \/ CleanupGuestReturns

-----------------------------------------------------------------------------
(* ProcessBridge: a Bridge call made by the running lifecycle function.    *)
(* A failure poisons the server and rejects the call; the guest goes on.   *)

bridgeUnchanged == <<parentVars, state, plugin, request, handled, guest, exit, accepted, replied>>

\* fetch_add wraps at 2^64, twice the signed-64 range.
IdSpace == 2 * (MaxId + 1)
\* Slip: an identifier wider than the counter.
TakeIdUnbounded ==
    /\ nextId' = nextId + 2
    /\ calls' = calls + 1

TakeId ==
    /\ nextId' = IF nextId + 2 < IdSpace THEN nextId + 2 ELSE nextId + 2 - IdSpace
    /\ calls' = calls + 1

\* The identifier is exhausted, or the message has a blank operation or does not
\* fit a frame: nothing is written.
BridgeCallFails(body) ==
    /\ pc = "guest"
    /\ calls < MaxCalls
    /\ ~ ValidMessage(nextId, body) \/ body = "BridgeInvoke"
    /\ TakeId
    /\ poison' = TRUE
    /\ UNCHANGED <<input, pc, reader, callback, consumed, asked, issued, bridgeUnchanged>>

BridgeCall(body) ==
    /\ pc = "guest"
    /\ calls < MaxCalls
    /\ ValidMessage(nextId, body)
    /\ TakeId
    /\ callback' = [id |-> nextId, body |-> body]
    /\ asked' = asked + 1
    /\ issued' = Append(issued, nextId)
    /\ pc' = "writing"
    /\ UNCHANGED <<input, reader, poison, consumed, bridgeUnchanged>>

BridgeWrite ==
    /\ pc = "writing"
    /\ WriteOutput
    /\ pc' = "calling"
    /\ UNCHANGED <<input, sent, closing, reader, state, plugin, request, handled, guest, calls,
                   bridgeVars, exit, traceVars>>

BridgeWriteFails ==
    /\ pc = "writing"
    /\ outBroken
    /\ poison' = TRUE
    /\ callback' = NoCallback
    /\ pc' = "guest"
    /\ UNCHANGED <<input, reader, calls, nextId, consumed, asked, issued, bridgeUnchanged>>

BridgeLockReader ==
    /\ pc = "calling"
    /\ reader = "free"
    /\ reader' = "bridge"
    /\ pc' = "awaiting"
    /\ UNCHANGED <<input, calls, bridgeVars, traceVars, bridgeUnchanged>>

\* Which answers invoke and handle_call take.
Answers(frame, call) ==
    /\ frame.id = call.id
    /\ frame.body \in (IF call.body = "BridgeInvoke" THEN BridgeReplies
                                                     ELSE BridgeReplies \ {"CallbackResult"})

\* Slip: a frame that is not the answer is dropped and the next one awaited.
BridgeReceiveSkipsOthers ==
    /\ pc = "awaiting"
    /\ input # <<>>
    /\ input' = Tail(input)
    /\ consumed' = consumed + 1
    /\ IF Answers(Head(input), callback)
       THEN callback' = NoCallback /\ reader' = "free" /\ pc' = "guest"
       ELSE UNCHANGED <<callback, reader, pc>>
    /\ UNCHANGED <<poison, calls, nextId, asked, issued, bridgeUnchanged>>

\* The next frame is the answer, whatever it is: anything but a matching one
\* has been taken from the input all the same, and poisons the server.
BridgeReceive ==
    /\ pc = "awaiting"
    /\ input # <<>>
    /\ input' = Tail(input)
    /\ consumed' = consumed + 1
    /\ poison' = (poison \/ ~ Answers(Head(input), callback))
    /\ callback' = NoCallback
    /\ ReleaseReader
    /\ pc' = "guest"
    /\ UNCHANGED <<calls, nextId, asked, issued, bridgeUnchanged>>

\* Slip: the end of the input is taken for an answer still to come.
BridgeEofWaits ==
    /\ pc = "awaiting"
    /\ input = <<>>
    /\ inClosed
    /\ UNCHANGED <<input, pc, reader, callback, poison, calls, nextId, consumed, asked, issued, bridgeUnchanged>>

BridgeEof ==
    /\ pc = "awaiting"
    /\ input = <<>>
    /\ inClosed
    /\ poison' = TRUE
    /\ callback' = NoCallback
    /\ ReleaseReader
    /\ pc' = "guest"
    /\ UNCHANGED <<input, calls, nextId, consumed, asked, issued, bridgeUnchanged>>

-----------------------------------------------------------------------------
Parent ==
    \/ \E frame \in ParentFrames : ParentWrite(frame)
    \/ ParentCloseInput \/ ParentCloseOutput \/ ParentRead

Serve ==
    \/ LockReader \/ ReadUnusable \/ ReadCommand \/ Handle
    \/ FinishPoisoned \/ FinishFailed \/ FinishReply
    \/ ReadEof \/ Cleanup

\* What the running lifecycle function decides.
Guest ==
    \/ GuestReturn
    \/ \E body \in BridgeRequests : BridgeCall(body) \/ BridgeCallFails(body)

\* The rest of a Bridge call.
Bridge == BridgeWrite \/ BridgeWriteFails \/ BridgeLockReader \/ BridgeReceive \/ BridgeEof

Next == Parent \/ Serve \/ Guest \/ Bridge

Spec == Init /\ [][Next]_vars

\* The operating system runs the Host's thread.  Nothing makes a lifecycle
\* function return or the driving process write, read or close.
FairSpec == Spec /\ WF_vars(Serve \/ Bridge)

-----------------------------------------------------------------------------
(* Properties *)

Frames == [id : Nat, body : Bodies \cup {"Malformed"}]

TypeOK ==
    /\ input \in Seq(Frames)
    /\ sent \in Nat
    /\ inClosed \in BOOLEAN
    /\ outBroken \in BOOLEAN
    /\ outFull \in BOOLEAN
    /\ pc \in {"loop", "reading", "handling", "guest", "writing", "calling", "awaiting",
               "finishing", "cleanup", "exited"}
    /\ reader \in {"free", "serve", "bridge"}
    /\ state \in LifecycleState
    /\ plugin \in BOOLEAN
    /\ request \in Frames \cup {NoRequest}
    /\ handled \in {"none", "ok", "error", "unwritable", "fatal"}
    /\ guest \in GuestFunctions \cup {"idle"}
    /\ calls \in Nat
    /\ callback \in [id : Nat, body : BridgeRequests] \cup {NoCallback}
    /\ nextId \in 0..2 * MaxId + 1
    /\ poison \in BOOLEAN
    /\ exit \in {"running", "ok", "misread", "poisoned", "fatal", "unwritable", "io"}
    /\ consumed \in Nat /\ accepted \in Nat /\ replied \in Nat /\ asked \in Nat
    /\ issued \in Seq(Nat)

\* The server's lifecycle and the engine agree across every failure: no payload
\* exists before a load succeeded, an Enabled server has one, and what shutdown
\* or close_on_eof took out is never seen again (guest_engine.rs unload takes
\* the payload before running it, so Loaded and Disabled may be left empty).
EngineMatchesState ==
    /\ state \in {"AwaitHello", "AwaitLoad", "Closed"} => ~ plugin
    /\ state = "Enabled" /\ guest # "unload" => plugin
    /\ guest = "load" => state = "AwaitLoad" /\ ~ plugin
    /\ guest = "enable" => state = "Loaded" /\ plugin
    /\ guest \in {"invoke", "disable"} => state = "Enabled" /\ plugin
    /\ guest = "unload" =>
          /\ ~ plugin
          /\ state \in {"Loaded", "Disabled"} \/ (state = "Enabled" /\ request = NoRequest)

\* The command each lifecycle function is run for.
Asking ==
    [load |-> "Load", enable |-> "Enable", invoke |-> "Invoke", disable |-> "Disable",
     unload |-> "Shutdown"]

\* One thread plays the serve loop, the handler, the guest and the Bridge.  The
\* reader lock is free whenever the guest runs or is about to ask for it, so the
\* thread never waits for a lock it holds; a callback is outstanding only while
\* the guest that made it is suspended; a lifecycle function is the one its
\* command asks for, or one of close_on_eof's; and a poisoned server is never back in its loop.
ThreadDiscipline ==
    /\ reader = CASE pc = "reading"  -> "serve"
                  [] pc = "awaiting" -> "bridge"
                  [] OTHER           -> "free"
    /\ guest # "idle" <=> pc \in {"guest", "writing", "calling", "awaiting"}
    /\ callback # NoCallback <=> pc \in {"writing", "calling", "awaiting"}
    /\ handled # "none" <=> pc = "finishing"
    /\ exit # "running" <=> pc = "exited"
    /\ pc \in {"handling", "finishing"} => request # NoRequest
    /\ pc \in {"loop", "reading", "cleanup", "exited"} => request = NoRequest
    /\ guest # "idle" /\ request = NoRequest => guest \in {"disable", "unload"} /\ inClosed
    /\ guest # "idle" /\ request # NoRequest => request.body = Asking[guest]
    /\ pc = "cleanup" => inClosed
    /\ poison => pc \notin {"loop", "reading", "handling"}

\* serve returns Ok only after everything was released: Closed, no payload left
\* in the engine and no lifecycle function or callback in progress.
CleanExitReleases ==
    exit = "ok" => state = "Closed" /\ ~ plugin /\ guest = "idle" /\ callback = NoCallback

\* Within one Bridge no callback identifier is used twice, nor one outside the
\* even positive signed-64 range, unless the server is already poisoned: the
\* u64 counter wraps, but exhaustion poisons before it does.
CallbackIdsFresh ==
    ~ poison =>
        /\ \A i \in 1..Len(issued) : issued[i] \in 1..MaxId /\ issued[i] % 2 = 0
        /\ \A i, j \in 1..Len(issued) : i < j => issued[i] < issued[j]

\* While the server is neither poisoned nor gone, every frame taken from the
\* input is accounted for: it was a command, answered or still in hand, or the
\* answer of a callback.  So no command is swallowed by a waiting callback and
\* no callback answer is dropped without the server being poisoned.
Outstanding(x) == IF x = NoRequest THEN 0 ELSE 1
FramesAccounted ==
    exit = "running" /\ ~ poison =>
        /\ consumed + Outstanding(callback) = accepted + asked
        /\ accepted = replied + Outstanding(request)

\* Once the server is poisoned it never takes or answers a command again, never
\* becomes healthy, and ends cleanly only when its input had ended: what it
\* reads from a stream that lost synchronisation is never believed.
PoisonSilences ==
    [][poison => /\ poison'
                 /\ accepted' = accepted
                 /\ replied' = replied
                 /\ exit' = "ok" => inClosed]_vars

\* The three things that can hold the thread for ever, none of them the Host's
\* own doing: a lifecycle function that does not return, as one that absorbs its
\* interrupts in the arguments of Bridge calls need not (bridge.rs:287); a
\* driving process that keeps the output open and full without reading it
\* (server.rs:96 and :272); and one that neither answers a callback nor closes
\* the input (server.rs:282).
GuestRuns == pc = "guest"
OutputUnread ==
    /\ pc = "writing" \/ (pc = "finishing" /\ ~ poison /\ handled \in {"ok", "error"})
    /\ outFull /\ ~ outBroken
CallbackUnanswered == pc = "awaiting" /\ input = <<>> /\ ~ inClosed

\* A command that was poisoned while it ran ends the process with an error, even
\* if its guest goes on and makes further Bridge calls, unless its guest never
\* returns or one of those calls is never let through or answered.
PoisonEnds ==
    (poison /\ request # NoRequest)
        ~> exit = "poisoned" \/ []GuestRuns \/ []OutputUnread \/ []CallbackUnanswered

\* Closing the Host's input ends it, in whatever command, callback or clean-up
\* it was, unless a lifecycle function never returns or a write is never let through.
ClosedInputEnds == inClosed ~> exit # "running" \/ []GuestRuns \/ []OutputUnread

\* Every command taken is answered or ends the process, unless its lifecycle
\* function never returns, or the driving process never reads the output, or
\* never answers one of its callbacks.
CommandsAnswered ==
    pc = "handling"
        ~> pc \in {"loop", "exited"} \/ []GuestRuns \/ []OutputUnread \/ []CallbackUnanswered

\* error.rs says a HostError carries a "bounded diagnostic" and its message is
\* cut to 4096 bytes, the bound Message::new puts on an Error's message: a
\* failure that is not fatal can always be written as a response.
DiagnosticFits == exit # "unwritable"

\* The two abstract specifications.
Lifecycle == INSTANCE HostProtocol WITH
    lifecycle <- state,
    command   <- request.body,
    verdict   <- CASE handled = "none"  -> "None"
                   [] handled = "ok"    -> "done"
                   [] handled = "error" -> "refused"
                   [] OTHER             -> "broken",
    ended     <- exit # "running"

\* Every behaviour of the Host is one HostProtocol allows.
ImplementsHostProtocol == Lifecycle!Spec

Contract == INSTANCE GuestContract WITH
    phase   <- IF plugin
               THEN CASE state = "Loaded"   -> "loaded"
                      [] state = "Disabled" -> "retired"
                      [] OTHER              -> IF pc = "cleanup" THEN "retired" ELSE "enabled"
               ELSE IF state \in {"AwaitHello", "AwaitLoad"} THEN "absent" ELSE "released",
    running <- guest

\* The payload's functions are only called as GuestContract allows.
ImplementsGuestContract == Contract!Spec
=============================================================================
