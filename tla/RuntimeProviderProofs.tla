------------------------ MODULE RuntimeProviderProofs ------------------------
(***************************************************************************)
(* Proofs that no payload process has two commands at a time and that none *)
(* is out of the launcher's reach, for any number of launcher threads, of  *)
(* payloads and of Providers.                                              *)
(***************************************************************************)
EXTENDS RuntimeProvider, TLAPS

Inside(t) == at[t] \in {"inside", "closing"}

\* A thread inside a session holds the monitor of the Provider it called.
MonitorHeld == \A t \in Threads : Inside(t) => monitor[call[t].provider] = t

\* A payload belongs to the one Provider that started it: only that Provider's map has
\* it, and only threads that called that Provider are inside its session.
Owned ==
    /\ \A g \in Providers, p \in Payloads :
          p \in sessions[g] => owner[p] = g /\ process[p] # "none"
    /\ \A t \in Threads :
          Inside(t) => owner[payload[t]] = call[t].provider /\ process[payload[t]] # "none"

\* The identifier a load has drawn is nobody else's.
LoadsDistinct ==
    /\ \A t \in Threads :
          at[t] = "waiting" /\ call[t].op = "load" => process[payload[t]] = "none"
    /\ \A t, u \in Threads :
          call[t].op = "load" /\ call[u].op = "load" /\ payload[t] = payload[u] => t = u

IInv == TypeOK /\ MonitorHeld /\ Owned /\ LoadsDistinct

-----------------------------------------------------------------------------

\* The initial state: no session, no process, no call.
LEMMA InitIInv == Init => IInv /\ NoOrphanProcess
<1> SUFFICES ASSUME Init
             PROVE  IInv /\ NoOrphanProcess
  OBVIOUS
<1> USE DEF Init
<1>1. TypeOK
  BY ProviderAssumption DEF TypeOK, NoCall, Providers
<1>2. MonitorHeld
  BY DEF MonitorHeld, Inside
<1>3. Owned
  BY DEF Owned, Inside
<1>4. LoadsDistinct
  BY DEF LoadsDistinct, NoCall
<1>5. NoOrphanProcess
  BY DEF NoOrphanProcess, Alive
<1> QED
  BY <1>1, <1>2, <1>3, <1>4, <1>5 DEF IInv

\* What the records and functions of a call look like.
LEMMA CallTyped ==
    ASSUME TypeOK, NEW t \in Threads, at[t] # "idle"
    PROVE  /\ call[t].provider \in Providers
           /\ call[t].provider \in 0..MaxLoads
           /\ call[t].op \in Operations \cup {"none"}
           /\ payload[t] \in Payloads
  BY DEF TypeOK, Providers

\* The monitor of a Provider a thread may enter is held by nobody inside a session.
LEMMA FreeMonitor ==
    ASSUME IInv, NEW t \in Threads, NEW u \in Threads, MonitorFree(t), Inside(u)
    PROVE  call[u].provider # call[t].provider
  BY ProviderAssumption DEF IInv, MonitorHeld, MonitorFree

\* Two threads inside sessions of one Provider are one.
LEMMA OneInside ==
    ASSUME IInv, NEW t \in Threads, NEW u \in Threads, Inside(t), Inside(u),
           call[u].provider = call[t].provider
    PROVE  t = u
  BY DEF IInv, MonitorHeld
-----------------------------------------------------------------------------
(* Type correctness *)

\* What entering and leaving a Provider do to the types of the variables they assign.
LEMMA EnterTyped ==
    ASSUME TypeOK, NEW t \in Threads, Enter(t)
    PROVE  /\ at' \in [Threads -> {"idle", "waiting", "inside", "closing"}]
           /\ monitor' \in [Providers -> Threads \cup {NoThread}]
           /\ \A u \in Threads : at'[u] # "idle" => call'[u].provider \in Providers
           /\ UNCHANGED <<pluginVars, call, payload, closed>>
  BY DEF TypeOK, Enter, Providers

LEMMA ReleaseTyped ==
    ASSUME TypeOK, NEW t \in Threads, Release(t)
    PROVE  /\ at' \in [Threads -> {"idle", "waiting", "inside", "closing"}]
           /\ call' \in [Threads -> [op : Operations \cup {"none"}, provider : 0..MaxLoads]]
           /\ monitor' \in [Providers -> Threads \cup {NoThread}]
           /\ \A u \in Threads : at'[u] # "idle" => call'[u].provider \in Providers
           /\ UNCHANGED <<pluginVars, payload>>
<1>1. NoCall \in [op : Operations \cup {"none"}, provider : 0..MaxLoads]
  BY ProviderAssumption DEF NoCall
<1> QED
  BY <1>1 DEF TypeOK, Release, Providers

\* Every step keeps every variable in its set.
LEMMA TypeStep == TypeOK /\ [Next]_vars => TypeOK'
<1> SUFFICES ASSUME TypeOK, [Next]_vars
             PROVE  TypeOK'
  OBVIOUS
<1> USE ProviderAssumption
<1>1. CASE OnLoad
  BY <1>1 DEF TypeOK, OnLoad, Providers
<1>2. ASSUME NEW t \in Threads, OnUnload(t)
      PROVE  TypeOK'
  <2>1. [op |-> "close", provider |-> registration]
           \in [op : Operations \cup {"none"}, provider : 0..MaxLoads]
    BY DEF TypeOK, Operations
  <2> QED
    BY <1>2, <2>1 DEF TypeOK, OnUnload, Providers
<1>3. ASSUME NEW t \in Threads, CloseFails(t)
      PROVE  TypeOK'
  <2>1. NoCall \in [op : Operations \cup {"none"}, provider : 0..MaxLoads]
    BY DEF NoCall
  <2> QED
    BY <1>3, <2>1 DEF TypeOK, CloseFails, pluginVars
<1>4. ASSUME NEW t \in Threads, Proceed(t)
      PROVE  TypeOK'
  <2>1. CASE UnknownHandle(t)
    BY <2>1, ReleaseTyped DEF TypeOK, UnknownHandle, pluginVars
  <2>2. CASE LoadPayload(t)
    BY <2>2, EnterTyped DEF TypeOK, LoadPayload, Enter, pluginVars
  <2>3. CASE LoadFails(t)
    BY <2>3, ReleaseTyped DEF TypeOK, LoadFails, pluginVars
  <2>4. CASE LoadReturns(t)
    BY <2>4, ReleaseTyped DEF TypeOK, LoadReturns, pluginVars
  <2>5. CASE SessionCall(t)
    BY <2>5, EnterTyped DEF TypeOK, SessionCall, pluginVars
  <2>6. CASE SessionReturns(t)
    BY <2>6, ReleaseTyped DEF TypeOK, SessionReturns, pluginVars
  <2>7. CASE UnloadPayload(t)
    BY <2>7, EnterTyped DEF TypeOK, UnloadPayload, pluginVars
  <2>8. CASE ShutdownReturns(t)
    BY <2>8, ReleaseTyped DEF TypeOK, ShutdownReturns, pluginVars
  <2>9. CASE ShutdownFails(t)
    BY <2>9 DEF TypeOK, ShutdownFails, pluginVars
  <2>10. CASE SessionCloses(t)
    BY <2>10, ReleaseTyped DEF TypeOK, SessionCloses, pluginVars
  <2>11. CASE Close(t)
    <3>1. call[t].provider \in Providers
      BY <2>11 DEF TypeOK, Close
    <3>2. /\ process' \in [Payloads -> {"none", "starting", "running", "ended"}]
          /\ sessions' \in [Providers -> SUBSET Payloads]
          /\ closed' \subseteq Providers
      BY <2>11, <3>1 DEF TypeOK, Close
    <3> QED
      BY <2>11, <3>2, ReleaseTyped DEF TypeOK, Close, pluginVars
  <2> QED
    BY <1>4, <2>1, <2>2, <2>3, <2>4, <2>5, <2>6, <2>7, <2>8, <2>9, <2>10, <2>11 DEF Proceed
<1>5. ASSUME NEW t \in Threads, NEW op \in Operations, NEW p \in Payloads, Call(t, op, p)
      PROVE  TypeOK'
  <2>1. [op |-> op, provider |-> registration]
           \in [op : Operations \cup {"none"}, provider : 0..MaxLoads]
    BY DEF TypeOK
  <2> QED
    BY <1>5, <2>1 DEF TypeOK, Call, pluginVars, Providers
<1>6. ASSUME NEW p \in Payloads, ProcessEnds(p)
      PROVE  TypeOK'
  BY <1>6 DEF TypeOK, ProcessEnds, pluginVars
<1>7. CASE UNCHANGED vars
  BY <1>7 DEF TypeOK, vars
<1> QED
  BY <1>1, <1>2, <1>3, <1>4, <1>5, <1>6, <1>7 DEF Next

-----------------------------------------------------------------------------
(* The monitor *)

\* Entering: the Provider's monitor was free, so nobody else in it loses it.
LEMMA EnterHolds ==
    ASSUME IInv, NEW t \in Threads, Enter(t)
    PROVE  MonitorHeld'
<1> SUFFICES ASSUME NEW u \in Threads, Inside(u)'
             PROVE  (monitor[call[u].provider] = u)'
  BY DEF MonitorHeld
<1>1. at[t] # "idle" /\ call' = call /\ call[t].provider \in Providers
  BY CallTyped DEF IInv, Enter
<1>2. CASE u = t
  BY <1>1, <1>2 DEF IInv, TypeOK, Enter
<1>3. CASE u # t
  <2>1. Inside(u)
    BY <1>3 DEF IInv, TypeOK, Enter, Inside
  <2> QED
    BY <1>1, <1>3, <2>1, FreeMonitor DEF IInv, TypeOK, MonitorHeld, Enter
<1> QED
  BY <1>2, <1>3

\* Leaving: a thread gives up a monitor nobody else holds, because it held it itself or
\* because it was free.
LEMMA ReleaseHolds ==
    ASSUME IInv, NEW t \in Threads, Release(t),
           Inside(t) \/ (at[t] = "waiting" /\ MonitorFree(t))
    PROVE  MonitorHeld'
<1> SUFFICES ASSUME NEW u \in Threads, Inside(u)'
             PROVE  (monitor[call[u].provider] = u)'
  BY DEF MonitorHeld
<1>1. u # t /\ Inside(u) /\ call'[u] = call[u]
  BY DEF IInv, TypeOK, Release, Inside
<1>2. call[u].provider # call[t].provider
  BY <1>1, FreeMonitor, OneInside
<1>3. call[t].provider \in Providers /\ call[u].provider \in Providers
  BY <1>1, CallTyped DEF IInv, Inside
<1> QED
  BY <1>1, <1>2, <1>3 DEF IInv, TypeOK, MonitorHeld, Release

\* Every step leaves each monitor with the thread that is inside.
LEMMA MonitorStep == IInv /\ [Next]_vars => MonitorHeld'
<1> SUFFICES ASSUME IInv, [Next]_vars
             PROVE  MonitorHeld'
  OBVIOUS
<1>1. CASE OnLoad
  BY <1>1 DEF IInv, MonitorHeld, Inside, OnLoad
<1>2. ASSUME NEW t \in Threads, OnUnload(t)
      PROVE  MonitorHeld'
  BY <1>2 DEF IInv, TypeOK, MonitorHeld, Inside, OnUnload
<1>3. ASSUME NEW t \in Threads, CloseFails(t)
      PROVE  MonitorHeld'
  BY <1>3 DEF IInv, TypeOK, MonitorHeld, Inside, CloseFails
<1>4. ASSUME NEW t \in Threads, Proceed(t)
      PROVE  MonitorHeld'
  <2>1. CASE Enter(t)
    BY <2>1, EnterHolds
  <2>2. CASE Release(t) /\ (Inside(t) \/ (at[t] = "waiting" /\ MonitorFree(t)))
    BY <2>2, ReleaseHolds
  <2>3. CASE ShutdownFails(t)
    BY <2>3 DEF IInv, TypeOK, MonitorHeld, Inside, ShutdownFails
  <2> QED
    BY <1>4, <2>1, <2>2, <2>3
    DEF Proceed, UnknownHandle, LoadPayload, LoadFails, LoadReturns, SessionCall, SessionReturns,
        UnloadPayload, ShutdownReturns, SessionCloses, Close, Inside
<1>5. ASSUME NEW t \in Threads, NEW op \in Operations, NEW p \in Payloads, Call(t, op, p)
      PROVE  MonitorHeld'
  BY <1>5 DEF IInv, TypeOK, MonitorHeld, Inside, Call
<1>6. ASSUME NEW p \in Payloads, ProcessEnds(p)
      PROVE  MonitorHeld'
  BY <1>6 DEF IInv, MonitorHeld, Inside, ProcessEnds
<1>7. CASE UNCHANGED vars
  BY <1>7 DEF IInv, MonitorHeld, Inside, vars
<1> QED
  BY <1>1, <1>2, <1>3, <1>4, <1>5, <1>6, <1>7 DEF Next

-----------------------------------------------------------------------------
(* Who owns a payload *)

\* Only a thread's own step takes it inside, and it stays on the same call there.
LEMMA InsideBefore ==
    ASSUME IInv, NEW t \in Threads, NEW u \in Threads, Inside(u)', u # t,
           Enter(t) \/ Release(t) \/ ShutdownFails(t)
    PROVE  Inside(u) /\ call'[u] = call[u] /\ payload'[u] = payload[u]
  BY DEF IInv, TypeOK, Enter, Release, ShutdownFails, Inside, pluginVars

\* Every step keeps each payload with the Provider that started it.
LEMMA OwnedStep == IInv /\ [Next]_vars => Owned'
<1> SUFFICES ASSUME IInv, [Next]_vars
             PROVE  Owned'
  OBVIOUS
<1>1. CASE OnLoad
  BY <1>1 DEF IInv, Owned, Inside, OnLoad
<1>2. ASSUME NEW t \in Threads, OnUnload(t)
      PROVE  Owned'
  BY <1>2 DEF IInv, TypeOK, Owned, Inside, OnUnload
<1>3. ASSUME NEW t \in Threads, CloseFails(t)
      PROVE  Owned'
  BY <1>3 DEF IInv, TypeOK, Owned, Inside, CloseFails, pluginVars
<1>4. ASSUME NEW t \in Threads, Proceed(t)
      PROVE  Owned'
  <2>1. CASE UnknownHandle(t)
    BY <2>1, InsideBefore DEF IInv, TypeOK, Owned, Inside, UnknownHandle, Release
  <2>2. CASE LoadPayload(t)
    <3>1. process[payload[t]] = "none" /\ payload[t] \in Payloads /\ call[t].provider \in 0..MaxLoads
      BY <2>2, CallTyped DEF IInv, LoadsDistinct, LoadPayload, Enter
    <3>2. ASSUME NEW g \in Providers, NEW p \in Payloads, p \in sessions'[g]
          PROVE  owner'[p] = g /\ process'[p] # "none"
      BY <2>2, <3>1, <3>2 DEF IInv, TypeOK, Owned, LoadPayload
    <3>3. ASSUME NEW u \in Threads, Inside(u)', u # t
          PROVE  owner'[payload'[u]] = call'[u].provider /\ process'[payload'[u]] # "none"
      BY <2>2, <3>1, <3>3, InsideBefore DEF IInv, TypeOK, Owned, LoadPayload
    <3>4. owner'[payload'[t]] = call'[t].provider /\ process'[payload'[t]] # "none"
      BY <2>2, <3>1 DEF IInv, TypeOK, LoadPayload, Enter
    <3> QED
      BY <3>2, <3>3, <3>4 DEF Owned
  <2>3. CASE LoadFails(t)
    BY <2>3, InsideBefore DEF IInv, TypeOK, Owned, Inside, LoadFails, Release
  <2>4. CASE LoadReturns(t)
    <3>1. /\ owner[payload[t]] = call[t].provider /\ payload[t] \in Payloads
          /\ call[t].provider \in Providers
      BY <2>4, CallTyped DEF IInv, Owned, Inside, LoadReturns
    <3> QED
      BY <2>4, <3>1, InsideBefore DEF IInv, TypeOK, Owned, Inside, LoadReturns, Release
  <2>5. CASE SessionCall(t)
    BY <2>5, CallTyped, InsideBefore DEF IInv, TypeOK, Owned, Inside, SessionCall, Enter, Known
  <2>6. CASE SessionReturns(t)
    BY <2>6, InsideBefore DEF IInv, TypeOK, Owned, Inside, SessionReturns, Release
  <2>7. CASE UnloadPayload(t)
    <3>1. /\ owner[payload[t]] = call[t].provider /\ process[payload[t]] # "none"
          /\ call[t].provider \in Providers
      BY <2>7, CallTyped DEF IInv, Owned, UnloadPayload, Enter, Known
    <3> QED
      BY <2>7, <3>1, InsideBefore DEF IInv, TypeOK, Owned, UnloadPayload, Enter
  <2>8. CASE ShutdownReturns(t)
    BY <2>8, InsideBefore DEF IInv, TypeOK, Owned, Inside, ShutdownReturns, Release
  <2>9. CASE ShutdownFails(t)
    BY <2>9 DEF IInv, TypeOK, Owned, Inside, ShutdownFails
  <2>10. CASE SessionCloses(t)
    BY <2>10, InsideBefore DEF IInv, TypeOK, Owned, Inside, SessionCloses, Release
  <2>11. CASE Close(t)
    <3>1. \A p \in Payloads : process[p] # "none" => process'[p] # "none"
      BY <2>11 DEF Close
    <3>2. \A g \in Providers : sessions'[g] \subseteq sessions[g]
      BY <2>11 DEF IInv, TypeOK, Close
    <3> QED
      BY <2>11, <3>1, <3>2, InsideBefore DEF IInv, TypeOK, Owned, Inside, Close, Release
  <2> QED
    BY <1>4, <2>1, <2>2, <2>3, <2>4, <2>5, <2>6, <2>7, <2>8, <2>9, <2>10, <2>11 DEF Proceed
<1>5. ASSUME NEW t \in Threads, NEW op \in Operations, NEW p \in Payloads, Call(t, op, p)
      PROVE  Owned'
  BY <1>5 DEF IInv, TypeOK, Owned, Inside, Call
<1>6. ASSUME NEW p \in Payloads, ProcessEnds(p)
      PROVE  Owned'
  BY <1>6 DEF IInv, TypeOK, Owned, Inside, ProcessEnds
<1>7. CASE UNCHANGED vars
  BY <1>7 DEF IInv, Owned, Inside, vars
<1> QED
  BY <1>1, <1>2, <1>3, <1>4, <1>5, <1>6, <1>7 DEF Next

-----------------------------------------------------------------------------
(* The identifier of a load *)

\* A step of one call starts or ends a process only of a payload no other load has drawn.
LEMMA DrawnUntouched ==
    ASSUME IInv, NEW t \in Threads, Proceed(t),
           NEW u \in Threads, u # t, at[u] = "waiting", call[u].op = "load"
    PROVE  process'[payload[u]] = "none"
<1>1. process[payload[u]] = "none" /\ payload[u] \in Payloads
  BY DEF IInv, TypeOK, LoadsDistinct
<1>2. CASE process' = process
  BY <1>1, <1>2
<1>3. CASE Inside(t) /\ \E s \in {"running", "ended"} : process' = [process EXCEPT ![payload[t]] = s]
  <2>1. payload[t] # payload[u]
    BY <1>1, <1>3 DEF IInv, Owned
  <2> QED
    BY <1>1, <1>3, <2>1 DEF IInv, TypeOK
<1>4. CASE LoadPayload(t)
  <2>1. payload[t] # payload[u]
    BY <1>4 DEF IInv, LoadsDistinct, LoadPayload
  <2> QED
    BY <1>1, <1>4, <2>1 DEF IInv, TypeOK, LoadPayload
<1>5. CASE Close(t)
  <2>1. call[t].provider \in Providers
    BY <1>5, CallTyped DEF IInv, Close
  <2>2. payload[u] \notin sessions[call[t].provider]
    BY <1>1, <2>1 DEF IInv, Owned
  <2> QED
    BY <1>1, <1>5, <2>2 DEF Close
<1> QED
  BY <1>2, <1>3, <1>4, <1>5
  DEF Proceed, UnknownHandle, LoadFails, LoadReturns, SessionCall, SessionReturns, UnloadPayload,
      ShutdownReturns, ShutdownFails, SessionCloses, Inside

\* A step of one call leaves the calls and places of the others as they are, and is not
\* itself the beginning of a load.
LEMMA OthersStay ==
    ASSUME IInv, NEW t \in Threads, Proceed(t)
    PROVE  /\ payload' = payload
           /\ call'[t] \in {call[t], NoCall} /\ at'[t] # "waiting"
           /\ \A u \in Threads : u # t => at'[u] = at[u] /\ call'[u] = call[u]
<1>1. CASE Enter(t)
  BY <1>1 DEF IInv, TypeOK, Enter
<1>2. CASE Release(t)
  BY <1>2 DEF IInv, TypeOK, Release
<1>3. CASE ShutdownFails(t)
  BY <1>3 DEF IInv, TypeOK, ShutdownFails
<1> QED
  BY <1>1, <1>2, <1>3
  DEF Proceed, UnknownHandle, LoadPayload, LoadFails, LoadReturns, SessionCall, SessionReturns,
      UnloadPayload, ShutdownReturns, SessionCloses, Close

\* Every step keeps the identifiers of loads distinct and, while the load waits, unused.
LEMMA LoadsStep == IInv /\ [Next]_vars => LoadsDistinct'
<1> SUFFICES ASSUME IInv, [Next]_vars
             PROVE  LoadsDistinct'
  OBVIOUS
<1>1. CASE OnLoad
  BY <1>1 DEF IInv, LoadsDistinct, OnLoad
<1>2. ASSUME NEW t \in Threads, OnUnload(t)
      PROVE  LoadsDistinct'
  BY <1>2 DEF IInv, TypeOK, LoadsDistinct, OnUnload
<1>3. ASSUME NEW t \in Threads, CloseFails(t)
      PROVE  LoadsDistinct'
  BY <1>3 DEF IInv, TypeOK, LoadsDistinct, CloseFails, NoCall
<1>4. ASSUME NEW t \in Threads, Proceed(t)
      PROVE  LoadsDistinct'
  <2>1. ASSUME NEW u \in Threads, at'[u] = "waiting", call'[u].op = "load"
        PROVE  process'[payload'[u]] = "none"
    BY <1>4, <2>1, OthersStay, DrawnUntouched
  <2>2. \A u \in Threads : call'[u].op = "load" => call[u].op = "load"
    BY <1>4, OthersStay DEF NoCall
  <2> QED
    BY <1>4, <2>1, <2>2, OthersStay DEF IInv, LoadsDistinct
<1>5. ASSUME NEW t \in Threads, NEW op \in Operations, NEW p \in Payloads, Call(t, op, p)
      PROVE  LoadsDistinct'
  BY <1>5 DEF IInv, TypeOK, LoadsDistinct, Call
<1>6. ASSUME NEW p \in Payloads, ProcessEnds(p)
      PROVE  LoadsDistinct'
  BY <1>6 DEF IInv, TypeOK, LoadsDistinct, ProcessEnds
<1>7. CASE UNCHANGED vars
  BY <1>7 DEF IInv, LoadsDistinct, vars
<1> QED
  BY <1>1, <1>2, <1>3, <1>4, <1>5, <1>6, <1>7 DEF Next

\* The invariant is inductive.
LEMMA StepIInv == IInv /\ [Next]_vars => IInv'
  BY TypeStep, MonitorStep, OwnedStep, LoadsStep DEF IInv

-----------------------------------------------------------------------------
(* Reachable processes *)

\* Who can still reach the process of a payload.
Loader(t, p) == Inside(t) /\ call[t].op \in {"load", "unload"} /\ payload[t] = p
Reachable(p) == p \in sessions[owner[p]] \/ \E t \in Threads : Loader(t, p)

\* A step of one call leaves every process that is alive within reach.
LEMMA ProceedKeepsReach ==
    ASSUME IInv, NEW t \in Threads, Proceed(t), NEW p \in Payloads,
           Alive(p) => Reachable(p), Alive(p)'
    PROVE  Reachable(p)'
<1>1. \A u \in Threads : u # t /\ Loader(u, p) => Loader(u, p)'
  BY OthersStay DEF Loader, Inside
<1>2. at[t] # "idle" /\ call[t].provider \in Providers /\ payload[t] \in Payloads
  <2>1. at[t] # "idle"
    BY DEF Proceed, UnknownHandle, LoadPayload, LoadFails, LoadReturns, SessionCall, SessionReturns,
           UnloadPayload, ShutdownReturns, ShutdownFails, SessionCloses, Close, Enter
  <2> QED
    BY <2>1, CallTyped DEF IInv
<1>3. CASE UnknownHandle(t) \/ SessionReturns(t)
  BY <1>1, <1>3 DEF Reachable, Alive, Loader, Inside, UnknownHandle, SessionReturns, SessionCalls
<1>4. CASE SessionCall(t)
  BY <1>1, <1>4 DEF Reachable, Alive, Loader, Inside, SessionCall, Enter
<1>5. CASE LoadPayload(t)
  <2>1. CASE payload[t] = p
    BY <1>5, <2>1 DEF IInv, TypeOK, Reachable, Loader, Inside, LoadPayload, Enter
  <2>2. CASE payload[t] # p
    BY <1>1, <1>5, <2>2 DEF IInv, TypeOK, Reachable, Alive, Loader, Inside, LoadPayload, Enter
  <2> QED
    BY <2>1, <2>2
<1>6. CASE LoadFails(t) \/ ShutdownReturns(t) \/ SessionCloses(t)
  <2>1. payload[t] # p /\ process'[p] = process[p]
    BY <1>2, <1>6 DEF IInv, TypeOK, Alive, LoadFails, ShutdownReturns, SessionCloses
  <2> QED
    BY <1>1, <1>6, <2>1
    DEF Reachable, Alive, Loader, LoadFails, ShutdownReturns, SessionCloses
<1>7. CASE LoadReturns(t)
  <2>1. CASE payload[t] = p
    BY <1>2, <1>7, <2>1 DEF IInv, TypeOK, Owned, Reachable, Inside, LoadReturns
  <2>2. CASE payload[t] # p
    <3>1. process'[p] = process[p] /\ owner' = owner
      BY <1>7, <2>2 DEF IInv, TypeOK, LoadReturns
    <3>2. \A g : p \in sessions[g] => p \in sessions'[g]
      BY <1>2, <1>7 DEF IInv, TypeOK, LoadReturns
    <3> QED
      BY <1>1, <2>2, <3>1, <3>2 DEF Reachable, Alive, Loader
  <2> QED
    BY <2>1, <2>2
<1>8. CASE UnloadPayload(t)
  <2>1. CASE payload[t] = p
    BY <1>8, <2>1 DEF IInv, TypeOK, Reachable, Loader, Inside, UnloadPayload, Enter
  <2>2. CASE payload[t] # p
    <3>1. process' = process /\ owner' = owner
      BY <1>8 DEF UnloadPayload
    <3>2. \A g : p \in sessions[g] => p \in sessions'[g]
      BY <1>2, <1>8, <2>2 DEF IInv, TypeOK, UnloadPayload
    <3> QED
      BY <1>1, <2>2, <3>1, <3>2 DEF Reachable, Alive, Loader
  <2> QED
    BY <2>1, <2>2
<1>9. CASE ShutdownFails(t)
  <2>1. Loader(t, p) => Loader(t, p)'
    BY <1>9 DEF IInv, TypeOK, Loader, Inside, ShutdownFails
  <2> QED
    BY <1>1, <1>9, <2>1 DEF Reachable, Alive, ShutdownFails
<1>10. CASE Close(t)
  <2>1. p \notin sessions[call[t].provider] /\ process'[p] = process[p] /\ owner' = owner
    BY <1>10 DEF Alive, Close
  <2>2. \A g : p \in sessions[g] => p \in sessions'[g]
    BY <1>2, <1>10, <2>1 DEF IInv, TypeOK, Close
  <2>3. ~ Loader(t, p)
    BY <1>10 DEF Loader, Inside, Close
  <2> QED
    BY <1>1, <2>1, <2>2, <2>3 DEF Reachable, Alive
<1> QED
  BY <1>3, <1>4, <1>5, <1>6, <1>7, <1>8, <1>9, <1>10 DEF Proceed

\* Every step leaves every process that is alive within reach.
LEMMA ReachStep == IInv /\ NoOrphanProcess /\ [Next]_vars => NoOrphanProcess'
<1> SUFFICES ASSUME IInv, NoOrphanProcess, [Next]_vars, NEW p \in Payloads, Alive(p)'
             PROVE  Reachable(p)'
  BY DEF NoOrphanProcess, Reachable, Loader, Inside
<1>1. Alive(p) => Reachable(p)
  BY DEF NoOrphanProcess, Reachable, Loader, Inside
<1>2. CASE OnLoad
  BY <1>1, <1>2 DEF Alive, Reachable, Loader, Inside, OnLoad
<1>3. ASSUME NEW t \in Threads, OnUnload(t) \/ CloseFails(t)
      PROVE  Reachable(p)'
  <2>1. ~ Loader(t, p) /\ \A u \in Threads : u # t /\ Loader(u, p) => Loader(u, p)'
    BY <1>3 DEF IInv, TypeOK, Loader, Inside, OnUnload, CloseFails
  <2> QED
    BY <1>1, <1>3, <2>1 DEF Alive, Reachable, OnUnload, CloseFails
<1>4. ASSUME NEW t \in Threads, Proceed(t)
      PROVE  Reachable(p)'
  BY <1>1, <1>4, ProceedKeepsReach
<1>5. ASSUME NEW t \in Threads, NEW op \in Operations, NEW q \in Payloads, Call(t, op, q)
      PROVE  Reachable(p)'
  <2>1. ~ Loader(t, p) /\ \A u \in Threads : u # t /\ Loader(u, p) => Loader(u, p)'
    BY <1>5 DEF IInv, TypeOK, Loader, Inside, Call
  <2> QED
    BY <1>1, <1>5, <2>1 DEF Alive, Reachable, Call
<1>6. ASSUME NEW q \in Payloads, ProcessEnds(q)
      PROVE  Reachable(p)'
  BY <1>1, <1>6 DEF IInv, TypeOK, Alive, Reachable, Loader, Inside, ProcessEnds
<1>7. CASE UNCHANGED vars
  BY <1>1, <1>7 DEF Alive, Reachable, Loader, Inside, vars
<1> QED
  BY <1>2, <1>3, <1>4, <1>5, <1>6, <1>7 DEF Next

-----------------------------------------------------------------------------
(* The theorems *)

LEMMA IInvAlways == Spec => []IInv
<1>1. Init => IInv
  BY InitIInv
<1> QED
  BY <1>1, StepIInv, PTL DEF Spec

\* Every variable of the Provider's model holds a value of its kind, always.
THEOREM ProviderTyped == Spec => []TypeOK
<1>1. IInv => TypeOK
  BY DEF IInv
<1> QED
  BY <1>1, IInvAlways, PTL

\* The synchronized methods of QuickJsRuntimeProvider keep two commands from being sent
\* to one payload process at a time, whatever threads call which Provider.
THEOREM CommandsExclusive == Spec => []OneCommandAtATime
<1>1. IInv => OneCommandAtATime
  BY OneInside DEF IInv, Owned, OneCommandAtATime, Inside
<1> QED
  BY <1>1, IInvAlways, PTL

\* unloadPayload, close and a load that fails leave no payload process running that is
\* neither in a session map nor in the hands of the thread that loads or unloads it.
THEOREM NoOrphan == Spec => []NoOrphanProcess
<1>1. Init => NoOrphanProcess
  BY InitIInv
<1> QED
  BY <1>1, ReachStep, IInvAlways, PTL DEF Spec
=============================================================================
