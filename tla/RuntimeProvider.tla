--------------------------- MODULE RuntimeProvider --------------------------
(***************************************************************************)
(* The launcher side: QuickJsRuntimeProvider keeps one process session per *)
(* payload and runs every call under its own monitor;                      *)
(* QuickJsRuntimeHostPlugin creates a Provider when it is loaded and closes*)
(* it when it is unloaded.                                                 *)
(*                                                                         *)
(* The launcher is the environment: its threads call a Provider that is    *)
(* registered, in any order and with any handle.  So is the process        *)
(* session: a start that fails leaves no process, shutdown may fail with   *)
(* an IOException, close ends the process, and a process may end by        *)
(* itself.                                                                 *)
(***************************************************************************)
EXTENDS Naturals, FiniteSets

CONSTANTS
    Threads,    \* launcher threads
    Payloads,   \* the payload identifiers that can be drawn, one for each start
    MaxLoads    \* bound: Providers the Host plugin creates

NoThread == "no thread"

ASSUME ProviderAssumption ==
    /\ NoThread \notin Threads
    /\ MaxLoads \in Nat

Providers == 1..MaxLoads
SessionCalls == {"enable", "disable", "invoke", "invokeHook"}
Operations == SessionCalls \cup {"load", "unload", "close"}

NoCall == [op |-> "none", provider |-> 0]

VARIABLES
    registration,  \* the Provider the Host plugin has registered, or 0
    created,       \* Providers created so far
    sessions,      \* per Provider: the payloads in its session map
    monitor,       \* per Provider: the thread that holds its monitor
    at,            \* per thread: "idle", "waiting", "inside" a session call, or "closing"
    call,          \* per thread: the operation and the Provider it is called on
    payload,       \* per thread: the payload it is about
    process,       \* per payload: "none", "starting", "running" or "ended"
    owner,         \* per payload: the Provider that started it
    closed         \* Providers whose close has returned

vars == <<registration, created, sessions, monitor, at, call, payload, process, owner, closed>>
pluginVars == <<registration, created>>

Init ==
    /\ registration = 0
    /\ created = 0
    /\ sessions = [g \in Providers |-> {}]
    /\ monitor = [g \in Providers |-> NoThread]
    /\ at = [t \in Threads |-> "idle"]
    /\ call = [t \in Threads |-> NoCall]
    /\ payload \in [Threads -> Payloads]
    /\ process = [p \in Payloads |-> "none"]
    /\ owner = [p \in Payloads |-> 0]
    /\ closed = {}

Alive(p) == process[p] \in {"starting", "running"}
Unloading == \E t \in Threads : call[t].op = "close"

-----------------------------------------------------------------------------
(* QuickJsRuntimeHostPlugin *)

\* A second onLoad throws; onUnload holds the plugin's monitor.
OnLoad ==
    /\ registration = 0
    /\ ~ Unloading
    /\ created < MaxLoads
    /\ created' = created + 1
    /\ registration' = created + 1
    /\ UNCHANGED <<sessions, monitor, at, call, payload, process, owner, closed>>

\* Slip: the field is cleared before it is read.
OnUnloadForgets(t) ==
    /\ at[t] = "idle"
    /\ registration # 0
    /\ registration' = 0
    /\ at' = [at EXCEPT ![t] = "waiting"]
    /\ call' = [call EXCEPT ![t] = [op |-> "close", provider |-> registration']]
    /\ UNCHANGED <<created, sessions, monitor, payload, process, owner, closed>>

\* The field is read and cleared; the thread then closes what it read.
OnUnload(t) ==
    /\ at[t] = "idle"
    /\ registration # 0
    /\ registration' = 0
    /\ at' = [at EXCEPT ![t] = "waiting"]
    /\ call' = [call EXCEPT ![t] = [op |-> "close", provider |-> registration]]
    /\ UNCHANGED <<created, sessions, monitor, payload, process, owner, closed>>

\* The registration cannot be closed: the Provider is not reached.
CloseFails(t) ==
    /\ at[t] = "waiting"
    /\ call[t].op = "close"
    /\ at' = [at EXCEPT ![t] = "idle"]
    /\ call' = [call EXCEPT ![t] = NoCall]
    /\ UNCHANGED <<pluginVars, sessions, monitor, payload, process, owner, closed>>

-----------------------------------------------------------------------------
(* QuickJsRuntimeProvider *)

\* A load draws a fresh identifier; another call is about a payload loaded before.
Call(t, op, p) ==
    /\ at[t] = "idle"
    /\ registration # 0
    /\ op \in Operations \ {"close"}
    /\ IF op = "load"
         THEN /\ process[p] = "none"
              /\ \A u \in Threads : ~ (call[u].op = "load" /\ payload[u] = p)
         ELSE process[p] # "none"
    /\ at' = [at EXCEPT ![t] = "waiting"]
    /\ call' = [call EXCEPT ![t] = [op |-> op, provider |-> registration]]
    /\ payload' = [payload EXCEPT ![t] = p]
    /\ UNCHANGED <<pluginVars, sessions, monitor, process, owner, closed>>

\* Slip: invokeHook is not synchronized.
MonitorFreeForHook(t) ==
    monitor[call[t].provider] = NoThread \/ call[t].op = "invokeHook"

\* synchronized
MonitorFree(t) == monitor[call[t].provider] = NoThread

Enter(t) ==
    /\ at[t] = "waiting"
    /\ MonitorFree(t)
    /\ at' = [at EXCEPT ![t] = "inside"]
    /\ monitor' = [monitor EXCEPT ![call[t].provider] = t]
    /\ UNCHANGED <<pluginVars, call, payload, closed>>

Release(t) ==
    /\ at' = [at EXCEPT ![t] = "idle"]
    /\ call' = [call EXCEPT ![t] = NoCall]
    /\ monitor' = [monitor EXCEPT ![call[t].provider] = NoThread]
    /\ UNCHANGED <<pluginVars, payload>>

\* requireSession
Known(t) == payload[t] \in sessions[call[t].provider]

UnknownHandle(t) ==
    /\ at[t] = "waiting"
    /\ call[t].op \in SessionCalls \cup {"unload"}
    /\ MonitorFree(t)
    /\ ~ Known(t)
    /\ Release(t)
    /\ UNCHANGED <<sessions, process, owner, closed>>

LoadPayload(t) ==
    /\ call[t].op = "load"
    /\ Enter(t)
    /\ process' = [process EXCEPT ![payload[t]] = "starting"]
    /\ owner' = [owner EXCEPT ![payload[t]] = call[t].provider]
    /\ UNCHANGED sessions

LoadFails(t) ==
    /\ at[t] = "inside"
    /\ call[t].op = "load"
    /\ Release(t)
    /\ process' = [process EXCEPT ![payload[t]] = "ended"]
    /\ UNCHANGED <<sessions, owner, closed>>

LoadReturns(t) ==
    /\ at[t] = "inside"
    /\ call[t].op = "load"
    /\ Release(t)
    /\ process' = [process EXCEPT ![payload[t]] = "running"]
    /\ sessions' = [sessions EXCEPT ![call[t].provider] = @ \cup {payload[t]}]
    /\ UNCHANGED <<owner, closed>>

\* enablePayload, disablePayload, invokePayload and invokeHook hold the monitor for as
\* long as the session takes to answer.
SessionCall(t) ==
    /\ call[t].op \in SessionCalls
    /\ Known(t)
    /\ Enter(t)
    /\ UNCHANGED <<sessions, process, owner>>

SessionReturns(t) ==
    /\ at[t] = "inside"
    /\ call[t].op \in SessionCalls
    /\ Release(t)
    /\ UNCHANGED <<sessions, process, owner, closed>>

UnloadPayload(t) ==
    /\ call[t].op = "unload"
    /\ Known(t)
    /\ Enter(t)
    /\ sessions' = [sessions EXCEPT ![call[t].provider] = @ \ {payload[t]}]
    /\ UNCHANGED <<process, owner>>

ShutdownReturns(t) ==
    /\ at[t] = "inside"
    /\ call[t].op = "unload"
    /\ Release(t)
    /\ process' = [process EXCEPT ![payload[t]] = "ended"]
    /\ UNCHANGED <<sessions, owner, closed>>

\* Slip: the exception leaves unloadPayload as it is.
ShutdownFailsThrows(t) ==
    /\ at[t] = "inside"
    /\ call[t].op = "unload"
    /\ Release(t)
    /\ UNCHANGED <<sessions, process, owner, closed>>

\* shutdown throws an IOException: the catch branch closes the session.
ShutdownFails(t) ==
    /\ at[t] = "inside"
    /\ call[t].op = "unload"
    /\ at' = [at EXCEPT ![t] = "closing"]
    /\ UNCHANGED <<pluginVars, sessions, monitor, call, payload, process, owner, closed>>

SessionCloses(t) ==
    /\ at[t] = "closing"
    /\ Release(t)
    /\ process' = [process EXCEPT ![payload[t]] = "ended"]
    /\ UNCHANGED <<sessions, owner, closed>>

\* Slip: the map is cleared and its sessions are left to themselves.
CloseClearsOnly(t) ==
    /\ at[t] = "waiting"
    /\ call[t].op = "close"
    /\ MonitorFree(t)
    /\ Release(t)
    /\ sessions' = [sessions EXCEPT ![call[t].provider] = {}]
    /\ closed' = closed \cup {call[t].provider}
    /\ UNCHANGED <<process, owner>>

\* close: every session of the map is closed, then the map is cleared.
Close(t) ==
    /\ at[t] = "waiting"
    /\ call[t].op = "close"
    /\ MonitorFree(t)
    /\ Release(t)
    /\ process' = [p \in Payloads |->
                      IF p \in sessions[call[t].provider] THEN "ended" ELSE process[p]]
    /\ sessions' = [sessions EXCEPT ![call[t].provider] = {}]
    /\ closed' = closed \cup {call[t].provider}
    /\ UNCHANGED owner

\* A payload process ends by itself; its session stays in the map.
ProcessEnds(p) ==
    /\ process[p] = "running"
    /\ process' = [process EXCEPT ![p] = "ended"]
    /\ UNCHANGED <<pluginVars, sessions, monitor, at, call, payload, owner, closed>>

\* What a thread does once it has called the Provider.
Proceed(t) ==
    \/ UnknownHandle(t) \/ LoadPayload(t) \/ LoadFails(t) \/ LoadReturns(t)
    \/ SessionCall(t) \/ SessionReturns(t)
    \/ UnloadPayload(t) \/ ShutdownReturns(t) \/ ShutdownFails(t) \/ SessionCloses(t)
    \/ Close(t)

Next ==
    \/ OnLoad
    \/ \E t \in Threads : OnUnload(t) \/ CloseFails(t) \/ Proceed(t)
    \/ \E t \in Threads, op \in Operations, p \in Payloads : Call(t, op, p)
    \/ \E p \in Payloads : ProcessEnds(p)

Spec == Init /\ [][Next]_vars

\* A thread that holds a monitor goes on: every session call ends, for Aura's process
\* session has a deadline of its own.  Nothing is assumed of who gets a free monitor.
FairSpec == Spec /\ \A t \in Threads : WF_vars(at[t] # "waiting" /\ Proceed(t))

-----------------------------------------------------------------------------
(* Properties *)

\* Every variable holds a value of its kind, and a call is made on an existing Provider.
TypeOK ==
    /\ registration \in 0..MaxLoads
    /\ created \in 0..MaxLoads
    /\ sessions \in [Providers -> SUBSET Payloads]
    /\ monitor \in [Providers -> Threads \cup {NoThread}]
    /\ at \in [Threads -> {"idle", "waiting", "inside", "closing"}]
    /\ call \in [Threads -> [op : Operations \cup {"none"}, provider : 0..MaxLoads]]
    /\ payload \in [Threads -> Payloads]
    /\ process \in [Payloads -> {"none", "starting", "running", "ended"}]
    /\ owner \in [Payloads -> 0..MaxLoads]
    /\ closed \subseteq Providers
    /\ \A t \in Threads : at[t] # "idle" => call[t].provider \in Providers

\* A process has one command at a time: no two threads are inside a session of the same
\* payload, be it a Hook, a Patch callback, a lifecycle call or its unloading (server.rs
\* reads commands one by one and takes any other frame for a protocol error).
OneCommandAtATime ==
    \A t, u \in Threads :
        /\ at[t] \in {"inside", "closing"} /\ at[u] \in {"inside", "closing"}
        /\ payload[t] = payload[u]
        => t = u

\* A process that is alive can be reached: it is in the map of the Provider that started
\* it, or a thread is about to put it there or to end it.
NoOrphanProcess ==
    \A p \in Payloads :
        Alive(p) =>
            \/ p \in sessions[owner[p]]
            \/ \E t \in Threads :
                  at[t] \in {"inside", "closing"} /\ call[t].op \in {"load", "unload"} /\ payload[t] = p

\* Unloading a payload ends its process even if its shutdown fails.
UnloadEnds ==
    \A t \in Threads, p \in Payloads :
        at[t] = "inside" /\ call[t].op = "unload" /\ payload[t] = p ~> process[p] = "ended"

\* Once the Host plugin is unloaded and no call is in progress, no payload process is
\* left (QuickJsRuntimeHostPlugin.java:60).
UnloadedPluginLeavesNothing ==
    /\ registration = 0
    /\ \A t \in Threads : at[t] = "idle"
    /\ closed = 1..created
    => \A p \in Payloads : ~ Alive(p)
=============================================================================
