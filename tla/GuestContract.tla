--------------------------- MODULE GuestContract ----------------------------
(***************************************************************************)
(* What a payload is promised about the calls its lifecycle functions      *)
(* receive, whatever the driving process sends: one call at a time; load   *)
(* until it succeeds; invoke only between a successful enable and the      *)
(* disable; unload at most once, and of an enabled payload only after its  *)
(* disable was tried.  ProcessServer implements this module.               *)
(***************************************************************************)

VARIABLES
    phase,      \* "absent", "loaded", "enabled", "retired" or "released"
    running     \* the lifecycle function being run, or "idle"

guestVars == <<phase, running>>

Init == phase = "absent" /\ running = "idle"

\* The phase a lifecycle function is entered in, and the one its success leads to.
EntryPhase ==
    [load |-> "absent", enable |-> "loaded", invoke |-> "enabled", disable |-> "enabled"]

ExitPhase ==
    [load |-> "loaded", enable |-> "enabled", invoke |-> "enabled", disable |-> "retired",
     unload |-> "released"]

Enter ==
    /\ running = "idle"
    /\ running' \in DOMAIN EntryPhase
    /\ phase = EntryPhase[running']
    /\ UNCHANGED phase

\* Unloading is committed to on entry: there is no second attempt.
EnterUnload ==
    /\ running = "idle"
    /\ phase \in {"loaded", "retired"}
    /\ running' = "unload"
    /\ phase' = "released"

Succeed ==
    /\ running # "idle"
    /\ phase' = ExitPhase[running]
    /\ running' = "idle"

Fail ==
    /\ running # "idle"
    /\ running' = "idle"
    /\ UNCHANGED phase

\* A disable that failed while the Host is going away is not tried again.
FailDisableForGood ==
    /\ running = "disable"
    /\ running' = "idle"
    /\ phase' = "retired"

\* The Host goes away before any payload was loaded.
Discard ==
    /\ running = "idle"
    /\ phase = "absent"
    /\ phase' = "released"
    /\ UNCHANGED running

Next == Enter \/ EnterUnload \/ Succeed \/ Fail \/ FailDisableForGood \/ Discard

Spec == Init /\ [][Next]_guestVars
=============================================================================
