---------------------------- MODULE HostProtocol ----------------------------
(***************************************************************************)
(* What the Host process promises to the process that drives it, with the  *)
(* guest, the Bridge callbacks and the pipes hidden: commands are taken    *)
(* one at a time; a command is performed, which moves the lifecycle along  *)
(* its one edge, or refused, which leaves the lifecycle where it was; only *)
(* then is it answered; and the process ends after a performed Shutdown,   *)
(* when its input closes, or by giving up, which may happen at any time    *)
(* and answers nothing.  ProcessServer implements this module.             *)
(***************************************************************************)

VARIABLES
    lifecycle,  \* LifecycleState, server.rs
    command,    \* the command in hand, or "None"
    verdict,    \* what became of it: "None", "done", "refused" or "broken"
    ended       \* the process serves no more

hostVars == <<lifecycle, command, verdict, ended>>

Commands == {"Hello", "Load", "Enable", "Invoke", "Disable", "Shutdown"}

\* Bodies only a child may send; as a command each one ends the protocol.
Misdirected == {"Ok", "Result", "Error"}

\* The lifecycle states in which a command may be performed.
From(c) ==
    CASE c = "Hello"    -> {"AwaitHello"}
      [] c = "Load"     -> {"AwaitLoad"}
      [] c = "Enable"   -> {"Loaded"}
      [] c = "Invoke"   -> {"Enabled"}
      [] c = "Disable"  -> {"Enabled"}
      [] c = "Shutdown" -> {"Loaded", "Disabled"}

\* The lifecycle state a performed command leads to.
To(c) ==
    CASE c = "Hello"    -> "AwaitLoad"
      [] c = "Load"     -> "Loaded"
      [] c = "Enable"   -> "Enabled"
      [] c = "Invoke"   -> "Enabled"
      [] c = "Disable"  -> "Disabled"
      [] c = "Shutdown" -> "Closed"

Init ==
    /\ lifecycle = "AwaitHello"
    /\ command = "None"
    /\ verdict = "None"
    /\ ended = FALSE

Accept ==
    /\ ~ended
    /\ command = "None"
    /\ command' \in Commands \cup Misdirected
    /\ UNCHANGED <<lifecycle, verdict, ended>>

Perform ==
    /\ command \in Commands
    /\ verdict = "None"
    /\ lifecycle \in From(command)
    /\ lifecycle' = To(command)
    /\ verdict' = "done"
    /\ UNCHANGED <<command, ended>>

\* A refusal never moves the lifecycle: the driver may try again or go on.
Refuse ==
    /\ command \in Commands
    /\ verdict = "None"
    /\ verdict' = "refused"
    /\ UNCHANGED <<lifecycle, command, ended>>

\* A command that will never be answered.
Break ==
    /\ command # "None"
    /\ verdict = "None"
    /\ verdict' = "broken"
    /\ UNCHANGED <<lifecycle, command, ended>>

Answer ==
    /\ verdict \in {"done", "refused"}
    /\ ended' = (command = "Shutdown" /\ verdict = "done")
    /\ command' = "None"
    /\ verdict' = "None"
    /\ UNCHANGED lifecycle

\* The input ends between two commands.
Close ==
    /\ ~ended
    /\ command = "None"
    /\ ended' = TRUE
    /\ lifecycle' = "Closed"
    /\ UNCHANGED <<command, verdict>>

GiveUp ==
    /\ ~ended
    /\ ended' = TRUE
    /\ command' = "None"
    /\ verdict' = "None"
    /\ UNCHANGED lifecycle

Next == Accept \/ Perform \/ Refuse \/ Break \/ Answer \/ Close \/ GiveUp

Spec == Init /\ [][Next]_hostVars
=============================================================================
