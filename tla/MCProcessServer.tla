--------------------------- MODULE MCProcessServer --------------------------
(***************************************************************************)
(* ProcessServer on small instances.                                       *)
(***************************************************************************)
EXTENDS ProcessServer

\* A driving process that sends commands and answers only.  The Host takes a
\* CallbackError for an answer wherever it takes a CallbackUnit.
CommandKinds == Commands \cup {"CallbackResult", "CallbackUnit"}

\* One body for every kind the server treats alike.
AllKinds == CommandKinds \cup {"Ok", "BridgeInvoke"}
=============================================================================
