------------------------- MODULE ProcessServerProofs ------------------------
(***************************************************************************)
(* Proofs about ProcessServer for every value of its constants: any number *)
(* of frames, any width of the callback identifiers, any number of Bridge  *)
(* calls.                                                                  *)
(***************************************************************************)
EXTENDS ProcessServer, TLAPS

\* Every frame of the driving process is a frame of the input.
LEMMA ParentFramesAreFrames == ParentFrames \subseteq Frames
BY ConstantsAssumption DEF ConstantsAssumption, ParentFrames, Frames, Malformed, ValidMessage

\* The type invariant holds initially.
LEMMA TypeInit == Init => TypeOK
<1> SUFFICES ASSUME Init PROVE TypeOK
  OBVIOUS
<1>1. inClosed \in BOOLEAN /\ outBroken \in BOOLEAN /\ plugin \in BOOLEAN /\ poison \in BOOLEAN
  BY Zenon DEF Init
<1> QED
  BY <1>1, ConstantsAssumption
     DEF ConstantsAssumption, Init, TypeOK, LifecycleState, NoCallback

\* Every step preserves the type invariant: a lifecycle function that returns
\* is one of the five because the thread is in the guest (ThreadDiscipline).
LEMMA TypeStep == TypeOK /\ ThreadDiscipline /\ [Next]_vars => TypeOK'
<1> SUFFICES ASSUME TypeOK, ThreadDiscipline, [Next]_vars PROVE TypeOK'
  OBVIOUS
<1> USE ConstantsAssumption DEF ConstantsAssumption, TypeOK, ReleaseReader, parentVars, closing, traceVars, bridgeVars
<1>1. ASSUME NEW frame \in ParentFrames, ParentWrite(frame) PROVE TypeOK'
  BY <1>1, ParentFramesAreFrames DEF ParentWrite
<1>2. CASE ParentCloseInput
  BY <1>2 DEF ParentCloseInput
<1>3. CASE ParentCloseOutput
  BY <1>3 DEF ParentCloseOutput
<1>4. CASE LockReader
  BY <1>4 DEF LockReader
<1>5. CASE ReadUnusable
  BY <1>5 DEF ReadUnusable, Exit
<1>6. CASE ReadCommand
  BY <1>6 DEF ReadCommand
<1>7. CASE Handle
  <2> USE DEF handleUnchanged, Handling, Result, EnterGuest, Refuse, LifecycleState, GuestFunctions
  <2>1. CASE HandleHello
    BY <2>1 DEF HandleHello
  <2>2. CASE HandleLoad
    <3>1. \A codeLength, length : ErrorBody(codeLength, length) \in {"error", "unwritable"}
      BY DEF ErrorBody
    <3>2. handled' \in {"none", "ok", "error", "unwritable", "fatal"}
      BY <2>2, <3>1 DEF HandleLoad
    <3>3. (issued' = issued \/ issued' = <<>>) /\ (nextId' = nextId \/ nextId' = 2)
      BY <2>2 DEF HandleLoad
    <3>6. calls' \in Nat
      BY <2>2 DEF HandleLoad
    <3>7. nextId' \in 0..2 * MaxId + 1
      BY <3>3
    <3>8. <<>> \in Seq(Nat)
      OBVIOUS
    <3>9. issued' \in Seq(Nat)
      BY <3>3, <3>8
    <3>4. pc' \in {"guest", "finishing"} /\ guest' \in GuestFunctions \cup {"idle"}
      BY <2>2 DEF HandleLoad
    <3>5. UNCHANGED <<state, plugin, handleUnchanged>>
      BY <2>2 DEF HandleLoad
    <3> QED BY <3>2, <3>4, <3>5, <3>6, <3>7, <3>9
  <2>3. CASE HandleEnable
    BY <2>3 DEF HandleEnable
  <2>4. CASE HandleInvoke
    BY <2>4 DEF HandleInvoke
  <2>5. CASE HandleDisable
    BY <2>5 DEF HandleDisable
  <2>6. CASE HandleShutdown
    <3>1. plugin' \in BOOLEAN
      BY <2>6, Zenon DEF HandleShutdown
    <3> QED BY <2>6, <3>1 DEF HandleShutdown
  <2>7. CASE HandleMisdirected
    BY <2>7 DEF HandleMisdirected
  <2> QED BY <1>7, <2>1, <2>2, <2>3, <2>4, <2>5, <2>6, <2>7 DEF Handle
<1>8. CASE FinishPoisoned
  BY <1>8 DEF FinishPoisoned, finishUnchanged, Exit
<1>9. CASE FinishFailed
  BY <1>9 DEF FinishFailed, finishUnchanged, Exit
<1>10. CASE FinishReply
  <2>1. outFull' \in BOOLEAN
    BY <1>10 DEF FinishReply, WriteOutput
  <2> QED BY <1>10, <2>1 DEF FinishReply, finishUnchanged, Exit
<1>11. CASE ReadEof
  BY <1>11 DEF ReadEof, cleanupUnchanged, EnterGuest, GuestFunctions
<1>12. CASE Cleanup
  <2>1. plugin' \in BOOLEAN
    BY <1>12, Zenon DEF Cleanup
  <2> QED
    BY <1>12, <2>1 DEF Cleanup, cleanupUnchanged, EnterGuest, GuestFunctions, Exit, LifecycleState
<1>13. CASE GuestReturn
  <2> USE DEF guestUnchanged, Result, Exit, LifecycleState
  <2>1. CASE GuestSucceeds
    <3>1. plugin' \in BOOLEAN
      BY <2>1, Zenon DEF GuestSucceeds
    <3>2. state' \in LifecycleState
      BY <2>1 DEF GuestSucceeds, Successor, GuestFunctions, ThreadDiscipline
    <3> QED BY <2>1, <3>1, <3>2 DEF GuestSucceeds
  <2>2. CASE GuestFails
    BY <2>2 DEF GuestFails
  <2>3. CASE CleanupGuestReturns
    BY <2>3 DEF CleanupGuestReturns
  <2> QED BY <1>13, <2>1, <2>2, <2>3 DEF GuestReturn
<1>14. ASSUME NEW body \in BridgeRequests, BridgeCallFails(body) PROVE TypeOK'
  BY <1>14 DEF BridgeCallFails, TakeId, IdSpace, bridgeUnchanged
<1>15. ASSUME NEW body \in BridgeRequests, BridgeCall(body) PROVE TypeOK'
  BY <1>15 DEF BridgeCall, TakeId, IdSpace, bridgeUnchanged
<1>16. CASE BridgeLockReader
  BY <1>16 DEF BridgeLockReader, bridgeUnchanged
<1>17. CASE BridgeReceive
  BY <1>17 DEF BridgeReceive, bridgeUnchanged, NoCallback
<1>18. CASE BridgeEof
  BY <1>18 DEF BridgeEof, bridgeUnchanged, NoCallback
<1>19. CASE ParentRead
  <2>1. outFull' \in BOOLEAN
    BY <1>19, Zenon DEF ParentRead
  <2>2. inClosed' \in BOOLEAN /\ outBroken' \in BOOLEAN
    BY <1>19 DEF ParentRead
  <2> QED BY <1>19, <2>1, <2>2 DEF ParentRead
<1>20. CASE BridgeWrite
  <2>1. outFull' \in BOOLEAN
    BY <1>20 DEF BridgeWrite, WriteOutput
  <2> QED BY <1>20, <2>1 DEF BridgeWrite
<1>21. CASE BridgeWriteFails
  BY <1>21 DEF BridgeWriteFails, bridgeUnchanged, NoCallback
<1>22. CASE UNCHANGED vars
  BY <1>22 DEF vars
<1> QED
  BY <1>1, <1>2, <1>3, <1>4, <1>5, <1>6, <1>7, <1>8, <1>9, <1>10, <1>11, <1>12, <1>13, <1>14,
     <1>15, <1>16, <1>17, <1>18, <1>19, <1>20, <1>21, <1>22 DEF Next, Parent, Serve, Guest, Bridge

-----------------------------------------------------------------------------
\* The thread discipline holds initially.
LEMMA DisciplineInit == Init => ThreadDiscipline
BY DEF Init, ThreadDiscipline, NoRequest, NoCallback

\* Every step preserves the thread discipline.
LEMMA DisciplineStep == TypeOK /\ ThreadDiscipline /\ [Next]_vars => ThreadDiscipline'
<1> SUFFICES ASSUME TypeOK, ThreadDiscipline, [Next]_vars PROVE ThreadDiscipline'
  OBVIOUS
<1> USE DEF ThreadDiscipline, ReleaseReader, Healthy, parentVars, closing, traceVars, bridgeVars
<1>1. ASSUME NEW frame \in ParentFrames, ParentWrite(frame) PROVE ThreadDiscipline'
  BY <1>1 DEF ParentWrite
<1>2. CASE ParentCloseInput
  BY <1>2 DEF ParentCloseInput
<1>3. CASE ParentCloseOutput
  BY <1>3 DEF ParentCloseOutput
<1>4. CASE LockReader
  BY <1>4 DEF LockReader
<1>5. CASE ReadUnusable
  BY <1>5 DEF ReadUnusable, Exit
<1>6. CASE ReadCommand
  <2>1. request' # NoRequest
    BY <1>6 DEF ReadCommand, NoRequest
  <2> QED BY <1>6, <2>1 DEF ReadCommand
<1>7. CASE Handle
  <2> USE DEF handleUnchanged, Handling, Result, EnterGuest, Refuse, Asking
  <2>1. CASE HandleHello
    BY <2>1 DEF HandleHello
  <2>2. CASE HandleLoad
    <3>1. \A codeLength, length : ErrorBody(codeLength, length) # "none"
      BY DEF ErrorBody
    <3> QED BY <2>2, <3>1 DEF HandleLoad
  <2>3. CASE HandleEnable
    BY <2>3 DEF HandleEnable
  <2>4. CASE HandleInvoke
    BY <2>4 DEF HandleInvoke
  <2>5. CASE HandleDisable
    BY <2>5 DEF HandleDisable
  <2>6. CASE HandleShutdown
    BY <2>6 DEF HandleShutdown
  <2>7. CASE HandleMisdirected
    BY <2>7 DEF HandleMisdirected
  <2> QED BY <1>7, <2>1, <2>2, <2>3, <2>4, <2>5, <2>6, <2>7 DEF Handle
<1>8. CASE FinishPoisoned
  BY <1>8 DEF FinishPoisoned, finishUnchanged, Exit
<1>9. CASE FinishFailed
  BY <1>9 DEF FinishFailed, finishUnchanged, Exit
<1>10. CASE FinishReply
  BY <1>10 DEF FinishReply, finishUnchanged, Exit
<1>11. CASE ReadEof
  BY <1>11 DEF ReadEof, cleanupUnchanged, EnterGuest
<1>12. CASE Cleanup
  BY <1>12 DEF Cleanup, cleanupUnchanged, EnterGuest, Exit
<1>13. CASE GuestReturn
  <2> USE DEF guestUnchanged, Result, Exit
  <2>1. CASE GuestSucceeds
    BY <2>1 DEF GuestSucceeds
  <2>2. CASE GuestFails
    BY <2>2 DEF GuestFails
  <2>3. CASE CleanupGuestReturns
    BY <2>3 DEF CleanupGuestReturns
  <2> QED BY <1>13, <2>1, <2>2, <2>3 DEF GuestReturn
<1>14. ASSUME NEW body \in BridgeRequests, BridgeCallFails(body) PROVE ThreadDiscipline'
  BY <1>14 DEF BridgeCallFails, TakeId, bridgeUnchanged
<1>15. ASSUME NEW body \in BridgeRequests, BridgeCall(body) PROVE ThreadDiscipline'
  <2>1. callback' # NoCallback
    BY <1>15 DEF BridgeCall, NoCallback, NoRequest, BridgeRequests
  <2> QED BY <1>15, <2>1 DEF BridgeCall, TakeId, bridgeUnchanged
<1>16. CASE BridgeLockReader
  BY <1>16 DEF BridgeLockReader, bridgeUnchanged
<1>17. CASE BridgeReceive
  BY <1>17 DEF BridgeReceive, bridgeUnchanged
<1>18. CASE BridgeEof
  BY <1>18 DEF BridgeEof, bridgeUnchanged
<1>19. CASE ParentRead
  BY <1>19 DEF ParentRead
<1>20. CASE BridgeWrite
  BY <1>20 DEF BridgeWrite, WriteOutput
<1>21. CASE BridgeWriteFails
  BY <1>21 DEF BridgeWriteFails, bridgeUnchanged, NoCallback
<1>22. CASE UNCHANGED vars
  BY <1>22 DEF vars
<1> QED
  BY <1>1, <1>2, <1>3, <1>4, <1>5, <1>6, <1>7, <1>8, <1>9, <1>10, <1>11, <1>12, <1>13, <1>14,
     <1>15, <1>16, <1>17, <1>18, <1>19, <1>20, <1>21, <1>22 DEF Next, Parent, Serve, Guest, Bridge

\* Every variable keeps its type, and the one thread keeps to its discipline:
\* it never waits for the reader lock it holds, and nothing runs in the guest
\* but what the command in hand, or the end of the input, asked for.
THEOREM TypeCorrect == Spec => [](TypeOK /\ ThreadDiscipline)
<1>1. Init => TypeOK /\ ThreadDiscipline
  BY TypeInit, DisciplineInit
<1>2. TypeOK /\ ThreadDiscipline /\ [Next]_vars => TypeOK' /\ ThreadDiscipline'
  BY TypeStep, DisciplineStep
<1> QED BY <1>1, <1>2, PTL DEF Spec

-----------------------------------------------------------------------------
\* The server's lifecycle and the engine's payload agree initially.
LEMMA EngineInit == Init => EngineMatchesState
BY DEF Init, EngineMatchesState

\* Every step keeps the server's lifecycle and the engine's payload in agreement.
LEMMA EngineStep ==
    TypeOK /\ ThreadDiscipline /\ EngineMatchesState /\ [Next]_vars => EngineMatchesState'
<1> SUFFICES ASSUME TypeOK, ThreadDiscipline, EngineMatchesState, [Next]_vars
             PROVE  EngineMatchesState'
  OBVIOUS
<1> USE DEF TypeOK, ThreadDiscipline, EngineMatchesState, MayShutdown, NeedsDisable, NeedsUnload,
           parentVars, closing, traceVars, bridgeVars
<1>1. ASSUME NEW frame \in ParentFrames, ParentWrite(frame) PROVE EngineMatchesState'
  BY <1>1 DEF ParentWrite
<1>2. CASE ParentCloseInput
  BY <1>2 DEF ParentCloseInput
<1>3. CASE ParentCloseOutput
  BY <1>3 DEF ParentCloseOutput
<1>4. CASE LockReader
  BY <1>4 DEF LockReader
<1>5. CASE ReadUnusable
  BY <1>5 DEF ReadUnusable, Exit
<1>6. CASE ReadCommand
  BY <1>6 DEF ReadCommand
<1>7. CASE Handle
  <2> USE DEF handleUnchanged, Handling, Result, EnterGuest, Refuse
  <2>1. CASE HandleHello
    BY <2>1 DEF HandleHello
  <2>2. CASE HandleLoad
    BY <2>2 DEF HandleLoad
  <2>3. CASE HandleEnable
    BY <2>3 DEF HandleEnable
  <2>4. CASE HandleInvoke
    BY <2>4 DEF HandleInvoke
  <2>5. CASE HandleDisable
    BY <2>5 DEF HandleDisable
  <2>6. CASE HandleShutdown
    BY <2>6 DEF HandleShutdown
  <2>7. CASE HandleMisdirected
    BY <2>7 DEF HandleMisdirected
  <2> QED BY <1>7, <2>1, <2>2, <2>3, <2>4, <2>5, <2>6, <2>7 DEF Handle
<1>8. CASE FinishPoisoned
  BY <1>8 DEF FinishPoisoned, finishUnchanged, Exit
<1>9. CASE FinishFailed
  BY <1>9 DEF FinishFailed, finishUnchanged, Exit
<1>10. CASE FinishReply
  BY <1>10 DEF FinishReply, finishUnchanged, Exit
<1>11. CASE ReadEof
  BY <1>11 DEF ReadEof, cleanupUnchanged, EnterGuest
<1>12. CASE Cleanup
  BY <1>12 DEF Cleanup, cleanupUnchanged, EnterGuest, Exit, LifecycleState
<1>13. CASE GuestReturn
  <2> USE DEF guestUnchanged, Result, Exit, Successor
  <2>1. CASE GuestSucceeds
    <3>1. plugin' <=> plugin \/ guest = "load"
      BY <2>1, Zenon DEF GuestSucceeds
    <3> QED BY <2>1, <3>1 DEF GuestSucceeds, GuestFunctions
  <2>2. CASE GuestFails
    BY <2>2 DEF GuestFails
  <2>3. CASE CleanupGuestReturns
    BY <2>3 DEF CleanupGuestReturns
  <2> QED BY <1>13, <2>1, <2>2, <2>3 DEF GuestReturn
<1>14. ASSUME NEW body \in BridgeRequests, BridgeCallFails(body) PROVE EngineMatchesState'
  BY <1>14 DEF BridgeCallFails, TakeId, IdSpace, bridgeUnchanged
<1>15. ASSUME NEW body \in BridgeRequests, BridgeCall(body) PROVE EngineMatchesState'
  BY <1>15 DEF BridgeCall, TakeId, IdSpace, bridgeUnchanged
<1>16. CASE BridgeLockReader
  BY <1>16 DEF BridgeLockReader, bridgeUnchanged
<1>17. CASE BridgeReceive
  BY <1>17 DEF BridgeReceive, bridgeUnchanged
<1>18. CASE BridgeEof
  BY <1>18 DEF BridgeEof, bridgeUnchanged
<1>19. CASE ParentRead
  BY <1>19 DEF ParentRead
<1>20. CASE BridgeWrite
  BY <1>20 DEF BridgeWrite, WriteOutput
<1>21. CASE BridgeWriteFails
  BY <1>21 DEF BridgeWriteFails, bridgeUnchanged, NoCallback
<1>22. CASE UNCHANGED vars
  BY <1>22 DEF vars
<1> QED
  BY <1>1, <1>2, <1>3, <1>4, <1>5, <1>6, <1>7, <1>8, <1>9, <1>10, <1>11, <1>12, <1>13, <1>14,
     <1>15, <1>16, <1>17, <1>18, <1>19, <1>20, <1>21, <1>22 DEF Next, Parent, Serve, Guest, Bridge

-----------------------------------------------------------------------------
\* What a step may do to the callback identifiers: nothing, start a new Bridge,
\* poison the server, or issue the next one.
LEMMA IdentifierSteps ==
    [Next]_vars =>
        \/ UNCHANGED <<nextId, issued, poison>>
        \/ nextId' = 2 /\ issued' = <<>> /\ poison' = poison
        \/ poison' = TRUE
        \/ UNCHANGED <<nextId, issued>> /\ (poison => poison')
        \/ \E body \in BridgeRequests : BridgeCall(body)
<1> SUFFICES ASSUME [Next]_vars
             PROVE  \/ UNCHANGED <<nextId, issued, poison>>
                    \/ nextId' = 2 /\ issued' = <<>> /\ poison' = poison
                    \/ poison' = TRUE
                    \/ UNCHANGED <<nextId, issued>> /\ (poison => poison')
                    \/ \E body \in BridgeRequests : BridgeCall(body)
  OBVIOUS
<1> USE DEF parentVars, closing, traceVars, bridgeVars
<1>1. CASE Parent
  BY <1>1 DEF Parent, ParentWrite, ParentCloseInput, ParentCloseOutput, ParentRead
<1>2. CASE Handle
  <2> USE DEF handleUnchanged, Refuse
  <2>1. CASE HandleLoad
    BY <2>1 DEF HandleLoad
  <2> QED
    BY <1>2, <2>1 DEF Handle, HandleHello, HandleEnable, HandleInvoke, HandleDisable,
                      HandleShutdown, HandleMisdirected
<1>3. CASE Serve /\ ~ Handle
  BY <1>3 DEF Serve, LockReader, ReadUnusable, ReadCommand, FinishPoisoned, FinishFailed,
              FinishReply, finishUnchanged, ReadEof, Cleanup, cleanupUnchanged
<1>4. CASE GuestReturn
  BY <1>4 DEF GuestReturn, GuestSucceeds, GuestFails, CleanupGuestReturns, guestUnchanged
<1>5. CASE Bridge \/ \E body \in BridgeRequests : BridgeCall(body) \/ BridgeCallFails(body)
  BY <1>5 DEF Bridge, BridgeCallFails, BridgeWrite, BridgeWriteFails, BridgeLockReader, BridgeReceive, BridgeEof
<1>6. CASE UNCHANGED vars
  BY <1>6 DEF vars
<1> QED BY <1>1, <1>2, <1>3, <1>4, <1>5, <1>6 DEF Next, Guest

\* What is known of the callback identifiers of a server that is not poisoned:
\* every one issued by the current Bridge is below the next, which is even and
\* at most one step beyond the signed-64 range, so the counter has not wrapped.
IssuedBelowNext ==
    ~ poison =>
        /\ nextId >= 2 /\ nextId <= MaxId + 2 /\ nextId % 2 = 0
        /\ \A i \in 1..Len(issued) : issued[i] < nextId
        /\ \A i \in 1..Len(issued) : issued[i] \in 1..MaxId /\ issued[i] % 2 = 0
        /\ \A i, j \in 1..Len(issued) : i < j => issued[i] < issued[j]

\* No identifier has been issued initially.
LEMMA IssuedInit == Init => IssuedBelowNext
BY ConstantsAssumption DEF ConstantsAssumption, Init, IssuedBelowNext

\* Every step keeps the issued identifiers increasing and below the next one.
LEMMA IssuedStep == TypeOK /\ IssuedBelowNext /\ [Next]_vars => IssuedBelowNext'
<1> SUFFICES ASSUME TypeOK, IssuedBelowNext, [Next]_vars, ~ poison'
             PROVE  IssuedBelowNext'
  BY DEF IssuedBelowNext
<1> USE ConstantsAssumption DEF ConstantsAssumption
<1>1. CASE UNCHANGED <<nextId, issued>> /\ (poison => poison')
  BY <1>1 DEF IssuedBelowNext
<1>2. CASE nextId' = 2 /\ issued' = <<>>
  BY <1>2 DEF IssuedBelowNext
<1>3. ASSUME NEW body \in BridgeRequests, BridgeCall(body)
      PROVE  IssuedBelowNext'
  <2>1. ~ poison /\ nextId \in 1..MaxId /\ nextId % 2 = 0
    BY <1>3 DEF BridgeCall, ValidMessage, UsesEvenRequestId, bridgeVars
  <2>2. nextId' = nextId + 2
    BY <1>3, <2>1 DEF BridgeCall, TakeId, IdSpace
  <2>3. issued \in Seq(Nat) /\ issued' = Append(issued, nextId) /\ nextId \in Nat
    BY <1>3, <2>1 DEF BridgeCall, TypeOK
  <2>4. Len(issued') = Len(issued) + 1 /\ Len(issued) \in Nat
    BY <2>3
  <2>5. \A i \in 1..Len(issued') :
           issued'[i] = IF i <= Len(issued) THEN issued[i] ELSE nextId
    BY <2>3
  <2>6. \A i \in 1..Len(issued) : issued[i] \in Nat
    BY <2>3
  <2>7. nextId' >= 2 /\ nextId' <= MaxId + 2 /\ nextId' % 2 = 0
    BY <2>1, <2>2
  <2>8. /\ \A i \in 1..Len(issued') : issued'[i] < nextId'
        /\ \A i \in 1..Len(issued') : issued'[i] \in 1..MaxId /\ issued'[i] % 2 = 0
        /\ \A i, j \in 1..Len(issued') : i < j => issued'[i] < issued'[j]
    BY <2>1, <2>2, <2>4, <2>5, <2>6 DEF IssuedBelowNext
  <2> QED BY <2>7, <2>8 DEF IssuedBelowNext
<1> QED BY <1>1, <1>2, <1>3, IdentifierSteps

-----------------------------------------------------------------------------
\* Nothing has been exchanged initially.
LEMMA AccountedInit == Init => FramesAccounted
BY DEF Init, FramesAccounted, Outstanding, NoCallback

\* Every step keeps the accounts of frames, commands and callbacks balanced.
LEMMA AccountedStep ==
    TypeOK /\ ThreadDiscipline /\ FramesAccounted /\ [Next]_vars => FramesAccounted'
<1> SUFFICES ASSUME TypeOK, ThreadDiscipline, FramesAccounted, [Next]_vars,
                    exit' = "running", ~ poison'
             PROVE  FramesAccounted'
  BY DEF FramesAccounted
<1> USE DEF TypeOK, FramesAccounted, Outstanding, parentVars, closing, traceVars, bridgeVars
<1>1. CASE UNCHANGED <<consumed, accepted, replied, asked, request, callback>>
           /\ (exit = "running" \/ pc = "exited") /\ (poison => poison')
           /\ (exit # "running" => exit' = exit)
  BY <1>1
<1>2. CASE Parent
  BY <1>2, <1>1 DEF Parent, ParentWrite, ParentCloseInput, ParentCloseOutput, ParentRead, ThreadDiscipline
<1>3. CASE LockReader
  BY <1>3 DEF LockReader
<1>4. CASE ReadUnusable
  BY <1>4 DEF ReadUnusable, Exit
<1>5. CASE ReadCommand
  <2>1. request' # NoRequest /\ request = NoRequest
    BY <1>5 DEF ReadCommand, NoRequest, ThreadDiscipline
  <2> QED BY <1>5, <2>1 DEF ReadCommand
<1>6. CASE Handle
  BY <1>6 DEF Handle, HandleHello, HandleLoad, HandleEnable, HandleInvoke, HandleDisable,
              HandleShutdown, HandleMisdirected, handleUnchanged
<1>7. CASE FinishPoisoned
  BY <1>7 DEF FinishPoisoned, Exit
<1>8. CASE FinishFailed
  BY <1>8 DEF FinishFailed, Exit
<1>9. CASE FinishReply
  BY <1>9 DEF FinishReply, finishUnchanged, Exit, ThreadDiscipline
<1>10. CASE ReadEof
  BY <1>10 DEF ReadEof, cleanupUnchanged
<1>11. CASE Cleanup
  BY <1>11 DEF Cleanup, cleanupUnchanged, Exit
<1>12. CASE GuestReturn
  BY <1>12 DEF GuestReturn, GuestSucceeds, GuestFails, CleanupGuestReturns, guestUnchanged, Exit
<1>13. ASSUME NEW body \in BridgeRequests, BridgeCallFails(body) PROVE FramesAccounted'
  BY <1>13 DEF BridgeCallFails
<1>14. ASSUME NEW body \in BridgeRequests, BridgeCall(body) PROVE FramesAccounted'
  <2>1. callback' # NoCallback /\ callback = NoCallback
    BY <1>14 DEF BridgeCall, NoCallback, NoRequest, BridgeRequests, ThreadDiscipline
  <2> QED BY <1>14, <2>1 DEF BridgeCall, bridgeUnchanged, NoCallback
<1>15. CASE BridgeLockReader
  BY <1>15 DEF BridgeLockReader, bridgeUnchanged
<1>16. CASE BridgeReceive
  BY <1>16 DEF BridgeReceive, bridgeUnchanged, ThreadDiscipline, NoCallback
<1>17. CASE BridgeEof
  BY <1>17 DEF BridgeEof
<1>18. CASE UNCHANGED vars
  BY <1>18 DEF vars
<1>19. CASE BridgeWrite
  BY <1>19 DEF BridgeWrite
<1>20. CASE BridgeWriteFails
  BY <1>20 DEF BridgeWriteFails
<1> QED
  BY <1>2, <1>3, <1>4, <1>5, <1>6, <1>7, <1>8, <1>9, <1>10, <1>11, <1>12, <1>13, <1>14, <1>15,
     <1>16, <1>17, <1>18, <1>19, <1>20 DEF Next, Serve, Guest, Bridge

-----------------------------------------------------------------------------
\* A Shutdown that succeeded has already closed the server, and a poisoned
\* server that ended cleanly ended because its input had.
EndsWell ==
    /\ handled = "ok" /\ request.body = "Shutdown" => state = "Closed"
    /\ poison /\ exit = "ok" => inClosed

\* Nothing has ended initially.
LEMMA EndInit == Init => EndsWell /\ CleanExitReleases
BY DEF Init, EndsWell, CleanExitReleases

\* Every step keeps a clean exit one that released everything.
LEMMA EndStep ==
    /\ TypeOK /\ ThreadDiscipline /\ EngineMatchesState /\ EngineMatchesState'
    /\ EndsWell /\ CleanExitReleases /\ [Next]_vars
    => EndsWell' /\ CleanExitReleases'
<1> SUFFICES ASSUME TypeOK, ThreadDiscipline, EngineMatchesState, EngineMatchesState',
                    EndsWell, CleanExitReleases, [Next]_vars
             PROVE  EndsWell' /\ CleanExitReleases'
  OBVIOUS
<1> USE DEF TypeOK, ThreadDiscipline, EndsWell, CleanExitReleases, NeedsDisable, NeedsUnload,
            parentVars, closing, traceVars, bridgeVars
<1>1. CASE Parent
  BY <1>1 DEF Parent, ParentWrite, ParentCloseInput, ParentCloseOutput, ParentRead
<1>2. CASE Handle
  <2> USE DEF handleUnchanged, Handling, Result, EnterGuest, Refuse
  <2>1. CASE HandleLoad
    BY <2>1 DEF HandleLoad
  <2>2. CASE HandleHello
    BY <2>2 DEF HandleHello
  <2> QED
    BY <1>2, <2>1, <2>2 DEF Handle, HandleEnable, HandleInvoke, HandleDisable, HandleShutdown,
                            HandleMisdirected
<1>3. CASE Serve /\ ~ Handle /\ ~ Cleanup /\ ~ FinishReply
  BY <1>3 DEF Serve, LockReader, ReadUnusable, ReadCommand, FinishPoisoned, FinishFailed,
              finishUnchanged, ReadEof, cleanupUnchanged, EnterGuest, Exit
<1>4. CASE FinishReply
  BY <1>4 DEF FinishReply, Healthy, finishUnchanged, Exit, EngineMatchesState
<1>5. CASE Cleanup
  BY <1>5 DEF Cleanup, cleanupUnchanged, EnterGuest, Exit, EngineMatchesState
<1>6. CASE GuestReturn
  <2> USE DEF guestUnchanged, Result, Exit
  <2>1. CASE GuestSucceeds
    BY <2>1 DEF GuestSucceeds, Successor, Asking, GuestFunctions
  <2>2. CASE GuestFails
    BY <2>2 DEF GuestFails
  <2>3. CASE CleanupGuestReturns
    BY <2>3 DEF CleanupGuestReturns, EngineMatchesState
  <2> QED BY <1>6, <2>1, <2>2, <2>3 DEF GuestReturn
<1>7. CASE Bridge \/ \E body \in BridgeRequests : BridgeCall(body) \/ BridgeCallFails(body)
  BY <1>7 DEF Bridge, BridgeCallFails, BridgeCall, BridgeWrite, BridgeWriteFails, BridgeLockReader, BridgeReceive, BridgeEof,
              bridgeUnchanged
<1>8. CASE UNCHANGED vars
  BY <1>8 DEF vars
<1> QED BY <1>1, <1>2, <1>3, <1>4, <1>5, <1>6, <1>7, <1>8 DEF Next, Guest

-----------------------------------------------------------------------------
\* The inductive invariant.
IInv ==
    /\ TypeOK
    /\ ThreadDiscipline
    /\ EngineMatchesState
    /\ IssuedBelowNext
    /\ FramesAccounted
    /\ EndsWell
    /\ CleanExitReleases

\* Every behaviour satisfies the inductive invariant.
LEMMA Invariant == Spec => []IInv
<1>1. Init => IInv
  BY TypeInit, DisciplineInit, EngineInit, IssuedInit, AccountedInit, EndInit DEF IInv
<1>2. IInv /\ [Next]_vars => IInv'
  BY TypeStep, DisciplineStep, EngineStep, IssuedStep, AccountedStep, EndStep DEF IInv
<1> QED BY <1>1, <1>2, PTL DEF Spec

\* ProcessServer::serve and ProcessBridge::call: the one thread never waits for the
\* reader lock it holds, and runs the lifecycle function its command asks for.
THEOREM Disciplined == Spec => []ThreadDiscipline
<1>1. IInv => ThreadDiscipline
  BY DEF IInv
<1> QED BY <1>1, Invariant, PTL

\* server.rs and guest_engine.rs: the lifecycle of the server and the payload in
\* the engine agree across every failure of a lifecycle function.
THEOREM EngineAgrees == Spec => []EngineMatchesState
<1>1. IInv => EngineMatchesState
  BY DEF IInv
<1> QED BY <1>1, Invariant, PTL

\* ProcessBridge::call: callback identifiers are never reused within a Bridge
\* whatever the width of the counter, unless the server is poisoned.
THEOREM IdsFresh == Spec => []CallbackIdsFresh
<1>1. IInv => CallbackIdsFresh
  BY DEF IInv, IssuedBelowNext, CallbackIdsFresh
<1> QED BY <1>1, Invariant, PTL

\* ProcessServer::serve and ProcessBridge::call share one input: no frame is lost
\* between them unless the server is poisoned or gone.
THEOREM NoFrameLost == Spec => []FramesAccounted
<1>1. IInv => FramesAccounted
  BY DEF IInv
<1> QED BY <1>1, Invariant, PTL

\* ProcessServer::serve: returning Ok means Closed and everything released.
THEOREM CleanExit == Spec => []CleanExitReleases
<1>1. IInv => CleanExitReleases
  BY DEF IInv
<1> QED BY <1>1, Invariant, PTL

\* ProcessServer::serve: a poisoned server takes and answers no more commands
\* and stays poisoned.
THEOREM PoisonIsFinal == Spec => PoisonSilences
<1>1. IInv /\ IInv' /\ [Next]_vars =>
        [poison => /\ poison'
                   /\ accepted' = accepted
                   /\ replied' = replied
                   /\ exit' = "ok" => inClosed]_vars
  <2> SUFFICES ASSUME IInv, IInv', Next, poison
               PROVE  /\ poison'
                      /\ accepted' = accepted
                      /\ replied' = replied
                      /\ exit' = "ok" => inClosed
    OBVIOUS
  <2> USE DEF IInv, TypeOK, ThreadDiscipline, EndsWell, Healthy, parentVars, closing, traceVars, bridgeVars
  <2>1. CASE Parent
    BY <2>1 DEF Parent, ParentWrite, ParentCloseInput, ParentCloseOutput, ParentRead
  <2>2. CASE Serve
    BY <2>2 DEF Serve, LockReader, ReadUnusable, ReadCommand, Handle, HandleHello, HandleLoad,
                HandleEnable, HandleInvoke, HandleDisable, HandleShutdown, HandleMisdirected,
                Handling, FinishPoisoned, FinishFailed, FinishReply, finishUnchanged, ReadEof,
                Cleanup, cleanupUnchanged, Exit
  <2>3. CASE GuestReturn
    BY <2>3 DEF GuestReturn, GuestSucceeds, GuestFails, CleanupGuestReturns, guestUnchanged, Exit
  <2>4. CASE Bridge \/ \E body \in BridgeRequests : BridgeCall(body) \/ BridgeCallFails(body)
    BY <2>4 DEF Bridge, BridgeCallFails, BridgeCall, BridgeWrite, BridgeWriteFails, BridgeLockReader, BridgeReceive, BridgeEof,
                bridgeUnchanged
  <2> QED BY <2>1, <2>2, <2>3, <2>4 DEF Next, Guest
<1> QED BY <1>1, Invariant, PTL DEF Spec, PoisonSilences

-----------------------------------------------------------------------------
(***************************************************************************)
(* ProcessServer implements HostProtocol and GuestContract.  Both proofs   *)
(* use the inductive invariant and go through the actions: each is one     *)
(* step of the abstract specification, or changes nothing it speaks of.    *)
(***************************************************************************)

(* GuestContract *)

\* The phase of the payload, as Contract maps it.
Phase ==
    IF plugin
    THEN CASE state = "Loaded"   -> "loaded"
           [] state = "Disabled" -> "retired"
           [] OTHER              -> IF pc = "cleanup" THEN "retired" ELSE "enabled"
    ELSE IF state \in {"AwaitHello", "AwaitLoad"} THEN "absent" ELSE "released"

\* The steps of GuestContract, between phases.
GuestEnter == guest = "idle" /\ guest' \in DOMAIN Contract!EntryPhase /\ Phase = Contract!EntryPhase[guest'] /\ Phase' = Phase
GuestUnload == guest = "idle" /\ Phase \in {"loaded", "retired"} /\ guest' = "unload" /\ Phase' = "released"
GuestDone == guest # "idle" /\ Phase' = Contract!ExitPhase[guest] /\ guest' = "idle"
GuestFailed == guest # "idle" /\ guest' = "idle" /\ Phase' = Phase
GuestRetired == guest = "disable" /\ guest' = "idle" /\ Phase' = "retired"
GuestDiscarded == guest = "idle" /\ Phase = "absent" /\ Phase' = "released" /\ guest' = guest
GuestSame == Phase' = Phase /\ guest' = guest

ContractStep ==
    GuestEnter \/ GuestUnload \/ GuestDone \/ GuestFailed \/ GuestRetired \/ GuestDiscarded \/ GuestSame

\* Every step of the Host is a step of the contract, or none.
LEMMA HostKeepsContract == IInv /\ [Next]_vars => ContractStep
<1> SUFFICES ASSUME IInv, [Next]_vars PROVE ContractStep
  OBVIOUS
<1>0. TypeOK /\ ThreadDiscipline /\ EngineMatchesState
  BY DEF IInv
<1> USE <1>0 DEF TypeOK, ThreadDiscipline, EngineMatchesState, LifecycleState, Phase
<1>1. CASE Parent
  BY <1>1 DEF Parent, ParentWrite, ParentCloseInput, ParentCloseOutput, ParentRead, GuestSame, ContractStep
<1>2. CASE LockReader \/ ReadUnusable \/ ReadCommand
  BY <1>2 DEF LockReader, ReadUnusable, ReadCommand, Exit, GuestSame, ContractStep
<1>3. CASE Handle
  <2> USE DEF handleUnchanged, Handling, Result, EnterGuest, Refuse
  <2>1. CASE HandleHello
    <3>1. GuestSame
      BY <2>1 DEF HandleHello, GuestSame
    <3>2. QED
      BY <3>1 DEF ContractStep
  <2>2. CASE HandleLoad
    <3>1. GuestSame \/ GuestEnter
      BY <2>2 DEF HandleLoad, GuestSame, GuestEnter, Contract!EntryPhase
    <3>2. QED
      BY <3>1 DEF ContractStep
  <2>3. CASE HandleEnable
    <3>1. GuestSame \/ GuestEnter
      BY <2>3 DEF HandleEnable, GuestSame, GuestEnter, Contract!EntryPhase
    <3>2. QED
      BY <3>1 DEF ContractStep
  <2>4. CASE HandleInvoke
    <3>1. GuestSame \/ GuestEnter
      BY <2>4 DEF HandleInvoke, GuestSame, GuestEnter, Contract!EntryPhase
    <3>2. QED
      BY <3>1 DEF ContractStep
  <2>5. CASE HandleDisable
    <3>1. GuestSame \/ GuestEnter
      BY <2>5 DEF HandleDisable, GuestSame, GuestEnter, Contract!EntryPhase
    <3>2. QED
      BY <3>1 DEF ContractStep
  <2>6. CASE HandleShutdown
    <3>1. GuestSame \/ GuestUnload
      BY <2>6 DEF HandleShutdown, MayShutdown, GuestSame, GuestUnload
    <3>2. QED
      BY <3>1 DEF ContractStep
  <2>7. CASE HandleMisdirected
    <3>1. GuestSame
      BY <2>7 DEF HandleMisdirected, GuestSame
    <3>2. QED
      BY <3>1 DEF ContractStep
  <2> QED
    BY <1>3, <2>1, <2>2, <2>3, <2>4, <2>5, <2>6, <2>7 DEF Handle
<1>4. CASE FinishPoisoned \/ FinishFailed \/ FinishReply
  BY <1>4 DEF FinishPoisoned, FinishFailed, FinishReply, Healthy, finishUnchanged, Exit, GuestSame, ContractStep
<1>5. CASE ReadEof
  <2>1. GuestSame \/ GuestEnter
    BY <1>5 DEF ReadEof, NeedsDisable, EnterGuest, cleanupUnchanged, GuestSame, GuestEnter, Contract!EntryPhase
  <2>2. QED
    BY <2>1 DEF ContractStep
<1>6. CASE Cleanup
  <2>1. GuestSame \/ GuestUnload \/ GuestDiscarded
    BY <1>6 DEF Cleanup, NeedsUnload, EnterGuest, Exit, cleanupUnchanged, GuestSame, GuestUnload, GuestDiscarded
  <2>2. QED
    BY <2>1 DEF ContractStep
<1>7. CASE GuestSucceeds
  <2>1. /\ pc' = "finishing" /\ guest' = "idle"
        /\ state' = Successor[guest]
        /\ guest = "load" \/ plugin => plugin'
        /\ ~ plugin /\ guest # "load" => ~ plugin'
    BY <1>7 DEF GuestSucceeds, Result, guestUnchanged
  <2>2. guest \in GuestFunctions /\ request # NoRequest
    BY <1>7 DEF GuestSucceeds
  <2>3. ASSUME guest = "load" PROVE GuestDone
    BY <2>1, <2>3 DEF Successor, GuestDone, Contract!ExitPhase
  <2>4. ASSUME guest = "enable" PROVE GuestDone
    BY <2>1, <2>4 DEF Successor, GuestDone, Contract!ExitPhase
  <2>5. ASSUME guest = "invoke" PROVE GuestDone
    BY <2>1, <2>5 DEF Successor, GuestDone, Contract!ExitPhase
  <2>6. ASSUME guest = "disable" PROVE GuestDone
    BY <2>1, <2>6 DEF Successor, GuestDone, Contract!ExitPhase
  <2>7. ASSUME guest = "unload" PROVE GuestDone
    BY <2>1, <2>7 DEF Successor, GuestDone, Contract!ExitPhase
  <2>8. QED
    BY <2>2, <2>3, <2>4, <2>5, <2>6, <2>7 DEF GuestFunctions, ContractStep
<1>8. CASE GuestFails
  <2>1. GuestFailed
    BY <1>8 DEF GuestFails, Result, guestUnchanged, GuestFailed
  <2>2. QED
    BY <2>1 DEF ContractStep
<1>9. CASE CleanupGuestReturns
  <2>1. GuestRetired \/ GuestFailed
    BY <1>9 DEF CleanupGuestReturns, Exit, GuestRetired, GuestFailed
  <2>2. QED
    BY <2>1 DEF ContractStep
<1>10. CASE Bridge \/ \E body \in BridgeRequests : BridgeCall(body) \/ BridgeCallFails(body)
  BY <1>10 DEF Bridge, BridgeCallFails, BridgeCall, BridgeWrite, BridgeWriteFails, BridgeLockReader, BridgeReceive, BridgeEof,
               bridgeUnchanged, GuestSame, ContractStep
<1>11. CASE UNCHANGED vars
  BY <1>11 DEF vars, bridgeVars, parentVars, closing, traceVars, GuestSame, ContractStep
<1> QED
  BY <1>1, <1>2, <1>3, <1>4, <1>5, <1>6, <1>7, <1>8, <1>9, <1>10, <1>11 DEF Next, Serve, Guest, GuestReturn

(* The payload's functions are called as GuestContract says, whatever the  *)
(* driving process sends and whatever fails: one at a time, invoke only    *)
(* while enabled, unload at most once.                                     *)
THEOREM GuestContractHolds == Spec => ImplementsGuestContract
<1>1. Init => Contract!Init
  BY DEF Init, Contract!Init
<1>2. ContractStep => [Contract!Next]_(Contract!guestVars)
  BY DEF ContractStep, GuestEnter, GuestUnload, GuestDone, GuestFailed, GuestRetired, GuestDiscarded, GuestSame,
         Phase, Contract!Next, Contract!Enter, Contract!EnterUnload, Contract!Succeed, Contract!Fail,
         Contract!FailDisableForGood, Contract!Discard, Contract!guestVars
<1> QED
  BY <1>1, <1>2, HostKeepsContract, Invariant, PTL DEF Spec, ImplementsGuestContract, Contract!Spec

-----------------------------------------------------------------------------
(* HostProtocol *)

\* Only frames of the driving process are waiting, and the command in hand was one.
FramesFromParent ==
    /\ \A i \in 1..Len(input) : input[i] \in ParentFrames
    /\ request # NoRequest => request.body \in Commands \cup ChildReplies

\* A message with an odd identifier is a command or a misdirected response.
LEMMA OddIsCommand ==
    ASSUME NEW frame \in ParentFrames, frame.id % 2 = 1
    PROVE  frame.body \in Commands \cup ChildReplies
<1>1. frame # Malformed
  BY DEF Malformed
<1>2. frame.body \in Bodies /\ ~ UsesEvenRequestId(frame.body)
  BY <1>1, ConstantsAssumption DEF ConstantsAssumption, ParentFrames, ValidMessage
<1> QED
  BY <1>2 DEF Bodies, UsesEvenRequestId

LEMMA FromParentInit == Init => FramesFromParent
  BY DEF Init, FramesFromParent

LEMMA TailFromParent ==
    ASSUME TypeOK, FramesFromParent, input # <<>>
    PROVE  /\ Head(input) \in ParentFrames
           /\ \A i \in 1..Len(Tail(input)) : Tail(input)[i] \in ParentFrames
  BY DEF TypeOK, FramesFromParent

LEMMA FromParentStep == TypeOK /\ FramesFromParent /\ [Next]_vars => FramesFromParent'
<1> SUFFICES ASSUME TypeOK, FramesFromParent, [Next]_vars PROVE FramesFromParent'
  OBVIOUS
<1>1. ASSUME NEW frame \in ParentFrames, ParentWrite(frame) PROVE FramesFromParent'
  <2>1. input \in Seq(Frames) /\ input' = Append(input, frame) /\ request' = request
    BY <1>1 DEF ParentWrite, TypeOK
  <2>2. \A i \in 1..Len(input') : input'[i] \in ParentFrames
    BY <2>1 DEF FramesFromParent
  <2> QED
    BY <2>1, <2>2 DEF FramesFromParent
<1>2. CASE ReadCommand
  <2>1. request' = Head(input) /\ input' = Tail(input) /\ Head(input).id % 2 = 1 /\ input # <<>>
    BY <1>2 DEF ReadCommand
  <2> QED
    BY <2>1, TailFromParent, OddIsCommand DEF FramesFromParent
<1>3. CASE ReadUnusable
  BY <1>3, TailFromParent DEF ReadUnusable, Exit, FramesFromParent
<1>4. CASE BridgeReceive
  BY <1>4, TailFromParent DEF BridgeReceive, bridgeUnchanged, FramesFromParent
<1>5. ASSUME input' = input, request' = request \/ request' = NoRequest PROVE FramesFromParent'
  BY <1>5 DEF FramesFromParent
<1>6. CASE ParentCloseInput \/ ParentCloseOutput \/ ParentRead
  BY <1>5, <1>6 DEF ParentCloseInput, ParentCloseOutput, ParentRead
<1>7. CASE LockReader
  BY <1>5, <1>7 DEF LockReader
<1>8. CASE Handle
  BY <1>5, <1>8 DEF Handle, HandleHello, HandleLoad, HandleEnable, HandleInvoke, HandleDisable, HandleShutdown,
                    HandleMisdirected, handleUnchanged
<1>9. CASE FinishPoisoned \/ FinishFailed \/ FinishReply
  BY <1>5, <1>9 DEF FinishPoisoned, FinishFailed, FinishReply, finishUnchanged, Exit
<1>10. CASE ReadEof \/ Cleanup
  BY <1>5, <1>10 DEF ReadEof, Cleanup, cleanupUnchanged, Exit
<1>11. CASE GuestReturn
  BY <1>5, <1>11 DEF GuestReturn, GuestSucceeds, GuestFails, CleanupGuestReturns, guestUnchanged, Exit
<1>12. ASSUME NEW body \in BridgeRequests, BridgeCall(body) \/ BridgeCallFails(body) PROVE FramesFromParent'
  BY <1>5, <1>12 DEF BridgeCall, BridgeCallFails, bridgeUnchanged
<1>13. CASE BridgeWrite \/ BridgeWriteFails \/ BridgeLockReader \/ BridgeEof
  BY <1>5, <1>13 DEF BridgeWrite, BridgeWriteFails, BridgeLockReader, BridgeEof, bridgeUnchanged
<1>14. CASE UNCHANGED vars
  BY <1>5, <1>14 DEF vars
<1> QED
  BY <1>1, <1>2, <1>3, <1>4, <1>6, <1>7, <1>8, <1>9, <1>10, <1>11, <1>12, <1>13, <1>14
     DEF Next, Parent, Serve, Guest, Bridge

\* What became of the command, as Lifecycle maps it.
Verdict ==
    CASE handled = "none"  -> "None"
      [] handled = "ok"    -> "done"
      [] handled = "error" -> "refused"
      [] OTHER             -> "broken"

\* The steps of HostProtocol.
HostAccepts ==
    /\ exit = "running" /\ request.body = "None" /\ request'.body \in Commands \cup ChildReplies
    /\ state' = state /\ Verdict' = Verdict /\ exit' = "running"
HostPerforms ==
    /\ request.body \in Commands /\ Verdict = "None" /\ state \in Lifecycle!From(request.body)
    /\ state' = Lifecycle!To(request.body) /\ Verdict' = "done"
    /\ request' = request /\ exit' = exit
HostRefuses ==
    /\ request.body \in Commands /\ Verdict = "None" /\ Verdict' = "refused"
    /\ state' = state /\ request' = request /\ exit' = exit
HostBreaks ==
    /\ request.body # "None" /\ Verdict = "None" /\ Verdict' = "broken"
    /\ state' = state /\ request' = request /\ exit' = exit
HostAnswers ==
    /\ Verdict \in {"done", "refused"}
    /\ exit' # "running" <=> request.body = "Shutdown" /\ Verdict = "done"
    /\ request'.body = "None" /\ Verdict' = "None" /\ state' = state
HostCloses ==
    /\ exit = "running" /\ request.body = "None"
    /\ exit' # "running" /\ state' = "Closed" /\ request' = request /\ Verdict' = Verdict
HostGivesUp ==
    /\ exit = "running" /\ exit' # "running"
    /\ request'.body = "None" /\ Verdict' = "None" /\ state' = state
HostSame == state' = state /\ request' = request /\ handled' = handled /\ exit' = exit

ProtocolStep ==
    \/ HostAccepts \/ HostPerforms \/ HostRefuses \/ HostBreaks \/ HostAnswers \/ HostCloses \/ HostGivesUp
    \/ HostSame

\* Every step of the Host is a step of the protocol, or none.
LEMMA HostKeepsProtocol == IInv /\ FramesFromParent /\ [Next]_vars => ProtocolStep
<1> SUFFICES ASSUME IInv, FramesFromParent, [Next]_vars PROVE ProtocolStep
  OBVIOUS
<1>0. TypeOK /\ ThreadDiscipline /\ EngineMatchesState
  BY DEF IInv
<1> USE <1>0 DEF TypeOK, ThreadDiscipline, EngineMatchesState, LifecycleState, Verdict, NoRequest
<1>1. CASE Parent
  BY <1>1 DEF Parent, ParentWrite, ParentCloseInput, ParentCloseOutput, ParentRead, HostSame, ProtocolStep
<1>2. CASE LockReader
  BY <1>2 DEF LockReader, HostSame, ProtocolStep
<1>3. CASE ReadUnusable
  <2>1. HostGivesUp
    BY <1>3 DEF ReadUnusable, Exit, HostGivesUp
  <2> QED
    BY <2>1 DEF ProtocolStep
<1>4. CASE ReadCommand
  <2>1. Head(input).body \in Commands \cup ChildReplies
    BY <1>4, TailFromParent, OddIsCommand DEF ReadCommand
  <2>2. HostAccepts
    BY <1>4, <2>1 DEF ReadCommand, HostAccepts
  <2> QED
    BY <2>2 DEF ProtocolStep
<1>5. CASE Handle
  <2> USE DEF handleUnchanged, Handling, Result, EnterGuest, Refuse
  <2>1. CASE HandleHello
    <3>1. HostRefuses \/ HostPerforms
      BY <2>1 DEF HandleHello, HostRefuses, HostPerforms, Commands, Lifecycle!From, Lifecycle!To
    <3> QED
      BY <3>1 DEF ProtocolStep
  <2>2. CASE HandleLoad
    <3>1. \A codeLength, length : ErrorBody(codeLength, length) \in {"error", "unwritable"}
      BY DEF ErrorBody
    <3>2. HostRefuses \/ HostBreaks \/ HostSame
      BY <2>2, <3>1 DEF HandleLoad, HostRefuses, HostBreaks, HostSame, Commands
    <3> QED
      BY <3>2 DEF ProtocolStep
  <2>3. CASE HandleEnable \/ HandleInvoke \/ HandleDisable \/ HandleShutdown
    <3>1. HostRefuses \/ HostSame
      BY <2>3 DEF HandleEnable, HandleInvoke, HandleDisable, HandleShutdown, HostRefuses, HostSame, Commands
    <3> QED
      BY <3>1 DEF ProtocolStep
  <2>4. CASE HandleMisdirected
    <3>1. HostBreaks
      BY <2>4 DEF HandleMisdirected, HostBreaks, ChildReplies
    <3> QED
      BY <3>1 DEF ProtocolStep
  <2> QED
    BY <1>5, <2>1, <2>2, <2>3, <2>4 DEF Handle
<1>6. CASE FinishPoisoned \/ FinishFailed
  <2>1. HostGivesUp
    BY <1>6 DEF FinishPoisoned, FinishFailed, Healthy, finishUnchanged, Exit, HostGivesUp
  <2> QED
    BY <2>1 DEF ProtocolStep
<1>7. CASE FinishReply
  <2>1. HostAnswers
    BY <1>7 DEF FinishReply, Healthy, finishUnchanged, Exit, HostAnswers
  <2> QED
    BY <2>1 DEF ProtocolStep
<1>8. CASE ReadEof
  BY <1>8 DEF ReadEof, EnterGuest, cleanupUnchanged, HostSame, ProtocolStep
<1>9. CASE Cleanup
  <2>1. HostCloses \/ HostSame
    BY <1>9 DEF Cleanup, EnterGuest, Exit, cleanupUnchanged, HostCloses, HostSame
  <2> QED
    BY <2>1 DEF ProtocolStep
<1>10. CASE GuestSucceeds
  <2>1. HostPerforms \/ HostBreaks
    BY <1>10 DEF GuestSucceeds, Result, Successor, Asking, GuestFunctions, guestUnchanged, HostPerforms, HostBreaks,
                 Commands, Lifecycle!From, Lifecycle!To
  <2> QED
    BY <2>1 DEF ProtocolStep
<1>11. CASE GuestFails
  <2>1. HostRefuses \/ HostBreaks
    BY <1>11 DEF GuestFails, Result, Asking, GuestFunctions, guestUnchanged, HostRefuses, HostBreaks, Commands
  <2> QED
    BY <2>1 DEF ProtocolStep
<1>12. CASE CleanupGuestReturns
  <2>1. HostSame \/ HostCloses
    BY <1>12 DEF CleanupGuestReturns, Exit, HostSame, HostCloses
  <2> QED
    BY <2>1 DEF ProtocolStep
<1>13. CASE Bridge \/ \E body \in BridgeRequests : BridgeCall(body) \/ BridgeCallFails(body)
  BY <1>13 DEF Bridge, BridgeCallFails, BridgeCall, BridgeWrite, BridgeWriteFails, BridgeLockReader, BridgeReceive, BridgeEof,
               bridgeUnchanged, HostSame, ProtocolStep
<1>14. CASE UNCHANGED vars
  BY <1>14 DEF vars, HostSame, ProtocolStep
<1> QED
  BY <1>1, <1>2, <1>3, <1>4, <1>5, <1>6, <1>7, <1>8, <1>9, <1>10, <1>11, <1>12, <1>13, <1>14
     DEF Next, Serve, Guest, GuestReturn

(* The Host does what HostProtocol says, whatever the driving process      *)
(* sends, the payload does and fails: one command at a time, each along    *)
(* its one edge or refused in place, and answered only after that.         *)
THEOREM HostProtocolHolds == Spec => ImplementsHostProtocol
<1>1. Init => Lifecycle!Init
  BY DEF Init, NoRequest, Lifecycle!Init
<1>2. ProtocolStep => [Lifecycle!Next]_(Lifecycle!hostVars)
  BY DEF ProtocolStep, HostAccepts, HostPerforms, HostRefuses, HostBreaks, HostAnswers, HostCloses, HostGivesUp,
         HostSame, Verdict, Commands, ChildReplies, Lifecycle!Next, Lifecycle!Accept, Lifecycle!Perform,
         Lifecycle!Refuse, Lifecycle!Break, Lifecycle!Answer, Lifecycle!Close, Lifecycle!GiveUp, Lifecycle!hostVars,
         Lifecycle!Commands, Lifecycle!Misdirected
<1>3. IInv => TypeOK
  BY DEF IInv
<1> QED
  BY <1>1, <1>2, <1>3, HostKeepsProtocol, FromParentInit, FromParentStep, Invariant, PTL
     DEF Spec, ImplementsHostProtocol, Lifecycle!Spec
=============================================================================
