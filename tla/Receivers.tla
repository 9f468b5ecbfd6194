------------------------------ MODULE Receivers ------------------------------
(***************************************************************************)
(* The intrusive queue with either of the receivers that are built on it:  *)
(* SignaledQueue and AsyncQueue.  The queue and its senders are the same   *)
(* in front of both; in a behaviour one of the two receives.               *)
(***************************************************************************)
EXTENDS IntMpscQueue

CONSTANTS
  NullSenders,   \* the threads that may call nullmsg
  Synchronous    \* requesters wait for an answer before they ask again

ASSUME ReceiversAssumption ==
  NullSenders \subseteq Producers /\ Synchronous \in BOOLEAN

VARIABLES
  spc, nulls,                     \* of the senders
  executed, counter, times, rpc,  \* of SignaledQueue
  answered, sent, active, lpc     \* of AsyncQueue

Signaled == INSTANCE SignaledQueue
Async == INSTANCE AsyncQueue

commands  == <<executed, counter, times, rpc>>
requests  == <<answered, sent, active, lpc>>
receivers == <<vars, spc, nulls, commands, requests>>

\* The owner of the queue polls the eventfd.
SignaledSpec ==
  /\ Signaled!Init /\ Async!Init
  /\ [][Signaled!Next /\ UNCHANGED requests]_receivers
  /\ Signaled!Fairness

\* The event loop owns the queue.
AsyncSpec ==
  /\ Signaled!Init /\ Async!Init
  /\ [][Async!Next /\ UNCHANGED commands]_receivers
  /\ Async!Fairness

-----------------------------------------------------------------------------
(* The properties, each of the module that states it                       *)

(* receive spins only behind a push that has yet to link: SignaledQueue.    *)
SpinsBehindAPush == Signaled!SpinsBehindAPush

(* Commands are executed once each, in the order of their push:             *)
(* SignaledQueue.                                                           *)
CommandsOnceInOrder == Signaled!ExecutedOnceInOrder

(* Null nodes leave no more nodes behind than there are: SignaledQueue.     *)
NullsStrandNoMore == Signaled!NullsStrandNoMore

(* A command that was sent is executed, if there are no null nodes:         *)
(* SignaledQueue.                                                           *)
CommandExecuted == Signaled!CommandExecuted

(* Requests are answered at most once, in the order of their push:          *)
(* AsyncQueue.                                                              *)
RequestsOnceInOrder == Async!ExecutedOnceInOrder

(* Synchronous requesters are not all left without an answer: AsyncQueue.   *)
NotEveryoneStranded == Async!NotEveryoneStranded

=============================================================================
