------------------------------ MODULE MCParts -------------------------------
(***************************************************************************)
(* Five small parts of the library that have nothing to do with each       *)
(* other: the lists of ConnectionsManager and of Timer, the path tree, the *)
(* command line, and the signals.  In a behaviour one of them moves and    *)
(* the others stay in their initial states.                                *)
(***************************************************************************)
EXTENDS Naturals, Sequences, FiniteSets

CONSTANTS Data, Timers, Durations, MaxDue, Null,
          Names, Depth, Targets, None,
          MaxLine, MaxSignal, Chunk, Long,
          Objects, Types, Threads, MaxSignals, Nobody

VARIABLES
  part,
  newInfos, oldInfos, infoBefore, infoNext, deleting,
  timeouts, links, nextTimeout,
  nodes, at,
  typed, begun, input, buffer, failed, processed, stopfd, set, th, closing, signals,
  lists, installed, alive, doing, handling, mut, count, fate

Infos == INSTANCE InfoLists WITH before <- infoBefore, next <- infoNext
Timer == INSTANCE TimerList
Tree == INSTANCE PathTree
Command == INSTANCE CommandLine
Signal == INSTANCE Signals

infoVars == <<newInfos, oldInfos, infoBefore, infoNext, deleting>>
timerVars == <<timeouts, links, nextTimeout>>
treeVars == <<nodes, at>>
commandVars == <<typed, begun, input, buffer, failed, processed, stopfd, set, th,
                 closing, signals>>
signalVars == <<lists, installed, alive, doing, handling, mut, count, fate>>
vars == <<part, infoVars, timerVars, treeVars, commandVars, signalVars>>

ASSUME PartsAssumption ==
  /\ Infos!InfoListsAssumption
  /\ Timer!TimerListAssumption
  /\ Tree!PathTreeAssumption

Init ==
  /\ part \in {"infos", "timer", "tree", "command", "signal"}
  /\ Infos!Init /\ Timer!Init /\ Tree!Init /\ Command!Init
  /\ Signal!Init

Next ==
  /\ UNCHANGED part
  /\ \/ part = "infos" /\ Infos!Next
        /\ UNCHANGED <<timerVars, treeVars, commandVars, signalVars>>
     \/ part = "timer" /\ Timer!Next
        /\ UNCHANGED <<infoVars, treeVars, commandVars, signalVars>>
     \/ part = "tree" /\ Tree!Next
        /\ UNCHANGED <<infoVars, timerVars, commandVars, signalVars>>
     \/ part = "command" /\ Command!Next
        /\ UNCHANGED <<infoVars, timerVars, treeVars, signalVars>>
     \/ part = "signal" /\ Signal!Next
        /\ UNCHANGED <<infoVars, timerVars, treeVars, commandVars>>

(* The threads of the command line and of the signals go on when they can. *)
Spec == Init /\ [][Next]_vars /\ Command!Fairness /\ Signal!Fairness

-----------------------------------------------------------------------------
(* InfoLists does what IdleTable says, and its links agree with each other. *)
ImplementsIdleTable == []Infos!LinksAgree /\ Infos!ImplementsIdleTable

(* TimerList does what TimerQueue says, and its links agree, too. *)
ImplementsTimerQueue == []Timer!LinksAgree /\ Timer!ImplementsTimerQueue

(* PathTree does what PathRegistry says. *)
ImplementsRegistry == Tree!ImplementsRegistry

(* Close, which waits for the reader, returns, and while the reader runs   *)
(* each line that is typed is processed, in order.                         *)
CommandLineServes == Command!CloseReturns /\ Command!LineIsProcessed

(* Every Signal is called by the signals of its type.                      *)
SignalsReachTargets == Signal!SignalsReachTargets
=============================================================================
