---------------------------- MODULE CommandLine -----------------------------
(***************************************************************************)
(* System/Commandline/CommandManager.cpp: one thread reads standard input  *)
(* by lines and looks the commands up in a tree, until Close writes to an  *)
(* event descriptor.  Lines are numbered in the order they are typed.      *)
(***************************************************************************)
EXTENDS Naturals, Sequences

CONSTANTS
  MaxLine,   \* bound: the lines typed
  MaxSignal, \* bound: the signals that interrupt select
  Chunk,     \* bound: the lines one read(2) returns; 1 for a terminal, and
             \* more for a pipe, which also takes lines in pieces
  Long       \* the numbers of lines with 1000 characters or more

VARIABLES
  typed,     \* how many lines have been typed
  begun,     \* the beginning of the next line: "no", in the descriptor 0
             \* ("input"), or read from it ("read")
  input,     \* those in the descriptor 0
  buffer,    \* those std::cin has read ahead
  failed,    \* std::cin's failbit
  processed, \* the lines given to ProcessCommand
  stopfd,    \* has Close written to it?
  set,       \* what select left in its set
  th,        \* the thread: "none", or where it is in Read
  closing,   \* is Close at th.join()?
  signals    \* how many signals there were

vars == <<typed, begun, input, buffer, failed, processed, stopfd, set, th,
          closing, signals>>
user == <<typed, signals>>
read == <<begun, input, buffer, failed, processed>>

Initialize ==
  /\ th = "none"
  /\ th' = "select"
  /\ UNCHANGED <<user, read, stopfd, set, closing>>

(* Mutant of Watched: nfds is stopfd, so that one is not looked at. *)
WatchedTooFew == {"input"}

Watched == {"input", "stop"}

Ready == {f \in Watched : IF f = "input" THEN input # <<>> \/ begun = "input"
                                            ELSE stopfd}

Continue(s) ==
  /\ set' = s
  /\ th' = IF "input" \in s THEN "line" ELSE "stop?"

Select ==
  /\ th = "select"
  /\ Ready # {}
  /\ Continue(Ready)
  /\ UNCHANGED <<user, read, stopfd, closing>>

(* EINTR: the result is not tested, and the set is left as it was put in. *)
SelectInterrupted ==
  /\ th = "select"
  /\ signals < MaxSignal
  /\ signals' = signals + 1
  /\ Continue({"input", "stop"})
  /\ UNCHANGED <<typed, read, stopfd, closing>>

(***************************************************************************)
(* read(2): some of the lines that have been typed, and what is begun of   *)
(* the next one if that is all there is.                                   *)
(***************************************************************************)
Refill ==
  {[line |-> input[1], rest |-> SubSeq(input, 2, n),
    left |-> SubSeq(input, n + 1, Len(input)),
    begun |-> IF n = Len(input) /\ n < Chunk /\ begun = "input"
              THEN "read" ELSE begun] :
   n \in {m \in 1..Len(input) : m <= Chunk}}

(* The line cin.getline extracts. *)
Extracted ==
  IF buffer # <<>>
  THEN {[line |-> Head(buffer), rest |-> Tail(buffer), left |-> input,
         begun |-> begun]}
  ELSE Refill

(***************************************************************************)
(* getline waits for a line, puts its beginning in the array and sets      *)
(* failbit if the array is too short; ProcessCommand then finds no command *)
(* in a tree to which nothing is added, and says so.                       *)
(***************************************************************************)
GetLine ==
  /\ th = "line"
  /\ ~failed
  /\ \E x \in Extracted :
       /\ input' = x.left /\ buffer' = x.rest /\ begun' = x.begun
       /\ failed' = (x.line \in Long)
       /\ processed' = Append(processed, x.line)
  /\ th' = "stop?"
  /\ UNCHANGED <<user, stopfd, set, closing>>

(* With failbit set getline stores an empty string and reads nothing. *)
GetNothing ==
  /\ th = "line"
  /\ failed
  /\ th' = "stop?"
  /\ UNCHANGED <<user, read, stopfd, set, closing>>

TestStop ==
  /\ th = "stop?"
  /\ th' = IF "stop" \in set THEN "ended" ELSE "select"
  /\ UNCHANGED <<user, read, stopfd, set, closing>>

(***************************************************************************)
(* Close writes the event, which nothing takes away again: a thread that   *)
(* is started later ends after its first select.  Without a thread join    *)
(* throws, and Close catches it.                                           *)
(***************************************************************************)
Close ==
  /\ ~closing
  /\ stopfd' = TRUE
  /\ closing' = (th # "none")
  /\ UNCHANGED <<user, read, set, th>>

Joined ==
  /\ closing
  /\ th = "ended"
  /\ th' = "none"
  /\ closing' = FALSE
  /\ UNCHANGED <<user, read, stopfd, set>>

(* The beginning of a line, less than getline's array holds, is written. *)
TypeBeginning ==
  /\ Chunk > 1
  /\ typed < MaxLine
  /\ begun = "no"
  /\ begun' = "input"
  /\ UNCHANGED <<user, input, buffer, failed, processed, stopfd, set, th, closing>>

(* A line, or the rest of it. *)
Type ==
  /\ typed < MaxLine
  /\ typed' = typed + 1
  /\ begun' = "no"
  /\ input' = Append(input, typed')
  /\ UNCHANGED <<signals, buffer, failed, processed, stopfd, set, th, closing>>

Init ==
  /\ typed = 0 /\ signals = 0 /\ begun = "no"
  /\ input = <<>> /\ buffer = <<>> /\ processed = <<>>
  /\ failed = FALSE /\ stopfd = FALSE /\ closing = FALSE
  /\ set = {} /\ th = "none"

Reader == Select \/ GetLine \/ GetNothing \/ TestStop

Next == \/ Initialize \/ Reader \/ SelectInterrupted
        \/ Close \/ Joined \/ TypeBeginning \/ Type

(* The thread runs, and so does the one that waits in Close. *)
Fairness == WF_vars(Reader) /\ WF_vars(Joined)

Spec == Init /\ [][Next]_vars
FairSpec == Spec /\ Fairness

-----------------------------------------------------------------------------
(* getline waits for the end of a line that has not been typed. *)
Starving == th = "line" /\ ~failed /\ input = <<>> /\ buffer = <<>>

(***************************************************************************)
(* The thread waits nowhere but in select, where Close can reach it,       *)
(* unless a signal has interrupted a select or a line was begun and not    *)
(* ended; so Close, whose join waits for the thread, returns.              *)
(***************************************************************************)
CloseReturns ==
  /\ [](Starving => signals > 0 \/ begun # "no")
  /\ closing ~> (~closing \/ Starving)

(***************************************************************************)
(* While the reader runs every line that was typed is processed, in the    *)
(* order of typing, unless a line that is too long came before it, or it   *)
(* was read ahead of the last one that select has announced.               *)
(***************************************************************************)
LineIsProcessed ==
  \A n \in 1..MaxLine :
    typed >= n ~> \/ Len(processed) >= n /\ processed[n] = n
                  \/ th \in {"none", "ended"} \/ failed
                  \/ \E i \in 1..Len(buffer) : buffer[i] = n

(***************************************************************************)
(* Close "cleans up the CommandManager".  Violated: it waits for the end   *)
(* of a line of which somebody has written the beginning, or, after a      *)
(* signal, for a whole line.                                               *)
(***************************************************************************)
CloseIsHeard == closing ~> ~closing
=============================================================================
