----------------------------- MODULE Resources ------------------------------
(***************************************************************************)
(* System/Resources: ResourceManager keeps a sorted vector of              *)
(* ResourceHolderPreloaded objects, each with a copy of one file that is   *)
(* compared with the file once in RESOURCE_TIMEOUT seconds.  The files     *)
(* change meanwhile, between any two system calls.                         *)
(*                                                                         *)
(* resourceMutex is held for all of a call, reading the file included: the *)
(* calls come one after another.  (contentMutex, too, is always free.)     *)
(***************************************************************************)
EXTENDS Integers, Sequences, FiniteSets

CONSTANTS
  Names,    \* the names of the files; integers stand for their order
  Versions, \* bound: the contents a file has one after another, 1..Versions
  MaxTime,  \* bound: the clock
  Timeout   \* RESOURCE_TIMEOUT

ASSUME ResourcesAssumption ==
  /\ Names \subseteq Int /\ IsFiniteSet(Names)
  /\ {Versions, MaxTime} \subseteq Nat \ {0}
  /\ Timeout \in 1..MaxTime

VARIABLES
  now,       \* time(0)
  disk,      \* the files: the version, 0 without a file, and its mtime
  resources, \* ResourceManager::resources
  call,      \* the call that is executed
  replaced,  \* auxiliary: when each version of a file ceased to be current
  calm       \* auxiliary: the files that changed calmly and could be opened

history == <<replaced, calm>>
vars == <<now, disk, resources, call, history>>

(* The hash of the empty content; otherwise, versions stand for hashes. *)
NoHash == 0
Torn == -1

-----------------------------------------------------------------------------
(* The bisection of ResourceManager::GetResource *)

(***************************************************************************)
(* The place where the loop ends: of the holder, or (found = FALSE) where  *)
(* it has to be inserted.  Compare is positive if its argument is the      *)
(* greater name, so names ascend; places count from 0.                     *)
(***************************************************************************)
Halved(loop, f, first, last) ==
  IF first + 1 >= last THEN [found |-> FALSE, at |-> last + 1]
  ELSE LET pos == (first + last) \div 2
           name == resources[pos + 1].name
       IN  CASE name < f -> loop[<<pos, last>>]
             [] name > f -> loop[<<first, pos>>]
             [] OTHER -> [found |-> TRUE, at |-> pos + 1]

Bisect(f) ==
  LET n == Len(resources)
      loop[span \in (-1..n) \X (0..n)] == Halved(loop, f, span[1], span[2])
  IN  loop[<<-1, n>>]

NewHolder(f) ==
  [name |-> f, hash |-> NoHash, content |-> NoHash, lastModified |-> 0,
   lastSetup |-> 0]

(* Mutant of Insert: before the place that was found. *)
InsertBefore(s, i, x) ==
  LET k == IF i > 1 THEN i - 1 ELSE i
  IN  SubSeq(s, 1, k - 1) \o <<x>> \o SubSeq(s, k, Len(s))

Insert(s, i, x) == SubSeq(s, 1, i - 1) \o <<x>> \o SubSeq(s, i, Len(s))

Holder == resources[call.at]

(* From now on nothing is said about the file. *)
Trouble(f) ==
  /\ calm' = calm \ {f}
  /\ replaced' = [replaced EXCEPT ![f] = [v \in 1..Versions |-> 0]]

Idle == [pc |-> "idle", at |-> 1, file |-> 0, hash |-> NoHash,
         version |-> 0, since |-> 0]

Goto(from, to) == call.pc = from /\ call' = [call EXCEPT !.pc = to]
Return(from) == call.pc = from /\ call' = Idle

(* GetResource(f, hash): the holder is looked up, or made. *)
GetResource(f, hash) ==
  /\ call.pc = "idle"
  /\ call' = [pc |-> "setup", at |-> Bisect(f).at, file |-> f, hash |-> hash,
              version |-> 0, since |-> now]
  /\ resources' = IF Bisect(f).found THEN resources
                  ELSE Insert(resources, Bisect(f).at, NewHolder(f))
  /\ UNCHANGED <<now, disk, history>>

-----------------------------------------------------------------------------
(* ResourceHolderPreloaded::GetResource *)

(* Mutant of NeedsSetup: the first second after the timeout is missed. *)
NeedsSetupLate == Holder.lastSetup + Timeout < now

NeedsSetup == Holder.lastSetup + Timeout <= now

SkipSetup ==
  /\ Goto("setup", "answer")
  /\ ~NeedsSetup
  /\ UNCHANGED <<now, disk, resources, history>>

(* lastSetup = time(0), and what stat says of the file. *)
StatUnchanged ==
  /\ Goto("setup", "answer")
  /\ NeedsSetup
  /\ disk[call.file].version # 0
  /\ disk[call.file].mtime = Holder.lastModified
  /\ resources' = [resources EXCEPT ![call.at].lastSetup = now]
  /\ UNCHANGED <<now, disk, history>>

StatChanged ==
  /\ call.pc = "setup"
  /\ NeedsSetup
  /\ disk[call.file].version # 0
  /\ disk[call.file].mtime # Holder.lastModified
  /\ call' = [call EXCEPT !.pc = "read", !.version = disk[call.file].version]
  /\ resources' = [resources EXCEPT ![call.at].lastSetup = now,
                     ![call.at].lastModified = disk[call.file].mtime]
  /\ UNCHANGED <<now, disk, history>>

(***************************************************************************)
(* There is no file, and the program goes on with what happens to be in    *)
(* fileInfo: some time, and a size for which there may be no memory.       *)
(***************************************************************************)
StatFails ==
  /\ call.pc = "setup"
  /\ NeedsSetup
  /\ disk[call.file].version = 0
  /\ \E mtime \in 0..MaxTime, pc \in {"read", "error", "answer"} :
       /\ pc = "answer" <=> mtime = Holder.lastModified
       /\ call' = [call EXCEPT !.pc = pc]
       /\ resources' = [resources EXCEPT ![call.at].lastSetup = now,
                                         ![call.at].lastModified = mtime]
  /\ UNCHANGED <<now, disk, history>>

(***************************************************************************)
(* As many bytes as stat has said, of what is there now: another version   *)
(* is cut off, or followed by what happens to be in memory.                *)
(***************************************************************************)
Read ==
  /\ Goto("read", "answer")
  /\ disk[call.file].version # 0
  /\ LET newContent == IF disk[call.file].version = call.version
                       THEN call.version ELSE Torn
     IN  resources' = [resources EXCEPT ![call.at].content = newContent,
                                        ![call.at].hash = newContent]
  /\ UNCHANGED <<now, disk, history>>

(***************************************************************************)
(* The file is gone, or the process has no descriptor left: it is not      *)
(* tried again before the next modification.                               *)
(***************************************************************************)
ReadFails ==
  /\ Goto("read", "answer")
  /\ Trouble(call.file)
  /\ UNCHANGED <<now, disk, resources>>

(* What is returned: Resource(), or the content with its hash. *)
Answered ==
  IF call.hash = Holder.hash
  THEN [status |-> "NOT_MODIFIED", content |-> NoHash, hash |-> NoHash]
  ELSE [status |-> "UPDATED", content |-> Holder.content, hash |-> Holder.hash]

Answer ==
  /\ Return("answer")
  /\ UNCHANGED <<now, disk, resources, history>>

(* After an exception: RESOURCE_STATUS_ERROR. *)
AnswerError ==
  /\ Return("error")
  /\ UNCHANGED <<now, disk, resources, history>>

-----------------------------------------------------------------------------
(* The files and the clock *)

(***************************************************************************)
(* Calm: the file gets a new content, not while it is read, and for the    *)
(* first time in this second.                                              *)
(***************************************************************************)
IsCalm(f, version) ==
  /\ version > disk[f].version
  /\ call.pc = "read" => call.file # f
  /\ disk[f].mtime < now

Write(f, version) ==
  /\ version # disk[f].version
  /\ disk' = [disk EXCEPT ![f] = [version |-> version, mtime |-> now]]
  /\ IF f \in calm /\ IsCalm(f, version)
     THEN /\ replaced' = [replaced EXCEPT ![f][disk[f].version] = now]
          /\ UNCHANGED calm
     ELSE Trouble(f)
  /\ UNCHANGED <<now, resources, call>>

Tick ==
  /\ now < MaxTime
  /\ now' = now + 1
  /\ UNCHANGED <<disk, resources, call, history>>

Init ==
  /\ now = Timeout
  /\ disk \in [Names -> {[version |-> v, mtime |-> v] : v \in {0, 1}}]
  /\ resources = <<>>
  /\ call = Idle
  /\ replaced = [f \in Names |-> [v \in 1..Versions |-> 0]]
  /\ calm = {f \in Names : disk[f].version # 0}

Next ==
  \/ \E f \in Names, hash \in 0..Versions : GetResource(f, hash)
  \/ SkipSetup \/ StatUnchanged \/ StatChanged \/ StatFails
  \/ Read \/ ReadFails \/ Answer \/ AnswerError
  \/ \E f \in Names, v \in 0..Versions : Write(f, v)
  \/ Tick

Spec == Init /\ [][Next]_vars

-----------------------------------------------------------------------------
Contents == {NoHash, Torn} \cup 1..Versions

TypeOK ==
  /\ now \in Timeout..MaxTime
  /\ disk \in [Names -> [version : 0..Versions, mtime : 0..MaxTime]]
  /\ \A i \in 1..Len(resources) :
       resources[i] \in [name : Names, hash : Contents, content : Contents,
                         lastModified : 0..MaxTime, lastSetup : 0..MaxTime]
  /\ calm \subseteq Names
  /\ call.pc \in {"idle", "setup", "read", "answer", "error"}
  /\ call.pc # "idle" => call.at \in 1..Len(resources)

(***************************************************************************)
(* Insertion keeps the vector sorted, so the bisection finds every holder  *)
(* there is: each file has at most one, and the call is about its file.    *)
(* Types are kept.                                                         *)
(***************************************************************************)
BisectionFinds ==
  /\ TypeOK
  /\ \A i, j \in 1..Len(resources) :
       i < j => resources[i].name < resources[j].name
  /\ call.pc # "idle" => Holder.name = call.file

(***************************************************************************)
(* As long as a file changes calmly and can be opened, a copy that is used *)
(* was the file's content less than RESOURCE_TIMEOUT seconds before the    *)
(* call, although only the time of modification is compared, and in        *)
(* seconds.                                                                *)
(***************************************************************************)
FreshEnough ==
  call.pc = "answer" /\ call.file \in calm =>
    \/ Holder.content = disk[call.file].version
    \/ /\ Holder.content \in 1..Versions
       /\ replaced[call.file][Holder.content] > call.since - Timeout

-----------------------------------------------------------------------------
(***************************************************************************)
(* "@param hash Hash value of the resource at the client side (0 if none)" *)
(* says ResourceManager.hpp.  Violated: a client that has none is told     *)
(* that its copy is up to date when the file cannot be read, since the     *)
(* hash of a holder without content is 0, too.                             *)
(***************************************************************************)
OnlyOwnersNotModified ==
  call.pc = "answer" /\ Answered.status = "NOT_MODIFIED" => call.hash # NoHash

(***************************************************************************)
(* "@return Content of the file (empty string when failed)", says          *)
(* ResourceManager.hpp.  Violated: a file that is replaced between stat    *)
(* and read is cut off or padded.                                          *)
(***************************************************************************)
ContentIsTheFiles == call.pc = "answer" => Answered.content # Torn
=============================================================================
