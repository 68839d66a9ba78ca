-------------------------------- MODULE Logger --------------------------------
(***************************************************************************)
(* The logger (src/src/logger.h): one object for all threads.  The         *)
(* functions that change or ask for the file take log_mutex_; log() reads  *)
(* the flag, asks the stream whether it is open and writes to it without   *)
(* the mutex.                                                              *)
(*                                                                         *)
(* Each step is one access to something shared.  A use of the stream       *)
(* (inserting, flushing, closing, opening) begins and ends; of uses that   *)
(* overlap nothing is promised: a line may be whole, torn, doubled or      *)
(* missing, the stream may be in error, the process may end.               *)
(***************************************************************************)
EXTENDS Naturals, Sequences, FiniteSets

CONSTANTS
  Threads,   \* the threads that log or configure
  Paths,     \* the files
  Levels,    \* the levels
  MaxLines,  \* bound: the calls of log()
  MaxConfig, \* bound: the calls of the functions that take the mutex
  None       \* no thread, no file

Off == "off"
Ask == "ask"

ASSUME LoggerAssumption == /\ None \notin Threads
                           /\ {None, Off, Ask} \cap Paths = {}
                           /\ None \notin {Off, Ask}
                           /\ Levels \subseteq Nat
                           /\ {MaxLines, MaxConfig} \subseteq Nat

Lines == 1..MaxLines

VARIABLES
  pc, line, todo,        \* of each thread: where it is, its line, its configuration
  lines, configs,        \* the calls begun
  level,                 \* current_level_
  holder,                \* of log_mutex_
  enabled, path,         \* file_logging_enabled_, log_file_path_
  file, bad, pending,    \* log_file_: the file behind it, its error state, its buffer
  uses, overlapped,      \* the threads inside the stream, those not alone there
  console, written,      \* what has been written, to each file in order
  began, spans, disturbed, mixed, \* history, see Init
  dead

settings == <<holder, enabled, path>>
stream   == <<file, bad, pending, written>>
history  == <<began, spans, disturbed, mixed>>
vars == <<pc, line, todo, lines, configs, level, settings, stream, uses, overlapped,
          console, history, dead>>

(* began: of each line, the file its call found enabled.  spans: the files
   open, or being opened, at some time of the call.  mixed: have uses of the stream overlapped.
   disturbed: the lines whose call overlapped a configuration, or came when or
   after uses of the stream overlapped. *)
Init ==
  /\ pc = [t \in Threads |-> "idle"]
  /\ line = [t \in Threads |-> 0]
  /\ todo = [t \in Threads |-> None]
  /\ lines = 0
  /\ configs = 0
  /\ level \in Levels
  /\ holder = None
  /\ enabled = FALSE
  /\ path = None
  /\ file = None
  /\ bad = FALSE
  /\ pending = <<>>
  /\ uses = {}
  /\ overlapped = {}
  /\ console = {}
  /\ written = [p \in Paths |-> <<>>]
  /\ began = [n \in Lines |-> None]
  /\ spans = [n \in Lines |-> {}]
  /\ disturbed = {}
  /\ mixed = FALSE
  /\ dead = FALSE

-----------------------------------------------------------------------------
Goto(t, from, to) == ~dead /\ pc[t] = from /\ pc' = [pc EXCEPT ![t] = to]

InFlight == {line[t] : t \in Threads} \ {0}

(* A use of the stream by t begins and ends. *)
BeginUse(t) ==
  /\ uses' = uses \cup {t}
  /\ IF uses = {}
     THEN UNCHANGED <<overlapped, disturbed, mixed>>
     ELSE /\ overlapped' = overlapped \cup uses \cup {t}
          /\ disturbed' = disturbed \cup InFlight
          /\ mixed' = TRUE

Begin(t) == BeginUse(t) /\ UNCHANGED <<began, spans>>

End(t) ==
  /\ uses' = uses \ {t}
  /\ overlapped' = overlapped \ {t}

Alone(t) == t \notin overlapped

(* The files that threads are opening. *)
Opening == {todo[s] : s \in {s \in Threads : pc[s] = "opening"}}

(* The buffer goes to the file. *)
Flushed == IF file = None THEN written ELSE [written EXCEPT ![file] = @ \o pending]

-----------------------------------------------------------------------------
(* trace() .. critical() and log() *)

(* A message whose level counts is formatted and written to the console. *)
Log(t, l) ==
  LET n == lines + 1 IN
  /\ Goto(t, "idle", "checkEnabled")
  /\ level <= l
  /\ lines < MaxLines
  /\ lines' = n
  /\ line' = [line EXCEPT ![t] = n]
  /\ console' = console \cup {n}
  /\ began' = [began EXCEPT ![n] = IF enabled THEN file ELSE None]
  /\ spans' = [spans EXCEPT ![n] = Opening \cup ({file} \ {None})]
  /\ disturbed' = IF holder # None \/ mixed THEN disturbed \cup {n} ELSE disturbed
  /\ UNCHANGED <<todo, configs, level, settings, stream, uses, overlapped, mixed, dead>>

Logged(t, from) == Goto(t, from, "idle") /\ line' = [line EXCEPT ![t] = 0]

CheckEnabled(t) ==
  /\ IF enabled THEN Goto(t, "checkEnabled", "checkOpen") /\ UNCHANGED line
                ELSE Logged(t, "checkEnabled")
  /\ UNCHANGED <<todo, lines, configs, level, settings, stream, uses, overlapped,
                 console, history, dead>>

(* What is_open() answers; while the stream is opened or closed, either. *)
IsOpen == {file # None} \cup
          IF \E s \in Threads : pc[s] \in {"opening", "closing"} THEN BOOLEAN ELSE {}

CheckOpen(t) ==
  /\ \/ TRUE \in IsOpen /\ Goto(t, "checkOpen", "insert") /\ UNCHANGED line
     \/ FALSE \in IsOpen /\ Logged(t, "checkOpen")
  /\ UNCHANGED <<todo, lines, configs, level, settings, stream, uses, overlapped,
                 console, history, dead>>

Insert(t) ==
  /\ Goto(t, "insert", "inserting")
  /\ Begin(t)
  /\ UNCHANGED <<line, todo, lines, configs, level, settings, stream, console, dead>>

Entry(t, whole) == Append(pending, [line |-> line[t], whole |-> whole])

(* A stream in error takes nothing; one without a file gets into error. *)
Inserted(t) ==
  /\ Goto(t, "inserting", "flush")
  /\ End(t)
  /\ IF Alone(t)
     THEN /\ pending' = IF file # None /\ ~bad THEN Entry(t, TRUE) ELSE pending
          /\ bad' = (bad \/ file = None)
     ELSE /\ pending' \in {pending} \cup
                 (IF file # None \/ Opening # {} THEN {Entry(t, TRUE), Entry(t, FALSE)} ELSE {})
          /\ bad' \in {bad, TRUE}
  /\ UNCHANGED <<line, todo, lines, configs, level, settings, file, written, console,
                 history, dead>>

Flush(t) ==
  /\ Goto(t, "flush", "flushing")
  /\ Begin(t)
  /\ UNCHANGED <<line, todo, lines, configs, level, settings, stream, console, dead>>

(* Mutant: no flush. *)
FlushedNothing(t) ==
  /\ Logged(t, "flushing")
  /\ End(t)
  /\ UNCHANGED <<todo, lines, configs, level, settings, stream, console, history, dead>>

FlushDone(t) ==
  /\ Logged(t, "flushing")
  /\ End(t)
  /\ IF Alone(t)
     THEN /\ written' = IF bad THEN written ELSE Flushed
          /\ pending' = IF bad THEN pending ELSE <<>>
     ELSE /\ written' \in {written, Flushed}
          /\ pending' \in {pending, <<>>}
  /\ UNCHANGED <<todo, lines, configs, level, settings, file, bad, console, history, dead>>

-----------------------------------------------------------------------------
(* enableFileLogging(), disableFileLogging(), and the two that only ask. *)

SetLevel(t, l) ==
  /\ ~dead
  /\ pc[t] = "idle"
  /\ level' = l
  /\ UNCHANGED <<pc, line, todo, lines, configs, settings, stream, uses, overlapped,
                 console, history, dead>>

Configure(t, what) ==
  /\ Goto(t, "idle", "lock")
  /\ configs < MaxConfig
  /\ configs' = configs + 1
  /\ todo' = [todo EXCEPT ![t] = what]
  /\ UNCHANGED <<line, lines, level, settings, stream, uses, overlapped, console,
                 history, dead>>

Lock(t) ==
  /\ holder = None
  /\ holder' = t
  /\ Goto(t, "lock", IF todo[t] = Ask THEN "answer" ELSE IF todo[t] = Off THEN "off" ELSE "close")
  /\ disturbed' = IF todo[t] = Ask THEN disturbed ELSE disturbed \cup InFlight
  /\ UNCHANGED <<line, todo, lines, configs, level, enabled, path, stream, uses,
                 overlapped, console, began, spans, mixed, dead>>

Unlock(t, from) ==
  /\ Goto(t, from, "idle")
  /\ holder' = None
  /\ todo' = [todo EXCEPT ![t] = None]

(* getLogFilePath(), IsFileLoggingEnabled() *)
Answer(t) ==
  /\ Unlock(t, "answer")
  /\ UNCHANGED <<line, lines, configs, level, enabled, path, stream, uses, overlapped,
                 console, history, dead>>

TurnOff(t) ==
  /\ Goto(t, "off", "close")
  /\ enabled' = FALSE
  /\ UNCHANGED <<line, todo, lines, configs, level, holder, path, stream, uses, overlapped,
                 console, history, dead>>

ClosedThen(t, from) ==
  IF todo[t] = Off THEN Unlock(t, from) ELSE Goto(t, from, "open") /\ UNCHANGED <<holder, todo>>

CloseNothing(t) ==
  /\ file = None
  /\ ClosedThen(t, "close")
  /\ UNCHANGED <<line, lines, configs, level, enabled, path, stream, uses, overlapped,
                 console, history, dead>>

Close(t) ==
  /\ file # None
  /\ Goto(t, "close", "closing")
  /\ Begin(t)
  /\ UNCHANGED <<line, todo, lines, configs, level, settings, stream, console, dead>>

(* Mutant: what is in the buffer stays there. *)
CloseDoneKeeping(t) ==
  /\ ClosedThen(t, "closing")
  /\ End(t)
  /\ file' = None
  /\ UNCHANGED <<line, lines, configs, level, enabled, path, bad, pending, written, console,
                 history, dead>>

CloseDone(t) ==
  /\ ClosedThen(t, "closing")
  /\ End(t)
  /\ file' = None
  /\ pending' = <<>>
  /\ written' \in IF Alone(t) THEN {Flushed} ELSE {written, Flushed}
  /\ UNCHANGED <<line, lines, configs, level, enabled, path, bad, console, history, dead>>

Open(t) ==
  /\ Goto(t, "open", "opening")
  /\ path' = todo[t]
  /\ BeginUse(t)
  /\ spans' = [n \in Lines |-> IF n \in InFlight THEN spans[n] \cup {todo[t]} ELSE spans[n]]
  /\ UNCHANGED <<line, todo, lines, configs, level, holder, enabled, stream, console, began,
                 dead>>

(* Opening clears the error state, or sets it when it fails. *)
OpenDone(t) ==
  /\ Goto(t, "opening", "set")
  /\ End(t)
  /\ \E opens \in BOOLEAN :
       /\ file' = IF opens THEN todo[t] ELSE None
       /\ bad' \in IF Alone(t) THEN {~opens} ELSE {~opens, TRUE}
  /\ pending' \in IF Alone(t) \/ file' = None THEN {<<>>} ELSE {pending, <<>>}
  /\ UNCHANGED <<line, todo, lines, configs, level, settings, written, console, history,
                 dead>>

Set(t) ==
  /\ Unlock(t, "set")
  /\ enabled' = (file # None)
  /\ UNCHANGED <<line, lines, configs, level, path, stream, uses, overlapped, console,
                 history, dead>>

(* Overlapping uses of the stream are undefined: the process may end. *)
Die ==
  /\ ~dead
  /\ overlapped # {}
  /\ dead' = TRUE
  /\ UNCHANGED <<pc, line, todo, lines, configs, level, settings, stream, uses, overlapped,
                 console, history>>

-----------------------------------------------------------------------------
LogSteps(t) ==
  \/ CheckEnabled(t) \/ CheckOpen(t)
  \/ Insert(t) \/ Inserted(t)
  \/ Flush(t) \/ FlushDone(t)

ConfigSteps(t) ==
  \/ Lock(t) \/ Answer(t) \/ TurnOff(t)
  \/ CloseNothing(t) \/ Close(t) \/ CloseDone(t)
  \/ Open(t) \/ OpenDone(t) \/ Set(t)

Next ==
  \/ \E t \in Threads :
       \/ \E l \in Levels : Log(t, l) \/ SetLevel(t, l)
       \/ \E what \in Paths \cup {Off, Ask} : Configure(t, what)
       \/ LogSteps(t)
       \/ ConfigSteps(t)
  \/ Die

Spec == Init /\ [][Next]_vars

-----------------------------------------------------------------------------
(* Every variable stays in its range. *)
TypeOK ==
  /\ pc \in [Threads -> {"idle", "checkEnabled", "checkOpen", "insert", "inserting", "flush",
                         "flushing", "lock", "answer", "off", "close", "closing", "open",
                         "opening", "set"}]
  /\ line \in [Threads -> Lines \cup {0}]
  /\ todo \in [Threads -> Paths \cup {Off, Ask, None}]
  /\ lines \in 0..MaxLines
  /\ configs \in 0..MaxConfig
  /\ level \in Levels
  /\ holder \in Threads \cup {None}
  /\ enabled \in BOOLEAN
  /\ path \in Paths \cup {None}
  /\ file \in Paths \cup {None}
  /\ bad \in BOOLEAN
  /\ pending \in Seq([line : Lines, whole : BOOLEAN])
  /\ uses \subseteq Threads
  /\ overlapped \subseteq uses
  /\ console \subseteq Lines
  /\ written \in [Paths -> Seq([line : Lines, whole : BOOLEAN])]
  /\ began \in [Lines -> Paths \cup {None}]
  /\ spans \in [Lines -> SUBSET Paths]
  /\ disturbed \subseteq Lines
  /\ mixed \in BOOLEAN
  /\ dead \in BOOLEAN

(* Whoever asks for the settings under the mutex finds them to agree with the
   stream, whatever other threads log meanwhile: enabled exactly when a file
   is open, and then the one whose path is kept. *)
SettingsAgree ==
  holder = None => /\ enabled <=> file # None
                   /\ enabled => file = path

Places(p, n) == {i \in 1..Len(written[p]) : written[p][i].line = n}

(* A call of log() that overlaps no configuration, with no two threads ever in
   the stream at once before it is over, puts its line once and whole into the
   file that was enabled, and into no other. *)
UndisturbedLinesKept ==
  \A n \in 1..lines : n \notin InFlight \cup disturbed =>
    \A p \in Paths :
      IF p = began[n]
      THEN \E i \in 1..Len(written[p]) : Places(p, n) = {i} /\ written[p][i].whole
      ELSE Places(p, n) = {}

(* A line appears only in a file that was open, or being opened, during its call, even when the
   file is changed, or the stream closed, between its checks and its write;
   and it is on the console. *)
LinesWhereOpen ==
  \A p \in Paths : \A i \in 1..Len(written[p]) :
    p \in spans[written[p][i].line] /\ written[p][i].line \in console

(* A stream with a file behind it refuses lines only after two threads were in
   it at once: a log() between close() and open() alone does not spoil it. *)
SpoiledOnlyByOverlap == bad /\ file # None => mixed

=============================================================================
