----------------------------- MODULE LoggerProofs -----------------------------
(***************************************************************************)
(* What holds of the logger for any threads, files, levels and bounds.     *)
(*                                                                         *)
(* First the settings and the state of the stream, for which the lines     *)
(* play no part; then where a line may be (LoggerInv), and what becomes of  *)
(* one that nobody disturbs (KeptInv).                                     *)
(***************************************************************************)
EXTENDS Logger, TLAPS

Locked == {"answer", "off", "close", "closing", "open", "opening", "set"}

States == {"idle", "checkEnabled", "checkOpen", "insert", "inserting", "flush", "flushing",
           "lock"} \cup Locked

Todos == Paths \cup {Off, Ask, None}

(* What each step of a configuration may rely on. *)
ThreadInv(t) ==
  /\ (pc[t] \in Locked) <=> (holder = t)
  /\ pc[t] \in Locked \cup {"lock"} => todo[t] # None
  /\ pc[t] = "answer" =>
       todo[t] = Ask /\ (enabled <=> file # None) /\ (enabled => file = path)
  /\ pc[t] = "off" => todo[t] = Off
  /\ pc[t] \in {"close", "closing"} => todo[t] # Ask /\ (todo[t] = Off => ~enabled)
  /\ pc[t] \in {"open", "opening", "set"} => todo[t] \in Paths
  /\ pc[t] \in {"opening", "set"} => path = todo[t]
  /\ pc[t] = "set" => file \in {todo[t], None}

ConfigInv ==
  /\ pc \in [Threads -> States]
  /\ todo \in [Threads -> Todos]
  /\ enabled \in BOOLEAN
  /\ holder \in Threads \cup {None}
  /\ \A t \in Threads : ThreadInv(t)
  /\ SettingsAgree

LEMMA InitConfig == Init => ConfigInv
<1> SUFFICES ASSUME Init PROVE ConfigInv
  OBVIOUS
<1>1. pc \in [Threads -> States] /\ todo \in [Threads -> Todos]
  BY DEF Init, States, Todos
<1>2. ASSUME NEW t \in Threads PROVE ThreadInv(t)
  <2>1. pc[t] = "idle" /\ holder # t
    BY LoggerAssumption DEF Init
  <2> QED
    BY <2>1 DEF ThreadInv, Locked
<1>3. SettingsAgree
  BY DEF Init, SettingsAgree
<1> QED
  BY <1>1, <1>2, <1>3 DEF ConfigInv, Init

LEMMA LogKeepsConfig ==
  ASSUME ConfigInv, NEW t \in Threads,
         UNCHANGED <<todo, holder, enabled, path, file>>,
         pc[t] \notin Locked \cup {"lock"},
         NEW next \in States, next \notin Locked \cup {"lock"},
         pc' = [pc EXCEPT ![t] = next]
  PROVE  ConfigInv'
<1>1. ASSUME NEW s \in Threads PROVE ThreadInv(s)'
  <2>1. ThreadInv(s)
    BY DEF ConfigInv
  <2>2. CASE s = t
    <3>1. pc'[s] = next /\ holder # s
      BY <2>1, <2>2 DEF ThreadInv, ConfigInv
    <3> QED
      BY <3>1 DEF ThreadInv, Locked
  <2>3. CASE s # t
    <3>1. pc'[s] = pc[s]
      BY <2>3 DEF ConfigInv
    <3> QED
      BY <2>1, <3>1 DEF ThreadInv
  <2> QED
    BY <2>2, <2>3
<1> QED
  BY <1>1 DEF ConfigInv, SettingsAgree

LEMMA LogStepsConfig ==
  ASSUME ConfigInv, NEW t \in Threads,
         LogSteps(t) \/ \E l \in Levels : Log(t, l)
  PROVE  ConfigInv'
<1> USE DEF Goto, Logged, Locked, States, stream, settings
<1>1. ASSUME NEW l \in Levels, Log(t, l) PROVE ConfigInv'
  BY <1>1, LogKeepsConfig DEF Log
<1>2. CASE CheckEnabled(t)
  BY <1>2, LogKeepsConfig DEF CheckEnabled
<1>3. CASE CheckOpen(t)
  BY <1>3, LogKeepsConfig DEF CheckOpen
<1>4. CASE Insert(t)
  BY <1>4, LogKeepsConfig DEF Insert
<1>5. CASE Inserted(t)
  BY <1>5, LogKeepsConfig DEF Inserted
<1>6. CASE Flush(t)
  BY <1>6, LogKeepsConfig DEF Flush
<1>7. CASE FlushDone(t)
  BY <1>7, LogKeepsConfig DEF FlushDone
<1> QED
  BY <1>1, <1>2, <1>3, <1>4, <1>5, <1>6, <1>7 DEF LogSteps

(* A step of the only thread that may hold the mutex concerns no other. *)
LEMMA ConfigStep ==
  ASSUME ConfigInv, NEW t \in Threads, NEW next \in States, NEW do \in Todos,
         pc' = [pc EXCEPT ![t] = next], todo' = [todo EXCEPT ![t] = do],
         holder \in {t, None}, holder' \in {t, None}, enabled' \in BOOLEAN,
         ThreadInv(t)', SettingsAgree'
  PROVE  ConfigInv'
<1>1. pc' \in [Threads -> States] /\ todo' \in [Threads -> Todos]
  BY DEF ConfigInv
<1>2. ASSUME NEW s \in Threads PROVE ThreadInv(s)'
  <2>1. CASE s # t
    <3>1. pc'[s] = pc[s] /\ todo'[s] = todo[s]
      BY <2>1 DEF ConfigInv
    <3>2. holder # s /\ holder' # s
      BY <2>1, LoggerAssumption
    <3>3. pc[s] \notin Locked /\ (pc[s] = "lock" => todo[s] # None)
      BY <3>2 DEF ConfigInv, ThreadInv
    <3> QED
      BY <3>1, <3>2, <3>3 DEF ThreadInv, Locked
  <2> QED
    BY <2>1
<1> QED
  BY <1>1, <1>2 DEF ConfigInv

LEMMA ConfigStepsConfig ==
  ASSUME ConfigInv, NEW t \in Threads, ConfigSteps(t)
  PROVE  ConfigInv'
<1> USE LoggerAssumption DEF settings, stream, Goto, Unlock, States, Locked
<1>1. /\ pc \in [Threads -> States]
      /\ todo \in [Threads -> Todos]
      /\ todo[t] \in Todos
      /\ enabled \in BOOLEAN
      /\ ThreadInv(t)
      /\ SettingsAgree
      /\ t # None
  BY DEF ConfigInv
<1>2. todo = [todo EXCEPT ![t] = todo[t]] /\ {todo[t], None} \subseteq Todos
  BY <1>1 DEF Todos
<1>3. CASE Lock(t)
  <2> DEFINE next == IF todo[t] = Ask THEN "answer" ELSE IF todo[t] = Off THEN "off" ELSE "close"
  <2>1. /\ pc' = [pc EXCEPT ![t] = next]
        /\ pc'[t] = next
        /\ pc[t] = "lock"
        /\ holder = None /\ holder' = t
        /\ UNCHANGED <<todo, enabled, path, file>>
    BY <1>3, <1>1 DEF Lock
  <2>2. todo[t] # None /\ Off # Ask
    BY <2>1, <1>1 DEF ThreadInv, Off, Ask
  <2>3. ThreadInv(t)' /\ SettingsAgree'
    BY <2>1, <2>2, <1>1 DEF ThreadInv, SettingsAgree, Locked, Todos
  <2> QED
    BY <2>1, <2>3, <1>1, <1>2, ConfigStep
<1> DEFINE Leaves(a, b) == /\ pc[t] = a
                          /\ pc' = [pc EXCEPT ![t] = b]
                          /\ pc'[t] = b
                          /\ holder = t
<1>4. CASE Answer(t)
  <2>1. Leaves("answer", "idle") /\ todo' = [todo EXCEPT ![t] = None] /\ holder' = None
        /\ UNCHANGED <<enabled, path, file>>
    BY <1>4, <1>1 DEF Answer, ThreadInv, Locked
  <2>2. ThreadInv(t)' /\ SettingsAgree'
    BY <2>1, <1>1 DEF ThreadInv, SettingsAgree, Locked
  <2> QED
    BY <2>1, <2>2, <1>1, <1>2, ConfigStep
<1>5. CASE TurnOff(t)
  <2>1. Leaves("off", "close") /\ ~enabled' /\ UNCHANGED <<holder, todo, path, file>>
    BY <1>5, <1>1 DEF TurnOff, ThreadInv, Locked
  <2>2. ThreadInv(t)' /\ SettingsAgree' /\ enabled' \in BOOLEAN
    BY <2>1, <1>1, <1>5 DEF ThreadInv, SettingsAgree, Locked, Off, Ask, TurnOff
  <2> QED
    BY <2>1, <2>2, <1>1, <1>2, ConfigStep
<1>6. ASSUME NEW from \in {"close", "closing"}, ClosedThen(t, from), file' = None,
             UNCHANGED <<enabled, path>>
      PROVE  ConfigInv'
  <2>1. CASE todo[t] = Off
    <3>1. Leaves(from, "idle") /\ todo' = [todo EXCEPT ![t] = None] /\ holder' = None
          /\ ~enabled
      BY <2>1, <1>6, <1>1 DEF ClosedThen, ThreadInv, Locked
    <3>2. ThreadInv(t)' /\ SettingsAgree'
      BY <3>1, <1>1, <1>6 DEF ThreadInv, SettingsAgree, Locked
    <3> QED
      BY <3>1, <3>2, <1>1, <1>2, <1>6, ConfigStep
  <2>2. CASE todo[t] # Off
    <3>1. Leaves(from, "open") /\ todo[t] \in Paths /\ UNCHANGED <<holder, todo>>
      BY <2>2, <1>6, <1>1 DEF ClosedThen, ThreadInv, Locked, Todos
    <3>2. ThreadInv(t)' /\ SettingsAgree'
      BY <3>1, <1>1, <1>6 DEF ThreadInv, SettingsAgree, Locked
    <3> QED
      BY <3>1, <3>2, <1>1, <1>2, <1>6, ConfigStep
  <2> QED
    BY <2>1, <2>2
<1>7. CASE CloseNothing(t)
  BY <1>7, <1>6 DEF CloseNothing
<1>8. CASE Close(t)
  <2>1. Leaves("close", "closing") /\ UNCHANGED <<todo, holder, enabled, path, file>>
    BY <1>8, <1>1 DEF Close, ThreadInv, Locked
  <2>2. ThreadInv(t)' /\ SettingsAgree'
    BY <2>1, <1>1 DEF ThreadInv, SettingsAgree, Locked
  <2> QED
    BY <2>1, <2>2, <1>1, <1>2, ConfigStep
<1>9. CASE CloseDone(t)
  BY <1>9, <1>6 DEF CloseDone
<1>10. CASE Open(t)
  <2>1. Leaves("open", "opening") /\ path' = todo[t] /\ UNCHANGED <<todo, holder, enabled, file>>
    BY <1>10, <1>1 DEF Open, ThreadInv, Locked
  <2>2. ThreadInv(t)' /\ SettingsAgree'
    BY <2>1, <1>1 DEF ThreadInv, SettingsAgree, Locked
  <2> QED
    BY <2>1, <2>2, <1>1, <1>2, ConfigStep
<1>11. CASE OpenDone(t)
  <2>1. Leaves("opening", "set") /\ file' \in {todo[t], None}
        /\ UNCHANGED <<todo, holder, enabled, path>>
    BY <1>11, <1>1 DEF OpenDone, ThreadInv, Locked
  <2>2. ThreadInv(t)' /\ SettingsAgree'
    BY <2>1, <1>1 DEF ThreadInv, SettingsAgree, Locked
  <2> QED
    BY <2>1, <2>2, <1>1, <1>2, ConfigStep
<1>12. CASE Set(t)
  <2>1. Leaves("set", "idle") /\ todo' = [todo EXCEPT ![t] = None] /\ holder' = None
        /\ enabled' \in BOOLEAN /\ (enabled' <=> file # None) /\ UNCHANGED <<path, file>>
    BY <1>12, <1>1 DEF Set, ThreadInv, Locked
  <2>2. ThreadInv(t)' /\ SettingsAgree'
    BY <2>1, <1>1 DEF ThreadInv, SettingsAgree, Locked
  <2> QED
    BY <2>1, <2>2, <1>1, <1>2, ConfigStep
<1> QED
  BY <1>3, <1>4, <1>5, <1>7, <1>8, <1>9, <1>10, <1>11, <1>12 DEF ConfigSteps

(* The call of a function that takes the mutex, before it has it. *)
LEMMA ConfigureConfig ==
  ASSUME ConfigInv, NEW t \in Threads, NEW what \in Paths \cup {Off, Ask}, Configure(t, what)
  PROVE  ConfigInv'
<1>1. /\ pc[t] = "idle" /\ pc' = [pc EXCEPT ![t] = "lock"]
      /\ todo' = [todo EXCEPT ![t] = what]
      /\ UNCHANGED <<holder, enabled, path, file>>
      /\ what # None /\ what \in Todos
  BY LoggerAssumption DEF Configure, Goto, settings, stream, Todos
<1>2. pc' \in [Threads -> States] /\ todo' \in [Threads -> Todos]
  BY <1>1 DEF ConfigInv, States
<1>3. ASSUME NEW s \in Threads PROVE ThreadInv(s)'
  <2>1. ThreadInv(s)
    BY DEF ConfigInv
  <2>2. CASE s = t
    <3>1. pc[s] = "idle" /\ pc'[s] = "lock" /\ todo'[s] = what
      BY <1>1, <2>2 DEF ConfigInv
    <3> QED
      BY <1>1, <2>1, <3>1 DEF ThreadInv, Locked
  <2>3. CASE s # t
    <3>1. pc'[s] = pc[s] /\ todo'[s] = todo[s]
      BY <1>1, <2>3 DEF ConfigInv
    <3> QED
      BY <1>1, <2>1, <3>1 DEF ThreadInv
  <2> QED
    BY <2>2, <2>3
<1> QED
  BY <1>1, <1>2, <1>3 DEF ConfigInv, SettingsAgree

LEMMA NextConfig == ConfigInv /\ [Next]_vars => ConfigInv'
<1> SUFFICES ASSUME ConfigInv, [Next]_vars PROVE ConfigInv'
  OBVIOUS
<1>1. ASSUME UNCHANGED <<pc, todo, holder, enabled, path, file>> PROVE ConfigInv'
  BY <1>1 DEF ConfigInv, ThreadInv, SettingsAgree
<1>2. ASSUME NEW t \in Threads, NEW l \in Levels, SetLevel(t, l) PROVE ConfigInv'
  BY <1>1, <1>2 DEF SetLevel, settings, stream
<1>3. CASE Die
  BY <1>1, <1>3 DEF Die, settings, stream
<1>4. CASE UNCHANGED vars
  BY <1>1, <1>4 DEF vars, settings, stream
<1> QED
  BY <1>2, <1>3, <1>4, LogStepsConfig, ConfigStepsConfig, ConfigureConfig DEF Next

(* The settings agree with the stream whenever nobody holds the mutex,
   although log() uses the stream without it (logger.h:310): none of its steps
   opens or closes the file. *)
THEOREM SettingsAlwaysAgree == Spec => []SettingsAgree
<1>1. ConfigInv => SettingsAgree
  BY DEF ConfigInv
<1>2. QED
  BY InitConfig, NextConfig, <1>1, PTL DEF Spec

-----------------------------------------------------------------------------
(* Uses that overlap have been recorded. *)
StreamInv == SpoiledOnlyByOverlap /\ (overlapped # {} => mixed)

LEMMA InitStream == Init => StreamInv
  BY DEF Init, StreamInv, SpoiledOnlyByOverlap

LEMMA BeginStream ==
  ASSUME StreamInv, NEW t \in Threads, BeginUse(t), UNCHANGED stream
  PROVE  StreamInv'
  BY DEF StreamInv, SpoiledOnlyByOverlap, BeginUse, stream

LEMMA NextStream == StreamInv /\ [Next]_vars => StreamInv'
<1> SUFFICES ASSUME StreamInv, [Next]_vars PROVE StreamInv'
  OBVIOUS
<1> USE DEF StreamInv, SpoiledOnlyByOverlap, stream, history
<1>1. ASSUME NEW t \in Threads, LogSteps(t) PROVE StreamInv'
  <2>1. CASE CheckEnabled(t)
    BY <2>1 DEF CheckEnabled
  <2>2. CASE CheckOpen(t)
    BY <2>2 DEF CheckOpen
  <2>3. CASE Insert(t) \/ Flush(t)
    BY <2>3, BeginStream DEF Insert, Flush, Begin
  <2>4. CASE Inserted(t)
    BY <2>4 DEF Inserted, End, Alone
  <2>5. CASE FlushDone(t)
    BY <2>5 DEF FlushDone, End
  <2> QED
    BY <1>1, <2>1, <2>2, <2>3, <2>4, <2>5 DEF LogSteps
<1>2. ASSUME NEW t \in Threads, ConfigSteps(t) PROVE StreamInv'
  <2>1. CASE Lock(t) \/ Answer(t) \/ TurnOff(t) \/ CloseNothing(t) \/ Set(t)
    BY <2>1 DEF Lock, Answer, TurnOff, CloseNothing, Set
  <2>2. CASE Close(t) \/ Open(t)
    BY <2>2, BeginStream DEF Close, Open, Begin
  <2>3. CASE CloseDone(t)
    BY <2>3 DEF CloseDone, End
  <2>4. CASE OpenDone(t)
    BY <2>4 DEF OpenDone, End, Alone
  <2> QED
    BY <1>2, <2>1, <2>2, <2>3, <2>4 DEF ConfigSteps
<1>3. ASSUME NEW t \in Threads, NEW l \in Levels, Log(t, l) \/ SetLevel(t, l) PROVE StreamInv'
  BY <1>3 DEF Log, SetLevel
<1>4. ASSUME NEW t \in Threads, NEW what \in Paths \cup {Off, Ask}, Configure(t, what)
      PROVE  StreamInv'
  BY <1>4 DEF Configure
<1>5. CASE Die
  BY <1>5 DEF Die
<1>6. CASE UNCHANGED vars
  BY <1>6 DEF vars
<1> QED
  BY <1>1, <1>2, <1>3, <1>4, <1>5, <1>6 DEF Next

(* An open stream is in error only after two threads were in it at once: a
   log() that finds the stream closed under it leaves nothing behind, because
   opening clears the error (logger.h:71). *)
THEOREM StreamSpoiledOnlyByOverlap == Spec => []SpoiledOnlyByOverlap
<1>1. StreamInv => SpoiledOnlyByOverlap
  BY DEF StreamInv
<1>2. QED
  BY InitStream, NextStream, <1>1, PTL DEF Spec

-----------------------------------------------------------------------------
(* The calls of log(), the lines in the buffer and in the files. *)

LogStates == {"checkEnabled", "checkOpen", "insert", "inserting", "flush", "flushing"}

(* A thread has a line exactly during a call of log(), and no two the same. *)
LineInv ==
  /\ lines \in Nat
  /\ line \in [Threads -> 0..lines]
  /\ \A t \in Threads : line[t] # 0 <=> pc[t] \in LogStates
  /\ \A s, t \in Threads : line[s] = line[t] /\ line[s] # 0 => s = t

Entries(n) == [line : 1..n, whole : BOOLEAN]

EntryInv ==
  /\ file \in Paths \cup {None}
  /\ pending \in Seq(Entries(lines))
  /\ written \in [Paths -> Seq(Entries(lines))]

LEMMA InitLines == Init => LineInv /\ EntryInv
<1> SUFFICES ASSUME Init
             PROVE  LineInv /\ EntryInv
  OBVIOUS
<1>1. LineInv
  BY DEF Init, LineInv, LogStates
<1>2. <<>> \in Seq(Entries(lines))
  OBVIOUS
<1>3. EntryInv
  BY <1>2 DEF Init, EntryInv
<1> QED
  BY <1>1, <1>3

(* What a step of thread t does to its call. *)
Stays(t) ==
  /\ UNCHANGED <<line, lines>>
  /\ \E next \in States : /\ pc' = [pc EXCEPT ![t] = next]
                          /\ pc[t] \in LogStates <=> next \in LogStates

Returns(t) ==
  /\ lines' = lines /\ line' = [line EXCEPT ![t] = 0] /\ pc' = [pc EXCEPT ![t] = "idle"]

LEMMA LogCall ==
  ASSUME NEW t \in Threads, LogSteps(t)
  PROVE  pc[t] \in LogStates /\ (Stays(t) \/ Returns(t))
<1> USE DEF Goto, Logged, LogStates, States, Locked, Stays, Returns
<1>1. CASE CheckEnabled(t)
  BY <1>1 DEF CheckEnabled
<1>2. CASE CheckOpen(t)
  BY <1>2 DEF CheckOpen
<1>3. CASE Insert(t)
  BY <1>3 DEF Insert
<1>4. CASE Inserted(t)
  BY <1>4 DEF Inserted
<1>5. CASE Flush(t)
  BY <1>5 DEF Flush
<1>6. CASE FlushDone(t)
  BY <1>6 DEF FlushDone
<1> QED
  BY <1>1, <1>2, <1>3, <1>4, <1>5, <1>6 DEF LogSteps

LEMMA ConfigCall ==
  ASSUME NEW t \in Threads,
         ConfigSteps(t) \/ \E what \in Paths \cup {Off, Ask} : Configure(t, what)
  PROVE  pc[t] \notin LogStates /\ Stays(t)
<1> USE DEF Goto, Unlock, LogStates, States, Locked, Stays
<1>1. CASE Lock(t)
  <2>1. \E next \in {"answer", "off", "close"} :
          pc' = [pc EXCEPT ![t] = next] /\ pc[t] = "lock" /\ UNCHANGED <<line, lines>>
    BY <1>1 DEF Lock
  <2> QED
    BY <2>1
<1>2. CASE Answer(t) \/ TurnOff(t) \/ Set(t)
  BY <1>2 DEF Answer, TurnOff, Set
<1>3. CASE CloseNothing(t) \/ CloseDone(t)
  BY <1>3 DEF CloseNothing, CloseDone, ClosedThen
<1>4. CASE Close(t) \/ Open(t) \/ OpenDone(t)
  BY <1>4 DEF Close, Open, OpenDone
<1>5. CASE \E what \in Paths \cup {Off, Ask} : Configure(t, what)
  BY <1>5 DEF Configure
<1> QED
  BY <1>1, <1>2, <1>3, <1>4, <1>5 DEF ConfigSteps

LEMMA NextLine ==
  ASSUME ConfigInv, LineInv, [Next]_vars
  PROVE  LineInv'
<1>1. pc \in [Threads -> States] /\ line \in [Threads -> 0..lines] /\ lines \in Nat
  BY DEF ConfigInv, LineInv
<1>2. ASSUME NEW t \in Threads, Stays(t)
      PROVE  LineInv'
  BY <1>1, <1>2 DEF LineInv, Stays
<1>3. ASSUME NEW t \in Threads, Returns(t)
      PROVE  LineInv'
  <2>1. "idle" \notin LogStates
    BY DEF LogStates
  <2> QED
    BY <1>1, <1>3, <2>1 DEF LineInv, Returns
<1>4. ASSUME NEW t \in Threads, NEW l \in Levels, Log(t, l)
      PROVE  LineInv'
  <2>1. /\ lines' = lines + 1 /\ line' = [line EXCEPT ![t] = lines + 1]
        /\ pc' = [pc EXCEPT ![t] = "checkEnabled"]
    BY <1>4 DEF Log, Goto
  <2>2. \A s \in Threads : line[s] # lines + 1 /\ line[s] \in 0..(lines + 1)
    BY <1>1
  <2>3. lines + 1 # 0 /\ lines + 1 \in 0..(lines + 1) /\ lines + 1 \in Nat
    BY <1>1
  <2>4. line' \in [Threads -> 0..lines']
    BY <1>1, <2>1, <2>2, <2>3
  <2>5. \A s \in Threads : line'[s] # 0 <=> pc'[s] \in LogStates
    BY <1>1, <2>1, <2>3 DEF LineInv, LogStates
  <2>6. \A s, r \in Threads : line'[s] = line'[r] /\ line'[s] # 0 => s = r
    BY <1>1, <2>1, <2>2 DEF LineInv
  <2> QED
    BY <2>1, <2>3, <2>4, <2>5, <2>6 DEF LineInv
<1>5. ASSUME UNCHANGED <<pc, line, lines>>
      PROVE  LineInv'
  BY <1>5 DEF LineInv
<1> QED
  BY <1>2, <1>3, <1>4, <1>5, LogCall, ConfigCall DEF Next, SetLevel, Die, vars

(* What a step may do to the buffer and the files: leave them, put the line of a call
   into the buffer, or write, forget, or write and forget what is in it. *)
Buffers(t) ==
  /\ pc[t] = "inserting"
  /\ written' = written
  /\ \E w \in BOOLEAN : pending' = Append(pending, [line |-> line[t], whole |-> w])

Empties == written' \in {written, Flushed} /\ pending' \in {pending, <<>>}

LEMMA StepBuffer ==
  ASSUME NEW t \in Threads, LogSteps(t) \/ ConfigSteps(t)
  PROVE  Buffers(t) \/ Empties
<1> USE DEF stream, Buffers, Empties
<1>1. CASE CheckEnabled(t) \/ CheckOpen(t) \/ Insert(t) \/ Flush(t)
  BY <1>1 DEF CheckEnabled, CheckOpen, Insert, Flush
<1>2. CASE Inserted(t)
  BY <1>2 DEF Inserted, Entry, Goto
<1>3. CASE FlushDone(t)
  BY <1>3 DEF FlushDone
<1>4. CASE Lock(t) \/ Answer(t) \/ TurnOff(t) \/ CloseNothing(t) \/ Close(t) \/ Open(t) \/ Set(t)
  BY <1>4 DEF Lock, Answer, TurnOff, CloseNothing, Close, Open, Set
<1>5. CASE CloseDone(t)
  BY <1>5 DEF CloseDone
<1>6. CASE OpenDone(t)
  BY <1>6 DEF OpenDone
<1> QED
  BY <1>1, <1>2, <1>3, <1>4, <1>5, <1>6 DEF LogSteps, ConfigSteps

(* A concatenation holds what its parts hold. *)
LEMMA Concatenated ==
  ASSUME NEW S, NEW a \in Seq(S), NEW b \in Seq(S)
  PROVE  /\ a \o b \in Seq(S) /\ Len(a) \in Nat /\ Len(b) \in Nat
         /\ \A i \in 1..Len(a) : i \in 1..Len(a \o b) /\ (a \o b)[i] = a[i]
         /\ \A i \in 1..Len(b) : i + Len(a) \in 1..Len(a \o b) /\ (a \o b)[i + Len(a)] = b[i]
         /\ \A i \in 1..Len(a \o b) : i \in 1..Len(a) \/ i - Len(a) \in 1..Len(b)
  OBVIOUS

LEMMA FlushedFiles ==
  ASSUME EntryInv
  PROVE  /\ Flushed \in [Paths -> Seq(Entries(lines))]
         /\ \A p \in Paths : Flushed[p] = IF p = file THEN written[p] \o pending ELSE written[p]
<1>1. \A p \in Paths : written[p] \o pending \in Seq(Entries(lines))
  BY Concatenated DEF EntryInv
<1> QED
  BY <1>1, LoggerAssumption DEF EntryInv, Flushed

LEMMA NextEntry ==
  ASSUME ConfigInv, LineInv, EntryInv, [Next]_vars
  PROVE  EntryInv'
<1>1. ASSUME UNCHANGED <<file, pending, written, lines>>
      PROVE  EntryInv'
  BY <1>1 DEF EntryInv
<1>2. ASSUME NEW t \in Threads, NEW l \in Levels, Log(t, l)
      PROVE  EntryInv'
  <2>1. UNCHANGED <<file, pending, written>> /\ lines' = lines + 1 /\ lines \in Nat
    BY <1>2 DEF Log, stream, LineInv
  <2>2. \A q \in Seq(Entries(lines)) : q \in Seq(Entries(lines + 1))
    <3>1. Entries(lines) \subseteq Entries(lines + 1)
      BY <2>1 DEF Entries
    <3>2. \A S, T : S \subseteq T => \A q \in Seq(S) : q \in Seq(T)
      OBVIOUS
    <3> QED
      BY <3>1, <3>2
  <2> QED
    BY <2>1, <2>2 DEF EntryInv
<1>3. ASSUME NEW t \in Threads, LogSteps(t) \/ ConfigSteps(t)
      PROVE  EntryInv'
  <2>1. lines' = lines
    BY <1>3, LogCall, ConfigCall DEF Stays, Returns
  <2>2. file' \in Paths \cup {None}
    <3>1. CASE LogSteps(t)
      BY <1>3, <3>1 DEF LogSteps, CheckEnabled, CheckOpen, Insert, Inserted, Flush, FlushDone,
         stream, EntryInv
    <3>2. CASE OpenDone(t)
      <4>1. todo[t] \in Paths
        BY <3>2 DEF OpenDone, Goto, ConfigInv, ThreadInv
      <4> QED
        BY <3>2, <4>1 DEF OpenDone
    <3>3. CASE ConfigSteps(t) /\ ~OpenDone(t)
      BY <3>3 DEF ConfigSteps, Lock, Answer, TurnOff, CloseNothing, Close, CloseDone, Open, Set,
         stream, EntryInv
    <3> QED
      BY <1>3, <3>1, <3>2, <3>3
  <2>3. CASE Buffers(t)
    <3>1. line[t] \in 1..lines
      BY <2>3 DEF Buffers, LineInv, LogStates
    <3>2. PICK e \in Entries(lines) : pending' = Append(pending, e)
      BY <2>3, <3>1 DEF Buffers, Entries
    <3>3. pending' \in Seq(Entries(lines))
      BY <3>2 DEF EntryInv
    <3> QED
      BY <2>1, <2>2, <2>3, <3>3 DEF Buffers, EntryInv
  <2>4. CASE Empties
    <3>1. <<>> \in Seq(Entries(lines))
      OBVIOUS
    <3> QED
      BY <2>1, <2>2, <2>4, <3>1, FlushedFiles DEF Empties, EntryInv
  <2> QED
    BY <1>3, <2>3, <2>4, StepBuffer
<1> QED
  BY <1>1, <1>2, <1>3 DEF Next, SetLevel, Configure, Die, vars, stream

-----------------------------------------------------------------------------
(* Which file a line can still reach: the one that is open, or being opened.  The
   calls under way, and the lines in the buffer, have all of them in their spans; and
   the buffer of a closed stream is empty. *)

Reach == Opening \cup ({file} \ {None})

FileShut ==
  /\ \A t \in Threads : pc[t] \in {"open", "opening"} => file = None
  /\ Reach = {} => pending = <<>>

Spanned(n) == Reach \subseteq spans[n] /\ n \in console

BufferSpanned == \A i \in 1..Len(pending) : Spanned(pending[i].line)

CallsSpanned == \A t \in Threads : line[t] # 0 => Spanned(line[t])

SpanInv ==
  /\ spans \in [Lines -> SUBSET Paths] /\ lines <= MaxLines
  /\ FileShut
  /\ BufferSpanned
  /\ CallsSpanned
  /\ LinesWhereOpen

LEMMA InitSpan == Init => SpanInv
<1> SUFFICES ASSUME Init
             PROVE  SpanInv
  OBVIOUS
<1>1. spans \in [Lines -> SUBSET Paths] /\ lines <= MaxLines
  BY LoggerAssumption DEF Init
<1>2. FileShut /\ BufferSpanned /\ CallsSpanned /\ LinesWhereOpen
  BY DEF Init, FileShut, BufferSpanned, CallsSpanned, LinesWhereOpen
<1> QED
  BY <1>1, <1>2 DEF Init, SpanInv

(* A step that opens no file. *)
LEMMA SpanKept ==
  ASSUME LineInv, EntryInv, SpanInv, NEW t \in Threads, Buffers(t) \/ Empties,
         Reach' \subseteq Reach, UNCHANGED <<spans, console, lines>>, Stays(t) \/ Returns(t),
         FileShut'
  PROVE  SpanInv'
<1> DEFINE After(n) == Reach' \subseteq spans'[n] /\ n \in console'
<1>1. \A n : Spanned(n) => After(n)
  BY DEF Spanned
<1>2. line \in [Threads -> 0..lines] /\ lines \in Nat
  BY DEF LineInv
<1>3. \A s \in Threads : line'[s] = line[s] \/ line'[s] = 0
  BY <1>2 DEF Stays, Returns
<1>4. CallsSpanned'
  <2>1. \A s \in Threads : line'[s] # 0 => After(line'[s])
    BY <1>1, <1>3 DEF SpanInv, CallsSpanned
  <2> QED
    BY <2>1 DEF CallsSpanned, Spanned
<1>5. \A i \in 1..Len(pending) : After(pending[i].line)
  BY <1>1 DEF SpanInv, BufferSpanned
<1>6. CASE Buffers(t)
  <2>1. After(line[t])
    BY <1>1, <1>2, <1>6 DEF Buffers, LineInv, LogStates, SpanInv, CallsSpanned
  <2>2. PICK e \in Entries(lines) : pending' = Append(pending, e) /\ e.line = line[t]
    <3>1. line[t] \in 1..lines
      BY <1>2, <1>6 DEF Buffers, LineInv, LogStates
    <3> QED
      BY <1>6, <3>1 DEF Buffers, Entries
  <2>3. \A i \in 1..Len(pending') : pending'[i] = e \/ (i \in 1..Len(pending) /\ pending'[i] = pending[i])
    <3>1. PICK q \in Seq(Entries(lines)) : q = pending
      BY DEF EntryInv
    <3>2. Len(Append(q, e)) = Len(q) + 1 /\ Len(q) \in Nat
      OBVIOUS
    <3>3. \A i \in 1..Len(q) + 1 : IF i = Len(q) + 1 THEN Append(q, e)[i] = e
                                                     ELSE i \in 1..Len(q) /\ Append(q, e)[i] = q[i]
      BY <3>2
    <3> QED
      BY <2>2, <3>1, <3>2, <3>3
  <2>4. \A i \in 1..Len(pending') : After(pending'[i].line)
    BY <1>5, <2>1, <2>2, <2>3
  <2>5. BufferSpanned'
    BY <2>4 DEF BufferSpanned, Spanned
  <2>6. LinesWhereOpen'
    BY <1>6 DEF Buffers, SpanInv, LinesWhereOpen
  <2> QED
    BY <1>4, <2>5, <2>6 DEF SpanInv
<1>7. CASE Empties
  <2>1. BufferSpanned'
    <3>1. \A i \in 1..Len(pending') : After(pending'[i].line)
      BY <1>5, <1>7 DEF Empties
    <3> QED
      BY <3>1 DEF BufferSpanned, Spanned
  <2>2. LinesWhereOpen'
    <3> SUFFICES ASSUME NEW p \in Paths, NEW i \in 1..Len(Flushed[p])
                 PROVE  p \in spans[Flushed[p][i].line] /\ Flushed[p][i].line \in console
      BY <1>7 DEF Empties, SpanInv, LinesWhereOpen
    <3>1. CASE i \in 1..Len(written[p]) /\ Flushed[p][i] = written[p][i]
      BY <3>1 DEF SpanInv, LinesWhereOpen
    <3>2. CASE \E j \in 1..Len(pending) : p = file /\ Flushed[p][i] = pending[j]
      <4>1. file \in Reach
        BY <3>2, LoggerAssumption DEF Reach
      <4> QED
        BY <3>2, <4>1 DEF SpanInv, BufferSpanned, Spanned
    <3>3. CASE p = file
      <4>1. PICK q \in Seq(Entries(lines)) : q = written[p]
        BY DEF EntryInv
      <4>2. PICK b \in Seq(Entries(lines)) : b = pending
        BY DEF EntryInv
      <4>3. Flushed[p] = q \o b
        BY <3>3, <4>1, <4>2, FlushedFiles
      <4>4. i \in 1..Len(q) \/ i - Len(q) \in 1..Len(b)
        BY <4>3, Concatenated
      <4>5. i \in 1..Len(q) => (q \o b)[i] = q[i]
        BY Concatenated
      <4>6. i - Len(q) \in 1..Len(b) => (q \o b)[i] = b[i - Len(q)]
        <5>1. Len(q) \in Nat /\ i \in Nat
          BY <4>3, Concatenated
        <5>2. i = (i - Len(q)) + Len(q)
          BY <5>1
        <5> QED
          BY <5>2, Concatenated
      <4> QED
        BY <3>1, <3>2, <3>3, <4>1, <4>2, <4>3, <4>4, <4>5, <4>6
    <3>4. CASE p # file
      BY <3>1, <3>4, FlushedFiles
    <3> QED
      BY <3>3, <3>4
  <2> QED
    BY <1>4, <2>1, <2>2 DEF SpanInv
<1> QED
  BY <1>6, <1>7

(* Only the holder of the mutex opens. *)
LEMMA OpeningBy ==
  ASSUME ConfigInv, NEW t \in Threads, holder \in {t, None}
  PROVE  Opening = IF pc[t] = "opening" THEN {todo[t]} ELSE {}
<1>1. \A s \in Threads : pc[s] = "opening" => s = t
  BY LoggerAssumption DEF ConfigInv, ThreadInv, Locked
<1> QED
  BY <1>1 DEF Opening

LEMMA OpeningSame ==
  ASSUME ConfigInv, NEW t \in Threads, NEW next, next # "opening", pc[t] # "opening",
         pc' = [pc EXCEPT ![t] = next],
         \A s \in Threads : s # t => todo'[s] = todo[s]
  PROVE  Opening' = Opening
<1>1. \A s \in Threads : pc'[s] = "opening" <=> pc[s] = "opening"
  BY DEF ConfigInv
<1>2. \A s \in Threads : pc[s] = "opening" => todo'[s] = todo[s]
  OBVIOUS
<1> QED
  BY <1>1, <1>2 DEF Opening

LEMMA LogStepsSpan ==
  ASSUME ConfigInv, LineInv, EntryInv, SpanInv, NEW t \in Threads, LogSteps(t)
  PROVE  SpanInv'
<1>1. pc[t] \in LogStates /\ (Stays(t) \/ Returns(t)) /\ lines' = lines
  BY LogCall DEF Stays, Returns
<1>2. UNCHANGED <<todo, file, spans, console, holder>>
  BY DEF LogSteps, CheckEnabled, CheckOpen, Insert, Inserted, Flush, FlushDone, Begin, history,
     stream, settings
<1>3. PICK next : pc' = [pc EXCEPT ![t] = next] /\ next \in LogStates \cup {"idle"}
  BY <1>1 DEF Stays, Returns
<1>4. Opening' = Opening
  BY <1>1, <1>2, <1>3, OpeningSame DEF LogStates
<1>5. Reach' = Reach
  BY <1>2, <1>4 DEF Reach
<1>6. Reach = {} => pending' \in {pending, <<>>}
  <2>1. CASE Inserted(t)
    BY <2>1 DEF Inserted, Reach
  <2>2. CASE FlushDone(t)
    BY <2>2 DEF FlushDone
  <2> QED
    BY <2>1, <2>2 DEF LogSteps, CheckEnabled, CheckOpen, Insert, Flush, stream
<1>7. FileShut'
  <2>1. \A s \in Threads : pc'[s] \in {"open", "opening"} => pc[s] \in {"open", "opening"}
    BY <1>3 DEF ConfigInv, LogStates
  <2> QED
    BY <1>2, <1>5, <1>6, <2>1 DEF SpanInv, FileShut
<1> QED
  BY <1>1, <1>2, <1>5, <1>7, SpanKept, StepBuffer

LEMMA OpenSpan ==
  ASSUME ConfigInv, LineInv, EntryInv, SpanInv, NEW t \in Threads, Open(t)
  PROVE  SpanInv'
<1>1. /\ pc[t] = "open" /\ pc' = [pc EXCEPT ![t] = "opening"]
      /\ UNCHANGED <<line, todo, lines, holder, file, pending, written, console>>
      /\ spans' = [n \in Lines |-> IF n \in InFlight THEN spans[n] \cup {todo[t]} ELSE spans[n]]
  BY DEF Open, Goto, stream
<1>2. /\ holder = t /\ todo[t] \in Paths /\ file = None
      /\ \A s \in Threads : pc[s] = "opening" \/ pc[s] \in Locked => s = t
  BY <1>1, LoggerAssumption DEF ConfigInv, ThreadInv, Locked, SpanInv, FileShut
<1>3. Reach = {} /\ pending = <<>>
  <2>1. Opening = {}
    BY <1>1, <1>2, OpeningBy
  <2> QED
    BY <1>2, <2>1 DEF Reach, SpanInv, FileShut
<1>4. Reach' = {todo[t]}
  <2>1. Opening' = {todo[t]}
    BY <1>1, <1>2 DEF ConfigInv, Opening
  <2> QED
    BY <1>1, <1>2, <2>1 DEF Reach
<1>5. spans' \in [Lines -> SUBSET Paths] /\ \A n \in Lines : spans[n] \subseteq spans'[n]
  BY <1>1, <1>2 DEF SpanInv
<1>6. CallsSpanned'
  <2>1. ASSUME NEW s \in Threads, line[s] # 0
        PROVE  Reach' \subseteq spans'[line[s]] /\ line[s] \in console'
    <3>1. line[s] \in Lines /\ line[s] \in InFlight
      BY <2>1, LoggerAssumption DEF LineInv, SpanInv, Lines, InFlight
    <3> QED
      BY <1>1, <1>4, <2>1, <3>1 DEF SpanInv, CallsSpanned, Spanned
  <2> QED
    BY <1>1, <2>1 DEF CallsSpanned, Spanned
<1>7. FileShut'
  BY <1>1, <1>2, <1>4 DEF FileShut
<1>8. LinesWhereOpen'
  <2> SUFFICES ASSUME NEW p \in Paths, NEW i \in 1..Len(written[p])
               PROVE  p \in spans'[written[p][i].line] /\ written[p][i].line \in console
    BY <1>1 DEF LinesWhereOpen
  <2>1. written[p][i].line \in Lines
    <3>1. written[p] \in Seq(Entries(lines))
      BY DEF EntryInv
    <3>2. written[p][i] \in Entries(lines)
      BY <3>1
    <3> QED
      BY <3>2, LoggerAssumption DEF Entries, LineInv, SpanInv, Lines
  <2> QED
    BY <1>5, <2>1 DEF SpanInv, LinesWhereOpen
<1>9. BufferSpanned'
  BY <1>1, <1>3 DEF BufferSpanned
<1> QED
  BY <1>1, <1>5, <1>6, <1>7, <1>8, <1>9 DEF SpanInv

LEMMA ConfigStepsSpan ==
  ASSUME ConfigInv, LineInv, EntryInv, SpanInv, NEW t \in Threads, ConfigSteps(t), ~Open(t)
  PROVE  SpanInv'
<1>1. pc[t] \notin LogStates /\ Stays(t) /\ lines' = lines
  BY ConfigCall DEF Stays
<1>2. UNCHANGED <<spans, console>>
  BY DEF ConfigSteps, Lock, Answer, TurnOff, CloseNothing, Close, CloseDone, OpenDone, Set, Begin,
     history
<1>3. holder \in {t, None} /\ \A s \in Threads : pc[s] \in {"open", "opening"} => s = t
  <2>1. pc[t] \in Locked \/ holder = None
    BY DEF ConfigSteps, Lock, Answer, TurnOff, CloseNothing, Close, CloseDone, OpenDone, Set,
       Goto, Unlock, ClosedThen, Locked
  <2> QED
    BY <2>1, LoggerAssumption DEF ConfigInv, ThreadInv, Locked
<1>4. PICK next \in States : pc' = [pc EXCEPT ![t] = next]
  BY <1>1 DEF Stays
<1>5. \A s \in Threads : s # t => pc'[s] = pc[s] /\ todo'[s] = todo[s]
  BY <1>4 DEF ConfigInv, ConfigSteps, Lock, Answer, TurnOff, CloseNothing, Close, CloseDone,
     OpenDone, Set, Unlock, ClosedThen
<1>6. pc'[t] # "opening"
  BY DEF ConfigInv, ConfigSteps, Lock, Answer, TurnOff, CloseNothing, Close, CloseDone, OpenDone,
     Set, Unlock, ClosedThen, Goto
<1>7. Opening' = {}
  BY <1>3, <1>5, <1>6 DEF Opening
<1>8. /\ Reach' \subseteq Reach
      /\ pc'[t] = "open" => file' = None
      /\ Reach' = {} => pending' = <<>>
  <2>1. CASE CloseDone(t)
    BY <1>7, <2>1 DEF CloseDone, Reach
  <2>2. CASE OpenDone(t)
    <3>1. pc[t] = "opening" /\ file' \in {todo[t], None} /\ pc'[t] = "set"
      BY <2>2 DEF OpenDone, Goto, ConfigInv
    <3>2. Opening = {todo[t]} /\ todo[t] # None
      BY <1>3, <3>1, OpeningBy, LoggerAssumption DEF ConfigInv, ThreadInv
    <3>3. file' = None => pending' = <<>>
      BY <2>2 DEF OpenDone
    <3> QED
      BY <1>7, <3>1, <3>2, <3>3 DEF Reach
  <2>3. CASE Lock(t) \/ Answer(t) \/ TurnOff(t) \/ CloseNothing(t) \/ Close(t) \/ Set(t)
    <3>1. file' = file /\ pending' = pending
      BY <2>3 DEF Lock, Answer, TurnOff, CloseNothing, Close, Set, stream
    <3>2. pc[t] # "opening"
      BY <2>3 DEF Lock, Answer, TurnOff, CloseNothing, Close, Set, Goto, Unlock, ClosedThen
    <3>3. pc'[t] = "open" => file = None
      BY <2>3 DEF ConfigInv, Lock, Answer, TurnOff, CloseNothing, Close, Set, Goto, Unlock
    <3>4. Opening = {}
      BY <1>3, <3>2, OpeningBy
    <3> QED
      BY <1>7, <3>1, <3>3, <3>4 DEF Reach, SpanInv, FileShut
  <2> QED
    BY <2>1, <2>2, <2>3 DEF ConfigSteps
<1>9. FileShut'
  <2>1. \A s \in Threads : pc'[s] \in {"open", "opening"} => s = t /\ pc'[t] = "open"
    BY <1>3, <1>5, <1>6
  <2> QED
    BY <1>8, <2>1 DEF FileShut
<1> QED
  BY <1>1, <1>2, <1>8, <1>9, SpanKept, StepBuffer

LEMMA LogSpan ==
  ASSUME ConfigInv, LineInv, EntryInv, SpanInv, NEW t \in Threads, NEW l \in Levels, Log(t, l)
  PROVE  SpanInv'
<1>1. PICK n \in Lines : n = lines + 1
  BY LoggerAssumption DEF Log, LineInv, Lines
<1>2. /\ pc[t] = "idle" /\ pc' = [pc EXCEPT ![t] = "checkEnabled"]
      /\ line' = [line EXCEPT ![t] = n] /\ lines' = n /\ n <= MaxLines
      /\ console' = console \cup {n}
      /\ spans' = [spans EXCEPT ![n] = Reach]
      /\ UNCHANGED <<todo, holder, file, pending, written>>
  BY <1>1, LoggerAssumption DEF Log, Goto, settings, stream, Reach, Lines
<1>3. Opening' = Opening
  BY <1>2, OpeningSame
<1>4. Reach' = Reach /\ Reach \subseteq Paths
  <2>1. Opening \subseteq Paths
    BY DEF Opening, ConfigInv, ThreadInv
  <2> QED
    BY <1>2, <1>3, <2>1 DEF Reach, EntryInv
<1>5. \A k \in Lines : k # n => spans'[k] = spans[k]
  BY <1>2 DEF SpanInv
<1>6. spans' \in [Lines -> SUBSET Paths] /\ spans'[n] = Reach
  BY <1>2, <1>4 DEF SpanInv
<1>7. \A k \in 1..lines : k \in Lines /\ k # n
  <2>1. lines \in Nat /\ MaxLines \in Nat /\ n = lines + 1 /\ n <= MaxLines
    BY <1>1, <1>2, LoggerAssumption DEF LineInv
  <2> QED
    BY <2>1 DEF Lines
<1> DEFINE After(k) == Reach' \subseteq spans'[k] /\ k \in console'
<1>8. \A k \in 1..lines : Spanned(k) => After(k)
  BY <1>2, <1>4, <1>5, <1>7 DEF Spanned
<1>9. After(n)
  BY <1>2, <1>4, <1>6
<1>10. FileShut'
  <2>1. \A s \in Threads : pc'[s] \in {"open", "opening"} => pc[s] \in {"open", "opening"}
    BY <1>2 DEF ConfigInv
  <2> QED
    BY <1>2, <1>4, <2>1 DEF SpanInv, FileShut
<1>11. CallsSpanned'
  <2>1. \A s \in Threads : line'[s] = n \/ (line'[s] = line[s] /\ line[s] \in 0..lines)
    BY <1>2 DEF LineInv
  <2>2. \A k \in 0..lines : k # 0 => k \in 1..lines
    BY DEF LineInv
  <2>3. \A s \in Threads : line'[s] # 0 => After(line'[s])
    BY <1>8, <1>9, <2>1, <2>2 DEF SpanInv, CallsSpanned
  <2> QED
    BY <2>3 DEF CallsSpanned, Spanned
<1>12. BufferSpanned'
  <2>1. ASSUME NEW i \in 1..Len(pending)
        PROVE  After(pending[i].line)
    <3>1. pending[i] \in Entries(lines)
      BY DEF EntryInv
    <3>2. pending[i].line \in 1..lines
      BY <3>1 DEF Entries
    <3> QED
      BY <1>8, <3>2 DEF SpanInv, BufferSpanned
  <2> QED
    BY <1>2, <2>1 DEF BufferSpanned, Spanned
<1>13. LinesWhereOpen'
  <2> SUFFICES ASSUME NEW p \in Paths, NEW i \in 1..Len(written[p])
               PROVE  p \in spans'[written[p][i].line] /\ written[p][i].line \in console'
    BY <1>2 DEF LinesWhereOpen
  <2>1. written[p] \in Seq(Entries(lines))
    BY DEF EntryInv
  <2>2. written[p][i].line \in 1..lines
    <3>1. written[p][i] \in Entries(lines)
      BY <2>1
    <3> QED
      BY <3>1 DEF Entries
  <2> QED
    BY <1>2, <1>5, <1>7, <2>2 DEF SpanInv, LinesWhereOpen
<1> QED
  BY <1>2, <1>6, <1>10, <1>11, <1>12, <1>13 DEF SpanInv

LEMMA NextSpan ==
  ASSUME ConfigInv, LineInv, EntryInv, SpanInv, [Next]_vars
  PROVE  SpanInv'
<1>1. ASSUME UNCHANGED <<file, pending, written, line, lines, spans, console>>, Opening' = Opening,
             \A s \in Threads : pc'[s] \in {"open", "opening"} => pc[s] = pc'[s]
      PROVE  SpanInv'
  <2>1. Reach' = Reach
    BY <1>1 DEF Reach
  <2> QED
    BY <1>1, <2>1 DEF SpanInv, FileShut, BufferSpanned, CallsSpanned, Spanned, LinesWhereOpen
<1>2. ASSUME UNCHANGED <<pc, todo, file, pending, written, line, lines, spans, console>>
      PROVE  SpanInv'
  <2>1. Opening' = Opening
    BY <1>2 DEF Opening
  <2> QED
    BY <1>1, <1>2, <2>1
<1>3. ASSUME NEW t \in Threads, NEW what \in Paths \cup {Off, Ask}, Configure(t, what)
      PROVE  SpanInv'
  <2>1. /\ pc[t] = "idle" /\ pc' = [pc EXCEPT ![t] = "lock"] /\ todo' = [todo EXCEPT ![t] = what]
        /\ UNCHANGED <<file, pending, written, line, lines, spans, console>>
    BY <1>3 DEF Configure, Goto, stream, history
  <2>2. Opening' = Opening
    BY <2>1, OpeningSame DEF ConfigInv
  <2>3. \A s \in Threads : pc'[s] \in {"open", "opening"} => pc[s] = pc'[s]
    BY <2>1 DEF ConfigInv
  <2> QED
    BY <1>1, <2>1, <2>2, <2>3
<1> QED
  BY <1>2, <1>3, LogSpan, LogStepsSpan, ConfigStepsSpan, OpenSpan
     DEF Next, SetLevel, Die, vars, stream, history

LoggerInv == ConfigInv /\ LineInv /\ EntryInv /\ SpanInv /\ StreamInv

LEMMA LoggerInvariant == Spec => []LoggerInv
<1>1. Init => LoggerInv
  BY InitConfig, InitLines, InitSpan, InitStream DEF LoggerInv
<1>2. LoggerInv /\ [Next]_vars => LoggerInv'
  BY NextConfig, NextLine, NextEntry, NextSpan, NextStream DEF LoggerInv
<1> QED
  BY <1>1, <1>2, PTL DEF Spec

(* A line is only in files that were open, or being opened, during its call, although
   log() checks the stream and uses it without the mutex (logger.h:310). *)
THEOREM LinesAlwaysWhereOpen == Spec => []LinesWhereOpen
<1>1. LoggerInv => LinesWhereOpen
  BY DEF LoggerInv, SpanInv
<1> QED
  BY <1>1, LoggerInvariant, PTL

-----------------------------------------------------------------------------
(* The lines of undisturbed calls.  While such a call is under way nobody configures
   and the stream has never been shared, so the file is still the one the call found
   enabled, and the stream takes and gives up the line as it should. *)

Nowhere(q, n) == \A i \in 1..Len(q) : q[i].line # n

Once(q, n) ==
  \E i \in 1..Len(q) : /\ q[i].line = n /\ q[i].whole = TRUE
                       /\ \A j \in 1..Len(q) : q[j].line = n => j = i

Absent(n) == Nowhere(pending, n) /\ \A p \in Paths : Nowhere(written[p], n)

Buffered(n) == Once(pending, n) /\ \A p \in Paths : Nowhere(written[p], n)

Placed(n) ==
  /\ Nowhere(pending, n)
  /\ \A p \in Paths : IF p = began[n] THEN Once(written[p], n) ELSE Nowhere(written[p], n)

Quietly ==
  /\ mixed = FALSE
  /\ holder = None \/ \E s \in Threads : holder = s /\ pc[s] = "answer"

InCall(t, n) ==
  /\ Quietly
  /\ began[n] = file
  /\ pc[t] = "checkEnabled" => Absent(n)
  /\ pc[t] \in {"checkOpen", "insert", "inserting"} => enabled = TRUE /\ Absent(n)
  /\ pc[t] \in {"flush", "flushing"} => file # None /\ (Buffered(n) \/ Placed(n))

Kept(n) ==
  /\ (\A t \in Threads : line[t] # n) => Placed(n)
  /\ \A t \in Threads : line[t] = n => InCall(t, n)

KeptInv ==
  /\ began \in [Lines -> Paths \cup {None}]
  /\ mixed \in BOOLEAN
  /\ \A n \in 1..lines : n \notin disturbed => Kept(n)

(* Where a line is in a sequence that grows. *)
LEMMA AppendedLine ==
  ASSUME NEW m, NEW q \in Seq(Entries(m)), NEW e \in Entries(m), NEW n
  PROVE  /\ e.line # n /\ Nowhere(q, n) => Nowhere(Append(q, e), n)
         /\ e.line # n /\ Once(q, n) => Once(Append(q, e), n)
         /\ e.line = n /\ e.whole = TRUE /\ Nowhere(q, n) => Once(Append(q, e), n)
<1>1. Len(Append(q, e)) = Len(q) + 1 /\ Len(q) \in Nat
  OBVIOUS
<1>2. \A i \in 1..Len(q) + 1 : IF i = Len(q) + 1 THEN Append(q, e)[i] = e
                                                 ELSE i \in 1..Len(q) /\ Append(q, e)[i] = q[i]
  BY <1>1
<1>3. \A i \in 1..Len(q) : i \in 1..Len(q) + 1 /\ i # Len(q) + 1
  BY <1>1
<1>4. Len(q) + 1 \in 1..Len(q) + 1
  BY <1>1
<1> QED
  BY <1>1, <1>2, <1>3, <1>4 DEF Nowhere, Once

LEMMA ConcatenatedLine ==
  ASSUME NEW m, NEW a \in Seq(Entries(m)), NEW b \in Seq(Entries(m)), NEW n
  PROVE  /\ Nowhere(a, n) /\ Nowhere(b, n) => Nowhere(a \o b, n)
         /\ Once(a, n) /\ Nowhere(b, n) => Once(a \o b, n)
         /\ Nowhere(a, n) /\ Once(b, n) => Once(a \o b, n)
<1>1. /\ Len(a) \in Nat /\ Len(b) \in Nat
      /\ \A i \in 1..Len(a) : i \in 1..Len(a \o b) /\ (a \o b)[i] = a[i]
      /\ \A i \in 1..Len(b) : i + Len(a) \in 1..Len(a \o b) /\ (a \o b)[i + Len(a)] = b[i]
      /\ \A i \in 1..Len(a \o b) : i \in 1..Len(a) \/ i - Len(a) \in 1..Len(b)
  BY Concatenated
<1>2. \A i \in 1..Len(a \o b) :
        \/ i \in 1..Len(a) /\ (a \o b)[i] = a[i]
        \/ i - Len(a) \in 1..Len(b) /\ (a \o b)[i] = b[i - Len(a)]
  <2> SUFFICES ASSUME NEW i \in 1..Len(a \o b), i - Len(a) \in 1..Len(b)
               PROVE  (a \o b)[i] = b[i - Len(a)]
    BY <1>1
  <2>1. i = (i - Len(a)) + Len(a)
    BY <1>1
  <2> QED
    BY <1>1, <2>1
<1>3. Nowhere(a, n) /\ Nowhere(b, n) => Nowhere(a \o b, n)
  BY <1>2 DEF Nowhere
<1>4. Once(a, n) /\ Nowhere(b, n) => Once(a \o b, n)
  <2> SUFFICES ASSUME Nowhere(b, n),
                      NEW i \in 1..Len(a), a[i].line = n, a[i].whole = TRUE,
                      \A j \in 1..Len(a) : a[j].line = n => j = i
               PROVE  Once(a \o b, n)
    BY DEF Once
  <2>1. \A j \in 1..Len(a \o b) : (a \o b)[j].line = n => j = i
    BY <1>2 DEF Nowhere
  <2> QED
    BY <1>1, <2>1 DEF Once
<1>5. Nowhere(a, n) /\ Once(b, n) => Once(a \o b, n)
  <2> SUFFICES ASSUME Nowhere(a, n),
                      NEW i \in 1..Len(b), b[i].line = n, b[i].whole = TRUE,
                      \A j \in 1..Len(b) : b[j].line = n => j = i
               PROVE  Once(a \o b, n)
    BY DEF Once
  <2>1. \A j \in 1..Len(a \o b) : (a \o b)[j].line = n => j - Len(a) = i
    BY <1>2 DEF Nowhere
  <2>2. \A j \in 1..Len(a \o b) : (a \o b)[j].line = n => j = i + Len(a)
    BY <1>1, <2>1
  <2> QED
    BY <1>1, <2>2 DEF Once
<1> QED
  BY <1>3, <1>4, <1>5

(* What leaves the buffer for the file. *)
LEMMA FlushedLine ==
  ASSUME EntryInv, Empties, NEW n
  PROVE  /\ Placed(n) /\ began'[n] = began[n] => Placed(n)'
         /\ Absent(n) => Absent(n)'
         /\ Buffered(n) /\ file = began'[n] /\ written' = Flushed /\ pending' = <<>> => Placed(n)'
<1>1. PICK m \in Seq(Entries(lines)) : m = pending
  BY DEF EntryInv
<1>2. \A p \in Paths : \/ written'[p] = written[p]
                       \/ p = file /\ written'[p] = written[p] \o m
  BY <1>1, FlushedFiles DEF Empties
<1>3. \A p \in Paths : written[p] \in Seq(Entries(lines))
  BY DEF EntryInv
<1>4. \A q, k : q = <<>> => Nowhere(q, k)
  BY DEF Nowhere
<1>5. Nowhere(pending, n) => Nowhere(pending', n)
  BY <1>4 DEF Empties
<1>6. ASSUME Nowhere(pending, n), NEW p \in Paths
      PROVE  /\ Nowhere(written[p], n) => Nowhere(written'[p], n)
             /\ Once(written[p], n) => Once(written'[p], n)
  BY <1>1, <1>2, <1>3, <1>6, ConcatenatedLine
<1>7. Placed(n) /\ began'[n] = began[n] => Placed(n)'
  BY <1>5, <1>6 DEF Placed
<1>8. Absent(n) => Absent(n)'
  BY <1>5, <1>6 DEF Absent
<1>9. ASSUME Buffered(n), file = began'[n], written' = Flushed, pending' = <<>>
      PROVE  Placed(n)'
  <2>1. Nowhere(pending', n)
    BY <1>4, <1>9
  <2>2. \A p \in Paths : IF p = file THEN Once(written'[p], n) ELSE Nowhere(written'[p], n)
    <3>1. ASSUME NEW p \in Paths, p = file
          PROVE  Once(written'[p], n)
      <4>1. written'[p] = written[p] \o m
        BY <1>1, <1>9, <3>1, FlushedFiles
      <4>2. Nowhere(written[p], n) /\ Once(m, n)
        BY <1>1, <1>9 DEF Buffered
      <4> QED
        BY <1>3, <4>1, <4>2, ConcatenatedLine
    <3>2. ASSUME NEW p \in Paths, p # file
          PROVE  Nowhere(written'[p], n)
      BY <1>9, <3>2, FlushedFiles DEF Buffered
    <3> QED
      BY <3>1, <3>2
  <2> QED
    BY <1>9, <2>1, <2>2 DEF Placed
<1> QED
  BY <1>7, <1>8, <1>9

(* The line that a call puts into the buffer. *)
LEMMA BufferedLine ==
  ASSUME EntryInv, LineInv, NEW t \in Threads, Buffers(t), NEW n
  PROVE  /\ line[t] # n /\ Placed(n) /\ began'[n] = began[n] => Placed(n)'
         /\ line[t] # n /\ Absent(n) => Absent(n)'
         /\ line[t] # n /\ Buffered(n) => Buffered(n)'
         /\ line[t] = n /\ Absent(n) /\ pending' = Append(pending, [line |-> n, whole |-> TRUE])
              => Buffered(n)'
<1>1. PICK m \in Seq(Entries(lines)) : m = pending
  BY DEF EntryInv
<1>2. line[t] \in 1..lines
  BY DEF Buffers, LineInv, LogStates
<1>3. PICK e \in Entries(lines) : pending' = Append(m, e) /\ e.line = line[t]
  BY <1>1, <1>2 DEF Buffers, Entries
<1>4. written' = written
  BY DEF Buffers
<1>5. line[t] # n => /\ Nowhere(pending, n) => Nowhere(pending', n)
                     /\ Once(pending, n) => Once(pending', n)
  BY <1>1, <1>3, AppendedLine
<1>6. ASSUME line[t] = n, Nowhere(pending, n), pending' = Append(pending, [line |-> n, whole |-> TRUE])
      PROVE  Once(pending', n)
  <2>1. [line |-> n, whole |-> TRUE] \in Entries(lines)
    BY <1>2, <1>6 DEF Entries
  <2> QED
    BY <1>1, <1>6, <2>1, AppendedLine
<1> QED
  BY <1>4, <1>5, <1>6 DEF Placed, Absent, Buffered

(* In a quiet call the stream is the caller's alone and in order, and nobody opens or
   closes it. *)
LEMMA QuietCall ==
  ASSUME LoggerInv, Quietly
  PROVE  /\ enabled <=> file # None
         /\ file # None => ~bad
         /\ \A t \in Threads : Alone(t)
         /\ \A s \in Threads : pc[s] \in Locked => pc[s] = "answer" /\ holder = s
<1>1. (enabled <=> file # None) /\ \A s \in Threads : pc[s] \in Locked => pc[s] = "answer" /\ holder = s
  <2>1. CASE holder = None
    <3>1. enabled <=> file # None
      BY <2>1 DEF LoggerInv, ConfigInv, SettingsAgree
    <3>2. \A s \in Threads : pc[s] \notin Locked
      BY <2>1, LoggerAssumption DEF LoggerInv, ConfigInv, ThreadInv
    <3> QED
      BY <3>1, <3>2
  <2>2. CASE \E s \in Threads : holder = s /\ pc[s] = "answer"
    BY <2>2 DEF LoggerInv, ConfigInv, ThreadInv
  <2> QED
    BY <2>1, <2>2 DEF Quietly
<1>2. (file # None => ~bad) /\ overlapped = {}
  BY DEF Quietly, LoggerInv, StreamInv, SpoiledOnlyByOverlap
<1> QED
  BY <1>1, <1>2 DEF Alone

(* A line of no call. *)
LEMMA PlacedKept ==
  ASSUME LoggerInv, NEW t \in Threads, LogSteps(t) \/ ConfigSteps(t), began' = began,
         NEW n, n # 0, Placed(n), \A s \in Threads : line[s] # n
  PROVE  Kept(n)'
<1>1. Placed(n)'
  BY StepBuffer, FlushedLine, BufferedLine DEF LoggerInv
<1>2. \A s \in Threads : line'[s] # n
  BY LogCall, ConfigCall DEF LoggerInv, LineInv, Stays, Returns
<1> QED
  BY <1>1, <1>2 DEF Kept

LEMMA ConfigStepsKept ==
  ASSUME LoggerInv, KeptInv, NEW t \in Threads, ConfigSteps(t)
  PROVE  KeptInv'
<1>1. /\ pc[t] \notin LogStates /\ Stays(t) /\ UNCHANGED <<line, lines>>
  BY ConfigCall DEF Stays
<1>2. began' = began /\ disturbed \subseteq disturbed' /\ mixed' \in BOOLEAN
  BY DEF ConfigSteps, Lock, Answer, TurnOff, CloseNothing, Close, CloseDone, Open, OpenDone, Set,
     Begin, BeginUse, history, KeptInv
<1>3. line[t] = 0
  BY <1>1 DEF LoggerInv, LineInv
<1> SUFFICES ASSUME NEW n \in 1..lines, n \notin disturbed'
             PROVE  Kept(n)'
  BY <1>1, <1>2 DEF KeptInv
<1>4. Kept(n) /\ n # 0
  BY <1>2 DEF KeptInv, LoggerInv, LineInv
<1>5. CASE \A s \in Threads : line[s] # n
  BY <1>2, <1>4, <1>5, PlacedKept DEF Kept
<1>6. CASE \E s \in Threads : line[s] = n
  <2>1. PICK s \in Threads : line[s] = n /\ InCall(s, n) /\ s # t
    BY <1>3, <1>4, <1>6 DEF Kept
  <2>2. pc[t] \in {"lock", "answer"}
    BY <2>1, QuietCall DEF InCall, ConfigSteps, Lock, Answer, TurnOff, CloseNothing, Close, CloseDone,
       Open, OpenDone, Set, Goto, Unlock, ClosedThen, Locked
  <2>3. Lock(t) \/ Answer(t)
    BY <2>2 DEF ConfigSteps, Lock, Answer, TurnOff, CloseNothing, Close, CloseDone,
       Open, OpenDone, Set, Goto, Unlock, ClosedThen
  <2>4. Lock(t) => todo[t] = Ask
    BY <1>4, <2>1 DEF Lock, InFlight
  <2>5. /\ UNCHANGED <<file, enabled, pending, written, mixed>>
        /\ holder' = None \/ (holder' = t /\ pc'[t] = "answer")
    BY <2>3, <2>4 DEF Lock, Answer, Unlock, Goto, stream, history, LoggerInv, ConfigInv
  <2>6. pc'[s] = pc[s]
    BY <1>1, <2>1 DEF Stays, LoggerInv, ConfigInv
  <2>7. InCall(s, n)'
    BY <1>2, <2>1, <2>5, <2>6 DEF InCall, Quietly, Absent, Buffered, Placed
  <2> QED
    BY <1>1, <2>1, <2>7 DEF Kept, LoggerInv, LineInv
<1> QED
  BY <1>5, <1>6

(* The caller's own line, and the other lines under way. *)
LEMMA OwnLineKept ==
  ASSUME LoggerInv, NEW t \in Threads, LogSteps(t), began' = began, NEW n, line[t] = n,
         InCall(t, n), Quietly', n # 0
  PROVE  Kept(n)'
<1>1. UNCHANGED <<file, enabled>>
  BY DEF LogSteps, CheckEnabled, CheckOpen, Insert, Inserted, Flush, FlushDone, settings, stream
<1>2. (enabled <=> file # None) /\ (file # None => ~bad) /\ Alone(t)
      /\ \A s \in Threads : pc[s] \notin {"opening", "closing"}
  BY QuietCall DEF InCall, Locked
<1>3. \A s \in Threads : line[s] = n => s = t
  BY DEF LoggerInv, LineInv
<1>4. ASSUME Returns(t), Placed(n)'
      PROVE  Kept(n)'
  <2>1. \A s \in Threads : line'[s] # n
    BY <1>3, <1>4 DEF Returns, LoggerInv, LineInv
  <2> QED
    BY <1>4, <2>1 DEF Kept
<1>5. ASSUME line' = line, InCall(t, n)'
      PROVE  Kept(n)'
  BY <1>3, <1>5 DEF Kept
<1>6. pc \in [Threads -> States] /\ began[n] = file /\ Quietly'
  BY DEF LoggerInv, ConfigInv, InCall
<1>7. CASE CheckEnabled(t)
  <2>1. Absent(n) /\ UNCHANGED <<pending, written>>
    BY <1>7 DEF CheckEnabled, InCall, Goto, Logged, stream
  <2>2. CASE enabled
    BY <1>1, <1>5, <1>6, <1>7, <2>1, <2>2 DEF CheckEnabled, Goto, InCall, Absent, LoggerInv, ConfigInv
  <2>3. CASE ~enabled
    <3>1. Placed(n)'
      BY <1>2, <1>6, <2>1, <2>3, LoggerAssumption DEF Absent, Placed
    <3> QED
      BY <1>4, <1>7, <2>3, <3>1, LogCall DEF CheckEnabled, Logged, Goto, Stays, Returns, history
  <2> QED
    BY <2>2, <2>3
<1>8. CASE CheckOpen(t)
  <2>1. pc[t] = "checkOpen" /\ enabled = TRUE /\ Absent(n) /\ UNCHANGED <<pending, written>>
    BY <1>8 DEF CheckOpen, InCall, Goto, Logged, stream
  <2>2. FALSE \notin IsOpen
    BY <1>2, <2>1 DEF IsOpen
  <2> QED
    BY <1>1, <1>5, <1>6, <1>8, <2>1, <2>2 DEF CheckOpen, Goto, InCall, Absent
<1>9. CASE Insert(t)
  BY <1>1, <1>5, <1>6, <1>9 DEF Insert, Goto, InCall, Absent, stream
<1>10. CASE Inserted(t)
  <2>1. pc[t] = "inserting" /\ enabled = TRUE /\ Absent(n) /\ pc' = [pc EXCEPT ![t] = "flush"]
        /\ line' = line /\ written' = written
    BY <1>10 DEF Inserted, Goto, InCall
  <2>2. pending' = Append(pending, [line |-> n, whole |-> TRUE])
    BY <1>2, <1>10, <2>1 DEF Inserted, Entry
  <2>3. Buffers(t)
    BY <2>1, <2>2 DEF Buffers
  <2>4. Buffered(n)'
    BY <2>1, <2>2, <2>3, BufferedLine DEF LoggerInv
  <2> QED
    BY <1>1, <1>2, <1>5, <1>6, <2>1, <2>4 DEF InCall
<1>11. CASE Flush(t)
  BY <1>1, <1>5, <1>6, <1>11 DEF Flush, Goto, InCall, Buffered, Placed, stream
<1>12. CASE FlushDone(t)
  <2>1. pc[t] = "flushing" /\ file # None /\ (Buffered(n) \/ Placed(n))
    BY <1>12 DEF FlushDone, Logged, Goto, InCall
  <2>2. written' = Flushed /\ pending' = <<>>
    BY <1>2, <1>12, <2>1 DEF FlushDone
  <2>3. Placed(n)'
    BY <1>6, <2>1, <2>2, FlushedLine DEF Empties, LoggerInv
  <2>4. Returns(t)
    <3>1. line' = [line EXCEPT ![t] = 0] /\ pc' = [pc EXCEPT ![t] = "idle"] /\ lines' = lines
      BY <1>12 DEF FlushDone, Logged, Goto
    <3> QED
      BY <3>1 DEF Returns
  <2> QED
    BY <1>4, <2>3, <2>4
<1> QED
  BY <1>7, <1>8, <1>9, <1>10, <1>11, <1>12 DEF LogSteps

LEMMA OtherLineKept ==
  ASSUME LoggerInv, NEW t \in Threads, LogSteps(t), began' = began,
         NEW s \in Threads, s # t, NEW n, line[s] = n, n # 0, InCall(s, n), Quietly'
  PROVE  Kept(n)'
<1>1. UNCHANGED <<file, enabled>>
  BY DEF LogSteps, CheckEnabled, CheckOpen, Insert, Inserted, Flush, FlushDone, settings, stream
<1>2. pc'[s] = pc[s] /\ line'[s] = n /\ line[t] # n /\ \A r \in Threads : line'[r] = n => r = s
  BY LogCall DEF Stays, Returns, LoggerInv, ConfigInv, LineInv
<1>3. began[n] = file /\ (file # None => ~bad) /\ Alone(t)
  BY QuietCall DEF InCall
<1>4. Absent(n) => Absent(n)'
  BY <1>2, StepBuffer, FlushedLine, BufferedLine DEF LoggerInv
<1>5. Placed(n) => Placed(n)'
  BY <1>2, StepBuffer, FlushedLine, BufferedLine DEF LoggerInv
<1>6. Buffered(n) /\ file # None => Buffered(n)' \/ Placed(n)'
  <2>1. CASE FlushDone(t)
    <3>1. file # None => written' = Flushed /\ pending' = <<>>
      BY <1>3, <2>1 DEF FlushDone
    <3> QED
      BY <1>3, <3>1, FlushedLine DEF Empties, LoggerInv
  <2>2. CASE Inserted(t)
    <3>1. Buffers(t) \/ UNCHANGED <<pending, written>>
      BY <2>2 DEF Inserted, Buffers, Entry, Goto
    <3>2. UNCHANGED <<pending, written>> /\ Buffered(n) => Buffered(n)'
      BY DEF Buffered
    <3> QED
      BY <1>2, <3>1, <3>2, BufferedLine DEF LoggerInv
  <2>3. CASE CheckEnabled(t) \/ CheckOpen(t) \/ Insert(t) \/ Flush(t)
    <3>1. UNCHANGED <<pending, written>>
      BY <2>3 DEF CheckEnabled, CheckOpen, Insert, Flush, stream
    <3> QED
      BY <3>1 DEF Buffered
  <2> QED
    BY <2>1, <2>2, <2>3 DEF LogSteps
<1>7. InCall(s, n)'
  BY <1>1, <1>2, <1>3, <1>4, <1>5, <1>6 DEF InCall
<1> QED
  BY <1>2, <1>7 DEF Kept

LEMMA LogStepsKept ==
  ASSUME LoggerInv, KeptInv, NEW t \in Threads, LogSteps(t)
  PROVE  KeptInv'
<1>1. /\ pc[t] \in LogStates /\ (Stays(t) \/ Returns(t)) /\ lines' = lines
  BY LogCall DEF Stays, Returns
<1>2. UNCHANGED <<began, holder>> /\ disturbed \subseteq disturbed' /\ mixed' \in BOOLEAN
  BY DEF LogSteps, CheckEnabled, CheckOpen, Insert, Inserted, Flush, FlushDone,
     Begin, BeginUse, history, settings, KeptInv
<1>3. mixed' = mixed \/ InFlight \subseteq disturbed'
  BY DEF LogSteps, CheckEnabled, CheckOpen, Insert, Inserted, Flush, FlushDone, Begin, BeginUse,
     history
<1> SUFFICES ASSUME NEW n \in 1..lines, n \notin disturbed'
             PROVE  Kept(n)'
  BY <1>1, <1>2 DEF KeptInv
<1>4. Kept(n) /\ n # 0
  BY <1>2 DEF KeptInv, LoggerInv, LineInv
<1>5. CASE \A s \in Threads : line[s] # n
  BY <1>2, <1>4, <1>5, PlacedKept DEF Kept
<1>6. CASE \E s \in Threads : line[s] = n
  <2>1. PICK s \in Threads : line[s] = n /\ InCall(s, n)
    BY <1>4, <1>6 DEF Kept
  <2>2. mixed' = mixed
    BY <1>3, <1>4, <2>1 DEF InFlight
  <2>3. \A r \in Threads : pc[r] = "answer" => pc'[r] = "answer"
    BY <1>1 DEF Stays, Returns, LoggerInv, ConfigInv, LogStates
  <2>4. Quietly'
    BY <1>2, <2>1, <2>2, <2>3 DEF InCall, Quietly
  <2> QED
    BY <1>2, <1>4, <2>1, <2>4, OwnLineKept, OtherLineKept
<1> QED
  BY <1>5, <1>6

LEMMA LogKept ==
  ASSUME LoggerInv, KeptInv, NEW t \in Threads, NEW l \in Levels, Log(t, l)
  PROVE  KeptInv'
<1>1. PICK n \in Lines : n = lines + 1
  BY LoggerAssumption DEF Log, LoggerInv, LineInv, Lines
<1>2. /\ pc[t] = "idle" /\ pc' = [pc EXCEPT ![t] = "checkEnabled"]
      /\ line' = [line EXCEPT ![t] = n] /\ lines' = n
      /\ began' = [began EXCEPT ![n] = IF enabled THEN file ELSE None]
      /\ disturbed' = IF holder # None \/ mixed THEN disturbed \cup {n} ELSE disturbed
      /\ UNCHANGED <<holder, enabled, file, pending, written, mixed>>
  BY <1>1 DEF Log, Goto, settings, stream
<1>3. /\ pc \in [Threads -> States] /\ line \in [Threads -> 0..lines] /\ lines \in Nat
      /\ mixed \in BOOLEAN /\ enabled \in BOOLEAN
      /\ began \in [Lines -> Paths \cup {None}] /\ lines <= MaxLines /\ MaxLines \in Nat
  BY LoggerAssumption DEF LoggerInv, ConfigInv, LineInv, SpanInv, KeptInv
<1>4. began' \in [Lines -> Paths \cup {None}] /\ began'[n] = IF enabled THEN file ELSE None
  BY <1>2, <1>3 DEF LoggerInv, EntryInv
<1>5. Quietly => Quietly'
  BY <1>2, <1>3 DEF Quietly
<1>6. ASSUME NEW k \in 1..lines, k \notin disturbed'
      PROVE  Kept(k)'
  <2>1. Kept(k) /\ k # n /\ k \in Lines /\ k # 0
    BY <1>1, <1>2, <1>3, <1>6 DEF KeptInv, Lines
  <2>2. began'[k] = began[k]
    BY <1>2, <1>3, <2>1
  <2>3. line[t] = 0
    BY <1>2 DEF LoggerInv, LineInv, LogStates
  <2>4. \A s \in Threads : line'[s] = k <=> line[s] = k
    BY <1>2, <1>3, <2>1, <2>3
  <2>5. \A s \in Threads : line[s] = k => pc'[s] = pc[s]
    BY <1>2, <1>3, <2>1, <2>3
  <2>6. ASSUME NEW s \in Threads, line[s] = k
        PROVE  InCall(s, k)'
    BY <1>2, <1>5, <2>1, <2>2, <2>5, <2>6 DEF Kept, InCall, Absent, Buffered, Placed
  <2>7. Placed(k) => Placed(k)'
    BY <1>2, <2>2 DEF Placed
  <2> QED
    BY <2>1, <2>4, <2>6, <2>7 DEF Kept
<1>7. ASSUME n \notin disturbed'
      PROVE  Kept(n)'
  <2>1. holder = None /\ mixed = FALSE
    BY <1>2, <1>3, <1>7
  <2>2. enabled <=> file # None
    BY <2>1 DEF LoggerInv, ConfigInv, SettingsAgree
  <2>3. began'[n] = file
    BY <1>4, <2>2
  <2>4. Absent(n)
    <3>1. ASSUME NEW q \in Seq(Entries(lines))
          PROVE  Nowhere(q, n)
      <4>1. ASSUME NEW i \in 1..Len(q)
            PROVE  q[i].line # n
        <5>1. q[i] \in Entries(lines)
          OBVIOUS
        <5> QED
          BY <1>1, <1>3, <5>1 DEF Entries
      <4> QED
        BY <4>1 DEF Nowhere
    <3> QED
      BY <3>1 DEF Absent, LoggerInv, EntryInv
  <2>5. \A s \in Threads : line'[s] = n <=> s = t
    BY <1>1, <1>2, <1>3
  <2>6. InCall(t, n)'
    BY <1>2, <1>3, <2>1, <2>3, <2>4 DEF InCall, Quietly, Absent
  <2> QED
    BY <2>5, <2>6 DEF Kept
<1>8. \A k \in 1..lines' : k \in 1..lines \/ k = n
  BY <1>1, <1>2, <1>3
<1> QED
  BY <1>2, <1>3, <1>4, <1>6, <1>7, <1>8 DEF KeptInv

LEMMA NextKept == LoggerInv /\ KeptInv /\ [Next]_vars => KeptInv'
<1> SUFFICES ASSUME LoggerInv, KeptInv, [Next]_vars
             PROVE  KeptInv'
  OBVIOUS
<1>1. ASSUME UNCHANGED <<holder, enabled, file, pending, written, line, lines, began, disturbed, mixed>>,
             \A s \in Threads : pc[s] \in LogStates \cup {"answer"} => pc'[s] = pc[s]
      PROVE  KeptInv'
  <2>1. Quietly => Quietly'
    BY <1>1 DEF Quietly
  <2>2. \A n, s : s \in Threads /\ line[s] = n /\ n # 0 => pc'[s] = pc[s]
    BY <1>1 DEF LoggerInv, LineInv
  <2>3. ASSUME NEW n \in 1..lines, Kept(n)
        PROVE  Kept(n)'
    <3>1. n # 0
      BY DEF LoggerInv, LineInv
    <3> QED
      BY <1>1, <2>1, <2>2, <2>3, <3>1 DEF Kept, InCall, Absent, Buffered, Placed
  <2> QED
    BY <1>1, <2>3 DEF KeptInv
<1>2. ASSUME NEW t \in Threads, NEW what \in Paths \cup {Off, Ask}, Configure(t, what)
      PROVE  KeptInv'
  <2>1. /\ pc[t] = "idle" /\ pc' = [pc EXCEPT ![t] = "lock"]
        /\ UNCHANGED <<holder, enabled, file, pending, written, line, lines, began, disturbed, mixed>>
    BY <1>2 DEF Configure, Goto, settings, stream, history
  <2>2. \A s \in Threads : pc[s] \in LogStates \cup {"answer"} => pc'[s] = pc[s]
    BY <2>1 DEF LoggerInv, ConfigInv, LogStates
  <2> QED
    BY <1>1, <2>1, <2>2
<1>3. CASE Die \/ UNCHANGED vars \/ \E t \in Threads, l \in Levels : SetLevel(t, l)
  BY <1>1, <1>3 DEF Die, SetLevel, vars, settings, stream, history
<1> QED
  BY <1>2, <1>3, LogKept, LogStepsKept, ConfigStepsKept DEF Next

LEMMA KeptInvariant == Spec => []KeptInv
<1>1. Init => KeptInv
  <2> SUFFICES ASSUME Init
               PROVE  KeptInv
    OBVIOUS
  <2>1. lines = 0 /\ mixed = FALSE
    BY DEF Init
  <2>2. began \in [Lines -> Paths \cup {None}]
    BY DEF Init
  <2>3. \A n \in 1..lines : FALSE
    BY <2>1
  <2>4. mixed \in BOOLEAN
    BY <2>1
  <2> QED
    BY <2>2, <2>3, <2>4 DEF KeptInv
<1> QED
  BY <1>1, NextKept, LoggerInvariant, PTL DEF Spec

(* A call of log() that overlaps no configuration, with no two threads ever in the
   stream at once before it is over, puts its line once and whole into the file that was
   enabled, and into no other (logger.h:310). *)
THEOREM UndisturbedLinesAlwaysKept == Spec => []UndisturbedLinesKept
<1>1. LoggerInv /\ KeptInv => UndisturbedLinesKept
  <2> SUFFICES ASSUME LoggerInv, KeptInv, NEW n \in 1..lines, n \notin InFlight, n \notin disturbed,
                      NEW p \in Paths
               PROVE  IF p = began[n]
                      THEN \E i \in 1..Len(written[p]) : Places(p, n) = {i} /\ written[p][i].whole
                      ELSE Places(p, n) = {}
    BY DEF UndisturbedLinesKept
  <2>1. \A t \in Threads : line[t] # n
    BY DEF InFlight, LoggerInv, LineInv
  <2>2. Placed(n)
    BY <2>1 DEF KeptInv, Kept
  <2>3. CASE p = began[n]
    <3>1. PICK i \in 1..Len(written[p]) :
                  /\ written[p][i].line = n /\ written[p][i].whole = TRUE
                  /\ \A j \in 1..Len(written[p]) : written[p][j].line = n => j = i
      BY <2>2, <2>3 DEF Placed, Once
    <3>2. Places(p, n) = {i}
      BY <3>1 DEF Places
    <3> QED
      BY <2>3, <3>1, <3>2
  <2>4. CASE p # began[n]
    BY <2>2, <2>4 DEF Placed, Nowhere, Places
  <2> QED
    BY <2>3, <2>4
<1> QED
  BY <1>1, LoggerInvariant, KeptInvariant, PTL

=============================================================================
