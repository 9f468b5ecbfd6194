---------------------------- MODULE DaemonProofs ----------------------------
(***************************************************************************)
(* The safety invariants of Daemon and of the configuration it loads, for  *)
(* any files, command lines and values.                                    *)
(***************************************************************************)
EXTENDS Daemon, TLAPS

-----------------------------------------------------------------------------
(* The configuration: what is so after every line that was read *)

\* The file is one that may be loaded, or the one that Detach has closed.
ConfigTypeOK ==
  /\ Len(file) \in Nat /\ DOMAIN file = 1 .. Len(file)
  /\ \A n \in 1 .. Len(file) : ~(Conf!IsHeader(file[n]) /\ Conf!IsKey(file[n]))
  /\ read \in 0 .. Len(file)
  /\ arguments = [o \in Conf!Options |-> arguments[o]]

\* LoadKVS is in the section of the line it has read last.
InSection == section = Conf!SectionOf(read)

\* Conf!LoadedAsRegistered of the lines that were read.
LastLineCounts(o) ==
  \E n \in 1 .. read :
    /\ Conf!Says(n, o) /\ \A m \in (n + 1) .. read : ~Conf!Says(m, o)
    /\ arguments[o] = Conf!Parse(o[2], file[n].text)

NoLineCounts(o) ==
  arguments[o] = given[o] /\ \A n \in 1 .. read : ~Conf!Says(n, o)

ReadAsWritten == \A o \in Conf!Options : LastLineCounts(o) \/ NoLineCounts(o)

ConfigInv == ConfigTypeOK /\ InSection /\ ReadAsWritten

-----------------------------------------------------------------------------
(* The processes *)

Ended == {"exited", "crashed"}

\* There is a child only after the fork, and only a parent that waits has one
\* to fork again; exited is history of a child that is not replaced.
Family ==
  /\ parent \in {"load", "fork"} => child = "none"
  /\ child \in {"none", "exited", "crashed"} \union Running
  /\ child \in Running => parent \in {"waiting", "engine"}
  /\ exited => child = "exited"

\* Until sensor_main sets it, activated is what Fresh and sensor_init leave.
Options ==
  /\ child \in {"none", "signals", "init", "options"} => ~activated
  /\ child = "main" => opt = Given

IInv == ConfigInv /\ Family /\ Options

-----------------------------------------------------------------------------
(* The section of a line (Config!SectionOf)                                *)

(* Before the first line LoadKVS is in the section main.                   *)
LEMMA NoLine == Conf!SectionOf(0) = "main"
  BY DEF Conf!SectionOf, Conf!HeadersBefore

(* A header that names a section starts it.                                *)
LEMMA SectionOfHeader ==
  ASSUME NEW n \in Nat \ {0},
         Conf!IsHeader(file[n]), file[n].section \in Conf!Sections
  PROVE  Conf!SectionOf(n) = file[n].section
  <1> DEFINE H == Conf!HeadersBefore(n)
  <1>1. n \in H /\ H \subseteq 1 .. n
    BY DEF Conf!HeadersBefore
  <1>2. \A k \in H : k <= n
    BY <1>1
  <1>3. \A m \in H : (\A k \in H : k <= m) => m = n
    <2>1. \A m \in H : m \in Int /\ m <= n
      BY <1>1
    <2> HIDE DEF H
    <2> QED
      BY <1>1, <2>1
  <1>4. (CHOOSE m \in H : \A k \in H : k <= m) = n
    <2> HIDE DEF H
    <2> QED
      BY <1>1, <1>2, <1>3
  <1> QED
    BY <1>1, <1>4 DEF Conf!SectionOf

(* Every other line is in the section of the line before it.               *)
LEMMA SectionOfOther ==
  ASSUME NEW n \in Nat,
         ~(Conf!IsHeader(file[n + 1]) /\ file[n + 1].section \in Conf!Sections)
  PROVE  Conf!SectionOf(n + 1) = Conf!SectionOf(n)
  <1>1. 1 .. (n + 1) = (1 .. n) \union {n + 1}
    OBVIOUS
  <1>2. Conf!HeadersBefore(n + 1) = Conf!HeadersBefore(n)
    BY <1>1 DEF Conf!HeadersBefore
  <1> DEFINE Of(H) == IF H = {} THEN "main"
                      ELSE file[CHOOSE m \in H : \A k \in H : k <= m].section
  <1>3. \A k : Conf!SectionOf(k) = Of(Conf!HeadersBefore(k))
    BY DEF Conf!SectionOf
  <1> HIDE DEF Of
  <1> QED
    BY <1>2, <1>3

(* What a line says depends on the file alone.                             *)
LEMMA SameFile ==
  ASSUME UNCHANGED file, NEW n, NEW o
  PROVE  /\ Conf!SectionOf(n)' = Conf!SectionOf(n)
         /\ Conf!Says(n, o)' <=> Conf!Says(n, o)
  <1>1. Conf!HeadersBefore(n)' = Conf!HeadersBefore(n)
    BY DEF Conf!HeadersBefore
  <1>2. Conf!SectionOf(n)' = Conf!SectionOf(n)
    BY <1>1 DEF Conf!SectionOf
  <1> QED
    BY <1>2 DEF Conf!Says

(* The number of the next line, and what kinds it may be of.               *)
LEMMA NextLineFacts ==
  ASSUME ConfigTypeOK, read < Len(file)
  PROVE  /\ read \in Nat /\ read + 1 \in 1 .. Len(file)
         /\ 1 .. (read + 1) = (1 .. read) \union {read + 1}
         /\ ~(Conf!IsHeader(file[read + 1]) /\ Conf!IsKey(file[read + 1]))
  <1>1. read \in Nat /\ Len(file) \in Nat
    BY DEF ConfigTypeOK
  <1>2. read + 1 \in 1 .. Len(file) /\ 1 .. (read + 1) = (1 .. read) \union {read + 1}
    BY <1>1
  <1> QED
    BY <1>1, <1>2 DEF ConfigTypeOK

-----------------------------------------------------------------------------
(* LoadKVS                                                                 *)

(* Nothing was read yet, and nothing of what the command line gave changed. *)
LEMMA InitConfig == Conf!Init => ConfigInv
  <1>1. SUFFICES ASSUME Conf!Init PROVE ConfigInv
    OBVIOUS
  <1>2. file \in Files /\ read = 0 /\ section = "main" /\ arguments = given
    BY <1>1 DEF Conf!Init
  <1>3. PICK line \in CommandLines : given = Conf!args_parse(line)
    BY <1>1 DEF Conf!Init
  <1>4. ConfigTypeOK
    <2>1. Len(file) \in Nat /\ DOMAIN file = 1 .. Len(file)
      BY <1>2, DaemonAssumption
    <2>2. arguments = [o \in Conf!Options |-> arguments[o]]
      BY <1>2, <1>3 DEF Conf!args_parse
    <2>3. \A n \in 1 .. Len(file) : ~(Conf!IsHeader(file[n]) /\ Conf!IsKey(file[n]))
      BY <1>2, <2>1, DaemonAssumption
    <2>4. read \in 0 .. Len(file)
      BY <1>2, <2>1
    <2> QED
      BY <2>1, <2>2, <2>3, <2>4 DEF ConfigTypeOK
  <1>5. InSection
    BY <1>2, NoLine DEF InSection
  <1>6. ReadAsWritten
    BY <1>2 DEF ReadAsWritten, NoLineCounts
  <1> QED
    BY <1>4, <1>5, <1>6 DEF ConfigInv

(* A line that says nothing of an option leaves the option to what the lines *)
(* before it said.                                                          *)
LEMMA SilentLine ==
  ASSUME ConfigInv, read < Len(file), read' = read + 1, UNCHANGED <<file, given>>,
         NEW o \in Conf!Options, ~Conf!Says(read + 1, o), arguments'[o] = arguments[o]
  PROVE  (LastLineCounts(o) \/ NoLineCounts(o))'
  <1>1. /\ read \in Nat
        /\ \A n : Conf!Says(n, o)' <=> Conf!Says(n, o)
    BY SameFile, NextLineFacts DEF ConfigInv
  <1>2. 1 .. read' = (1 .. read) \union {read + 1}
    BY NextLineFacts DEF ConfigInv
  <1>3. CASE LastLineCounts(o)
    <2>1. PICK n \in 1 .. read :
            /\ Conf!Says(n, o) /\ \A m \in (n + 1) .. read : ~Conf!Says(m, o)
            /\ arguments[o] = Conf!Parse(o[2], file[n].text)
      BY <1>3 DEF LastLineCounts
    <2>2. (n + 1) .. read' \subseteq ((n + 1) .. read) \union {read + 1}
      BY <1>1
    <2> QED
      BY <1>1, <1>2, <2>1, <2>2 DEF LastLineCounts
  <1>4. CASE NoLineCounts(o)
    BY <1>1, <1>2, <1>4 DEF NoLineCounts
  <1> QED
    BY <1>3, <1>4 DEF ConfigInv, ReadAsWritten

(* A comment and a header change no option.                                *)
LEMMA ReadOtherKeeps == ConfigInv /\ (Conf!ReadComment \/ Conf!ReadHeader) => ConfigInv'
  <1>1. SUFFICES ASSUME ConfigInv, Conf!ReadComment \/ Conf!ReadHeader PROVE ConfigInv'
    OBVIOUS
  <1>2. /\ read < Len(file) /\ read' = read + 1 /\ UNCHANGED <<file, given, arguments>>
        /\ ~Conf!IsKey(file[read + 1])
    BY <1>1 DEF Conf!ReadComment, Conf!ReadHeader, Conf!NextLine, Conf!Line,
                ConfigInv, ConfigTypeOK
  <1>3. ConfigTypeOK'
    BY <1>1, <1>2 DEF ConfigInv, ConfigTypeOK
  <1>4. section' = Conf!SectionOf(read + 1)
    <2>1. CASE Conf!IsHeader(file[read + 1]) /\ file[read + 1].section \in Conf!Sections
      <3>1. section' = file[read + 1].section
        BY <1>1, <2>1 DEF Conf!ReadComment, Conf!ReadHeader, Conf!Line
      <3> QED
        BY <1>1, <2>1, <3>1, SectionOfHeader DEF ConfigInv, ConfigTypeOK
    <2>2. CASE ~(Conf!IsHeader(file[read + 1]) /\ file[read + 1].section \in Conf!Sections)
      <3>1. section' = section
        BY <1>1, <2>2 DEF Conf!ReadComment, Conf!ReadHeader, Conf!Line
      <3> QED
        BY <1>1, <2>2, <3>1, SectionOfOther DEF ConfigInv, ConfigTypeOK, InSection
    <2> QED
      BY <2>1, <2>2
  <1>5. InSection'
    BY <1>2, <1>4 DEF InSection, Conf!SectionOf, Conf!HeadersBefore
  <1>6. ReadAsWritten'
    <2>1. \A o \in Conf!Options : ~Conf!Says(read + 1, o)
      BY <1>2 DEF Conf!Says
    <2> QED
      BY <1>1, <1>2, <2>1, SilentLine DEF ReadAsWritten
  <1> QED
    BY <1>3, <1>5, <1>6 DEF ConfigInv

(* A key with a value says it of the option that has the key in the section, *)
(* and of no other.                                                         *)
LEMMA ReadKeyKeeps == ConfigInv /\ Conf!ReadKey => ConfigInv'
  <1>1. SUFFICES ASSUME ConfigInv, Conf!ReadKey PROVE ConfigInv'
    OBVIOUS
  <1> DEFINE line == file[read + 1]
             named == <<section, line.key>>
  <1>2. /\ read < Len(file) /\ read' = read + 1 /\ UNCHANGED <<file, given, section>>
        /\ Conf!IsKey(line) /\ ~Conf!IsHeader(line)
        /\ read \in Nat
    <2>1. /\ read < Len(file) /\ read' = read + 1 /\ UNCHANGED <<file, given, section>>
          /\ Conf!IsKey(line)
      BY <1>1 DEF Conf!ReadKey, Conf!NextLine, Conf!Line
    <2> QED
      BY <1>1, <2>1, NextLineFacts DEF ConfigInv
  <1>3. arguments' = IF named \in Conf!Options /\ line.text # ""
                       THEN [arguments EXCEPT ![named] = Conf!Parse(line.key, line.text)]
                       ELSE arguments
    BY <1>1 DEF Conf!ReadKey, Conf!Line
  <1>4. ConfigTypeOK'
    <2>1. arguments' = [o \in Conf!Options |-> arguments'[o]]
      BY <1>1, <1>3 DEF ConfigInv, ConfigTypeOK
    <2> QED
      BY <1>1, <1>2, <2>1 DEF ConfigInv, ConfigTypeOK
  <1>5. section = Conf!SectionOf(read + 1)
    BY <1>1, <1>2, SectionOfOther DEF ConfigInv, InSection
  <1>6. InSection'
    BY <1>2, <1>5 DEF InSection, Conf!SectionOf, Conf!HeadersBefore
  <1>7. ASSUME NEW o \in Conf!Options
        PROVE  (LastLineCounts(o) \/ NoLineCounts(o))'
    <2>1. o = <<o[1], o[2]>>
      BY DEF Conf!Options
    <2>2. Conf!Says(read + 1, o) <=> o = named /\ line.text # ""
      <3>1. Conf!Says(read + 1, o) <=> line.key = o[2] /\ line.text # "" /\ section = o[1]
        BY <1>2, <1>5 DEF Conf!Says
      <3>2. o = named <=> line.key = o[2] /\ section = o[1]
        BY <2>1
      <3> QED
        BY <3>1, <3>2
    <2>3. CASE Conf!Says(read + 1, o)
      <3>1. arguments'[o] = Conf!Parse(o[2], line.text)
        <4>1. o[2] = line.key
          BY <2>3 DEF Conf!Says
        <4>2. o \in DOMAIN arguments /\ o = named /\ line.text # ""
          BY <1>1, <2>2, <2>3 DEF ConfigInv, ConfigTypeOK
        <4> HIDE DEF line, named
        <4> QED
          BY <1>3, <4>1, <4>2
      <3>2. PICK n \in Nat : n = read + 1
        BY <1>2
      <3>3. Conf!Says(n, o)' /\ n = read'
        BY <1>2, <2>3, <3>2, SameFile
      <3>4. (n + 1) .. read' = {} /\ n \in 1 .. read'
        BY <1>2, <3>2
      <3>5. arguments'[o] = Conf!Parse(o[2], file'[n].text)
        BY <1>2, <3>1, <3>2
      <3> QED
        BY <3>3, <3>4, <3>5 DEF LastLineCounts
    <2>4. CASE ~Conf!Says(read + 1, o)
      <3>1. arguments'[o] = arguments[o]
        <4> HIDE DEF line, named
        <4> QED
          BY <1>1, <1>3, <2>2, <2>4 DEF ConfigInv, ConfigTypeOK
      <3> QED
        BY <1>1, <1>2, <2>4, <3>1, SilentLine
    <2> QED
      BY <2>3, <2>4
  <1> QED
    BY <1>4, <1>6, <1>7 DEF ConfigInv, ReadAsWritten

(* Closing the file leaves an empty one, which says nothing.               *)
LEMMA CloseKeeps ==
  ASSUME ConfigInv, file' = <<>>, read' = 0, section' = "main",
         given' = arguments, arguments' = arguments
  PROVE  ConfigInv'
  <1>1. ConfigTypeOK'
    BY DEF ConfigInv, ConfigTypeOK
  <1>2. InSection'
    BY DEF InSection, Conf!SectionOf, Conf!HeadersBefore
  <1>3. ReadAsWritten'
    BY DEF ReadAsWritten, NoLineCounts
  <1> QED
    BY <1>1, <1>2, <1>3 DEF ConfigInv

-----------------------------------------------------------------------------
(* The processes                                                           *)

(* The first process loads the configuration; no engine was started.       *)
LEMMA InitIInv == Init => IInv
  BY InitConfig DEF Init, IInv, Family, Options, Running

(* What the processes do leaves the configuration alone, but for Detach.    *)
LEMMA SameConfig == ConfigInv /\ UNCHANGED config => ConfigInv'
  <1>1. SUFFICES ASSUME ConfigInv, UNCHANGED config PROVE ConfigInv'
    OBVIOUS
  <1>2. UNCHANGED <<file, read, section, arguments, given>>
    BY <1>1 DEF config
  <1>3. ConfigTypeOK'
    BY <1>1, <1>2 DEF ConfigInv, ConfigTypeOK
  <1>4. InSection'
    <2>1. PICK n : n = read
      OBVIOUS
    <2>2. Conf!SectionOf(n)' = Conf!SectionOf(n) /\ n = read'
      BY <1>2, <2>1, SameFile
    <2> QED
      BY <1>1, <1>2, <2>1, <2>2 DEF ConfigInv, InSection
  <1>5. \A n, o : Conf!Says(n, o)' <=> Conf!Says(n, o)
    BY <1>2, SameFile
  <1>6. ReadAsWritten'
    BY <1>1, <1>2, <1>5 DEF ConfigInv, ReadAsWritten, LastLineCounts, NoLineCounts
  <1> QED
    BY <1>3, <1>4, <1>6 DEF ConfigInv

(* The supervisor, on its way to a child and when a child has ended.       *)
LEMMA ParentKeeps == IInv /\ (ParentStep \/ SignalParent) => IInv'
  <1>1. SUFFICES ASSUME IInv, ParentStep \/ SignalParent PROVE IInv'
    OBVIOUS
  <1> USE <1>1 DEF IInv, Family, Options, Running
  <1>2. CASE ReadConfig
    <2>1. ConfigInv'
      BY <1>2, ReadOtherKeeps, ReadKeyKeeps DEF ReadConfig, Conf!Next
    <2> QED
      BY <1>2, <2>1 DEF ReadConfig, engine
  <1>3. CASE Detach
    <2>1. ConfigInv'
      BY <1>3, CloseKeeps DEF Detach
    <2> QED
      BY <1>3, <2>1 DEF Detach, engine
  <1>4. CASE Fork
    BY <1>4, SameConfig DEF Fork, engine, Given, config
  <1>5. CASE NoFork
    BY <1>5, SameConfig DEF NoFork, engine, Given, config
  <1>6. CASE WaitExited
    BY <1>6, SameConfig DEF WaitExited, engine, Supervised
  <1>7. CASE ForkAgain
    BY <1>7, SameConfig DEF ForkAgain, engine, Supervised, Fresh
  <1>8. CASE SignalParent
    BY <1>8, SameConfig DEF SignalParent, engine
  <1> QED
    BY <1>2, <1>3, <1>4, <1>5, <1>6, <1>7, <1>8 DEF ParentStep

(* The process of the engine, which sets its options before anything can    *)
(* have set activated.                                                      *)
LEMMA ChildKeeps == IInv /\ (ChildStep \/ Activate \/ Finish \/ Crash \/ break_loop) => IInv'
  <1>1. SUFFICES ASSUME IInv, ChildStep \/ Activate \/ Finish \/ Crash \/ break_loop
                 PROVE  IInv'
    OBVIOUS
  <1>2. UNCHANGED <<config, parent, exited>> /\ child \in Running
    BY <1>1 DEF ChildStep, InstallHandlers, sensor_init, SetOptions, sensor_destroy, Exit,
                Activate, Finish, Crash, break_loop, Goto, Running
  <1>3. ConfigInv' /\ Given' = Given
    BY <1>1, <1>2, SameConfig DEF IInv, Given, config
  <1>4. Family'
    BY <1>1, <1>2 DEF IInv, Family, ChildStep, InstallHandlers, sensor_init, SetOptions,
       sensor_destroy, Exit, Activate, Finish, Crash, break_loop, Goto, Running
  <1>5. Options'
    <2> USE <1>1, <1>3 DEF IInv, Options, Goto, Running, engine
    <2>1. CASE InstallHandlers \/ sensor_init
      BY <2>1 DEF InstallHandlers, sensor_init
    <2>2. CASE SetOptions
      BY <2>2 DEF SetOptions
    <2>3. CASE sensor_destroy \/ Exit \/ Activate \/ Finish
      BY <2>3 DEF sensor_destroy, Exit, Activate, Finish
    <2>4. CASE Crash
      BY <2>4 DEF Crash
    <2>5. CASE break_loop
      BY <2>5 DEF break_loop
    <2> QED
      BY <2>1, <2>2, <2>3, <2>4, <2>5 DEF ChildStep
  <1> QED
    BY <1>3, <1>4, <1>5 DEF IInv

(* Every step.                                                             *)
LEMMA NextKeeps == IInv /\ [Next]_vars => IInv'
  <1>1. ASSUME IInv, UNCHANGED vars PROVE IInv'
    <2>1. ConfigInv'
      BY <1>1, SameConfig DEF IInv, vars
    <2> QED
      BY <1>1, <2>1 DEF IInv, Family, Options, Given, vars, config, engine
  <1> QED
    BY <1>1, ParentKeeps, ChildKeeps DEF Next

(* The invariant of the configuration, the supervisor and the engine.      *)
THEOREM Invariant == Spec => []IInv
  BY InitIInv, NextKeeps, PTL DEF Spec

(* The last line of a file that names an option in its section decides, and *)
(* no other option changes (kvset.c:178-232).                               *)
THEOREM LoadedAsRegisteredHolds == Spec => []LoadedAsRegistered
  <1>1. IInv => LoadedAsRegistered
    BY DEF IInv, ConfigInv, ReadAsWritten, LastLineCounts, NoLineCounts, LoadedAsRegistered,
           Conf!LoadedAsRegistered, Conf!Loaded
  <1> QED
    BY <1>1, Invariant, PTL

(* No engine runs without the whole configuration, after a crash either     *)
(* (sensord.c:153-182).                                                     *)
THEOREM EngineHasOptionsHolds == Spec => []EngineHasOptions
  <1>1. IInv => EngineHasOptions
    BY DEF IInv, Options, EngineHasOptions
  <1> QED
    BY <1>1, Invariant, PTL

(* No engine runs without a supervisor that waits for it, if there is to be *)
(* one, and none runs after one has exited (sensord.c:58-79).               *)
THEOREM SupervisionHolds == Spec => []Supervision
  <1>1. IInv => Supervision
    BY DEF IInv, Family, Supervision, Running
  <1> QED
    BY <1>1, Invariant, PTL

=============================================================================
