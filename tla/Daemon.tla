------------------------------- MODULE Daemon -------------------------------
(***************************************************************************)
(* The daemon (frontend/source/sensord.c): main loads the configuration,   *)
(* detaches, and forks a child that runs the engine while the parent       *)
(* supervises it.  Without Fork it runs the engine itself.                 *)
(*                                                                         *)
(* Of the engine this has the object behind sensor_t and what the          *)
(* functions of sensor_main.cpp do to it; sensor_main itself may return or *)
(* crash at any time (module Engine says what it does).  Signals come at   *)
(* any time.                                                               *)
(***************************************************************************)
EXTENDS Integers, Sequences, FiniteSets

CONSTANTS Files, CommandLines, Strtol, Word, Unknown, Garbage

VARIABLES
  file, read, section, arguments, given,
  parent,     \* the process that was started, or what detach left of it
  child,      \* the process that runs the engine: the place of its main
  sensor,     \* that process's sensor_t: "null", "live" or "freed"
  activated,  \* its sensor->activated
  opt,        \* its sensor->opt, and the choice of the persist callback
  exited      \* history: a child of the supervisor has exited

Conf == INSTANCE Config

\* A file is a sequence of lines, and a line is of one kind.
ASSUME DaemonAssumption ==
  \A f \in Files :
    /\ f \in Seq({f[n] : n \in DOMAIN f})
    /\ \A n \in DOMAIN f : ~(Conf!IsHeader(f[n]) /\ Conf!IsKey(f[n]))

config == <<file, read, section, arguments, given>>
engine == <<sensor, activated, opt>>
vars   == <<config, parent, child, engine, exited>>

On(option) == arguments[<<"main", option>>]

\* What main copies into opts, and Enable, which chooses the callback.
Passed ==
  Conf!Options \ ({"main"} \X {"Fork", "Background"}
                  \union {"persistance"} \X {"Host", "UtilPort", "DumpPort", "Key"}
                  \union {<<"balancing", "ListenPort">>})

Unset == [o \in Passed |-> Garbage]
Given == [o \in Passed |-> arguments[o]]

\* A process in which sensor_init was not called yet.
Fresh == sensor' = "null" /\ activated' = FALSE /\ opt' = Unset

Running == {"signals", "init", "options", "main", "destroy", "exit"}
Supervised == parent = "waiting"

Init ==
  /\ Conf!Init
  /\ parent = "load" /\ child = "none"
  /\ sensor = "null" /\ activated = FALSE /\ opt = Unset
  /\ exited = FALSE

-----------------------------------------------------------------------------
(* Bugs the properties are sensitive to; none of these is an action of Next *)

\* forking that does not ask how its child ended.
WaitForgetsExit ==
  /\ Supervised /\ child = "exited"
  /\ child' = "signals" /\ exited' = TRUE /\ Fresh
  /\ UNCHANGED <<config, parent>>

\* forking that waits again where it should fork again.
ForkForgotten == Supervised /\ child = "crashed" /\ UNCHANGED vars

\* main that calls sensor_set_options after it has filled in half of opts.
SetCaptureOptions ==
  /\ child = "options" /\ child' = "main"
  /\ opt' = [o \in Passed |-> IF o[1] = "capture" THEN arguments[o] ELSE opt[o]]
  /\ UNCHANGED <<config, parent, sensor, activated, exited>>

-----------------------------------------------------------------------------
(* main up to the fork *)

ReadConfig ==
  /\ parent = "load" /\ Conf!Next
  /\ UNCHANGED <<parent, child, engine, exited>>

\* The file is closed; detach goes on in a process of its own, or fork fails.
Detach ==
  /\ parent = "load" /\ Conf!Loaded
  /\ file' = <<>> /\ read' = 0 /\ section' = "main" /\ given' = arguments
  /\ \/ parent' = "fork"
     \/ On("Background") /\ parent' = "exited"
  /\ UNCHANGED <<arguments, child, engine, exited>>

Fork ==
  /\ parent = "fork" /\ On("Fork")
  /\ \/ parent' = "waiting" /\ child' = "signals"
     \/ parent' = "exited" /\ UNCHANGED child
  /\ UNCHANGED <<config, engine, exited>>

NoFork ==
  /\ parent = "fork" /\ ~On("Fork")
  /\ parent' = "engine" /\ child' = "signals"
  /\ UNCHANGED <<config, engine, exited>>

-----------------------------------------------------------------------------
(* forking: the parent waits, and forks again after a crash *)

WaitExited ==
  /\ Supervised /\ child = "exited"
  /\ parent' = "exited" /\ exited' = TRUE
  /\ UNCHANGED <<config, child, engine>>

ForkAgain ==
  /\ Supervised /\ child = "crashed"
  /\ \/ child' = "signals" /\ Fresh /\ UNCHANGED parent
     \/ parent' = "exited" /\ UNCHANGED <<child, engine>>
  /\ UNCHANGED <<config, exited>>

-----------------------------------------------------------------------------
(* main of the process that runs the engine *)

Goto(from, to) == child = from /\ child' = to /\ UNCHANGED <<config, parent, exited>>

\* The handlers are installed before there is a sensor.
InstallHandlers == Goto("signals", "init") /\ UNCHANGED engine

sensor_init ==
  /\ Goto("init", "options")
  /\ sensor' = "live" /\ activated' = FALSE /\ opt' = Unset

\* sensor_set_persist_callback and sensor_set_options, which look at activated.
SetOptions ==
  /\ Goto("options", "main")
  /\ opt' = IF activated THEN opt ELSE Given
  /\ UNCHANGED <<sensor, activated>>

\* sensor_main has set up its threads.
Activate ==
  /\ Goto("main", "main")
  /\ ~activated /\ activated' = TRUE
  /\ UNCHANGED <<sensor, opt>>

\* sensor_main returns.
Finish == Goto("main", "destroy") /\ UNCHANGED engine

sensor_destroy == Goto("destroy", "exit") /\ sensor' = "freed" /\ UNCHANGED <<activated, opt>>

Exit == Goto("exit", "exited") /\ UNCHANGED engine

\* A bug, an exception nobody catches, a signal that is left to its default.
Crash ==
  /\ child \in Running /\ child' = "crashed"
  /\ UNCHANGED <<config, parent, engine, exited>>

-----------------------------------------------------------------------------
(* SIGINT, SIGTERM, SIGQUIT *)

\* Before forking a signal ends the process; the supervisor ignores it.
SignalParent ==
  /\ parent \in {"load", "fork"}
  /\ parent' = "exited"
  /\ UNCHANGED <<config, child, engine, exited>>

(* break_loop, and sensor_breakloop in it: without a sensor it crashes,     *)
(* after sensor_destroy it writes to what was freed, which may crash.       *)
break_loop ==
  /\ child \in Running \ {"signals"}
  /\ \/ sensor = "live" /\ activated' = FALSE /\ UNCHANGED child
     \/ sensor = "freed" /\ UNCHANGED <<activated, child>>
     \/ sensor # "live" /\ child' = "crashed" /\ UNCHANGED activated
  /\ UNCHANGED <<config, parent, sensor, opt, exited>>

-----------------------------------------------------------------------------
ParentStep == ReadConfig \/ Detach \/ Fork \/ NoFork \/ WaitExited \/ ForkAgain

ChildStep == InstallHandlers \/ sensor_init \/ SetOptions \/ sensor_destroy \/ Exit

Next ==
  \/ ParentStep \/ ChildStep
  \/ Activate \/ Finish \/ Crash
  \/ SignalParent \/ break_loop

\* Processes run on; sensor_main need not do anything, nor return.
Spec == Init /\ [][Next]_vars /\ WF_vars(ParentStep) /\ WF_vars(ChildStep)

-----------------------------------------------------------------------------
(* Properties *)

(* What the daemon is configured with when LoadKVS is done: Config states it. *)
LoadedAsRegistered == Conf!LoadedAsRegistered

(* An engine that sensor_main activates, the first or one that was started  *)
(* after a crash, has every option of the configuration (sensord.c:153-182). *)
EngineHasOptions == child = "main" /\ activated => opt = Given

(* While an engine runs its supervisor waits for it, whatever signals come, *)
(* and once a child has exited none runs any more (sensord.c:58-79).        *)
Supervision ==
  child \in Running => parent \in {"waiting", "engine"} /\ ~exited

(* Every child that ends is answered: by another one, or by the end of the  *)
(* supervisor.                                                              *)
EndIsAnswered ==
  (Supervised /\ child \in {"crashed", "exited"}) ~> (child \in Running \/ parent = "exited")

=============================================================================
