------------------------------- MODULE Config -------------------------------
(***************************************************************************)
(* How the options get their values: the defaults and the command line     *)
(* (frontend/source/arguments.c), and then the configuration file, for     *)
(* which read_config (sensord.c) registers every option with a section and *)
(* LoadKVS (kvset.c) goes through the lines and assigns.                   *)
(*                                                                         *)
(* A line is a comment, a section header, or a key with a value.  A header *)
(* may be cut short to two letters, which still tell the sections apart;   *)
(* every other bracket is an unknown header.  An option is named by the    *)
(* section that read_config registers it with and its key.                 *)
(***************************************************************************)
EXTENDS Integers, Sequences, FiniteSets

CONSTANTS
  Files,     \* the files that may be loaded, sequences of lines
  CommandLines,  \* the texts of the options given there, by option
  Strtol,    \* the number that strtol and atoi read from a text: 0 if it has none
  Word,      \* a number is stored in an int, 2^32 values in the code
  Unknown,   \* what a header names when it names no section
  Garbage    \* the value of what was never assigned

VARIABLES
  file,      \* the file that is being loaded
  read,      \* how many of its lines were read
  section,   \* the section of the last header that was understood
  arguments, \* struct arguments: the value of each option
  given      \* history: their values before the file was loaded

\* The arguments of InitKVS and AddKVS.
Registry ==
  [ main        |-> {"Fork", "Background"},
    capture     |-> {"Interface", "Promiscuous", "BufferSize", "Timeout"},
    persistance |-> {"Enable", "Host", "UtilPort", "DumpPort", "Key", "Timeout"},
    nodes       |-> {"SurveyTimeout", "InitialSurveyTimeout", "NodeDisconnectTimeout",
                     "EnableModifyRouting", "EnableRedirect"},
    balancing   |-> {"ModifyRoutingTimeout", "ListenPort", "RebalanceTimeout",
                     "InitialSeekTimeout", "InfoRequestInterval", "SessionTimeout",
                     "LoadCount", "LoadInterval"},
    misc        |-> {} ]

Bools == {"Fork", "Background", "Promiscuous", "Enable", "EnableModifyRouting",
          "EnableRedirect"}
Strings == {"Interface", "Host", "Key", "ListenPort"}

Sections == DOMAIN Registry
Options == UNION {{s} \X Registry[s] : s \in Sections}

\* A line is a record: of a section, of a key and its text, or of neither.
IsHeader(line) == "section" \in DOMAIN line
IsKey(line) == "key" \in DOMAIN line

\* args_get_default: the other options are not assigned.
Defaults ==
  [ main        |-> [Fork |-> TRUE, Background |-> FALSE],
    capture     |-> [Interface |-> "eth0", Promiscuous |-> FALSE, BufferSize |-> 65536,
                     Timeout |-> 5],
    persistance |-> [Enable |-> TRUE, Host |-> "localhost", UtilPort |-> 0,
                     DumpPort |-> 0, Key |-> "dummy", Timeout |-> 10],
    nodes       |-> [EnableRedirect |-> TRUE],
    balancing   |-> <<>>,
    misc        |-> <<>> ]

Default(o) == IF o[2] \in DOMAIN Defaults[o[1]] THEN Defaults[o[1]][o[2]] ELSE Garbage

\* (uint32_t) strtol(...), stored where there is an int
Signed(n) == ((n + (Word \div 2)) % Word) - (Word \div 2)

\* parseValue: a flag is set by "1" and "true" alone; a number is cut to a word.
Parse(name, text) ==
  CASE name \in Bools   -> text \in {"1", "true"}
    [] name \in Strings -> text
    [] OTHER            -> Signed(Strtol[text])

\* parse_options: some options raise a flag, some clear one, some have a text.
Raised  == {<<"main", "Background">>, <<"capture", "Promiscuous">>}
Cleared == {<<"main", "Fork">>, <<"persistance", "Enable">>, <<"nodes", "EnableRedirect">>}

args_parse(line) ==
  [o \in Options |-> CASE o \notin DOMAIN line -> Default(o)
                       [] o \in Raised          -> TRUE
                       [] o \in Cleared         -> FALSE
                       [] OTHER                 -> Parse(o[2], line[o])]

-----------------------------------------------------------------------------
Init ==
  /\ file \in Files
  /\ read = 0 /\ section = "main"
  /\ given \in {args_parse(line) : line \in CommandLines}
  /\ arguments = given

Line == file[read + 1]
NextLine == read < Len(file) /\ read' = read + 1 /\ UNCHANGED <<file, given>>

-----------------------------------------------------------------------------
(* Bugs the properties are sensitive to; none of these is an action of Next *)

\* LoadKVS that looks for the key in every section.
ReadKeyAnywhere ==
  /\ NextLine /\ IsKey(Line)
  /\ arguments' = [o \in Options |->
       IF o[2] = Line.key /\ Line.text # "" THEN Parse(Line.key, Line.text)
                                            ELSE arguments[o]]
  /\ UNCHANGED section

-----------------------------------------------------------------------------
(* LoadKVS, one line a step *)

ReadComment ==
  /\ NextLine /\ ~IsHeader(Line) /\ ~IsKey(Line)
  /\ UNCHANGED <<section, arguments>>

\* A header no section has is no header, and has no `=`: it is skipped.
ReadHeader ==
  /\ NextLine /\ IsHeader(Line)
  /\ section' = IF Line.section \in Sections THEN Line.section ELSE section
  /\ UNCHANGED arguments

\* A key without a value assigns nothing.
ReadKey ==
  /\ NextLine /\ IsKey(Line)
  /\ LET o == <<section, Line.key>> IN
       arguments' = IF o \in Options /\ Line.text # ""
                      THEN [arguments EXCEPT ![o] = Parse(Line.key, Line.text)]
                      ELSE arguments
  /\ UNCHANGED section

Next == ReadComment \/ ReadHeader \/ ReadKey

Spec == Init /\ [][Next]_<<file, read, section, arguments, given>>

Loaded == read = Len(file)

-----------------------------------------------------------------------------
(* Properties *)

\* The section of line n: the one the last header before it names that names one.
HeadersBefore(n) == {m \in 1 .. n : IsHeader(file[m]) /\ file[m].section \in Sections}
SectionOf(n) ==
  IF HeadersBefore(n) = {} THEN "main"
  ELSE file[CHOOSE m \in HeadersBefore(n) : \A k \in HeadersBefore(n) : k <= m].section

Says(n, o) ==
  IsKey(file[n]) /\ file[n].key = o[2] /\ file[n].text # "" /\ SectionOf(n) = o[1]

(* After LoadKVS an option has the value of the last line that gives it one  *)
(* in the section that read_config registers it with, whatever the command  *)
(* line said; an option without such a line keeps what it had, and is not   *)
(* changed by the line of another.  For all options but one this is the     *)
(* section under which sensor.conf and the comments of read_config have it. *)
(* ModifyRoutingTimeout is registered with [balancing] (sensord.c:111) and  *)
(* has its line in [nodes] (sensor.conf:24): the line sets nothing.         *)
LoadedAsRegistered ==
  Loaded => \A o \in Options :
    \/ \E n \in 1 .. Len(file) :
         /\ Says(n, o) /\ \A m \in (n + 1) .. Len(file) : ~Says(m, o)
         /\ arguments[o] = Parse(o[2], file[n].text)
    \/ arguments[o] = given[o] /\ \A n \in 1 .. Len(file) : ~Says(n, o)

=============================================================================
