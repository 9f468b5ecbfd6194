------------------------------ MODULE MCDaemon ------------------------------
(***************************************************************************)
(* Files to load: the sample configuration of the repository, sensor.conf, *)
(* and all files of at most four of the lines below, in which two sections *)
(* have a key of the same name, a number does not fit a word, and a        *)
(* header is unknown; the command lines turn the supervisor and the        *)
(* background on and off.  A word is 2^30 here: TLC has no 2^32.           *)
(***************************************************************************)
EXTENDS Daemon, TLC

\* The three kinds of lines.
Header(s) == [section |-> s]
Key(name, text) == [key |-> name, text |-> text]
Comment == [comment |-> TRUE]

Sample ==
  << Header("main"), Key("Fork", "0"), Key("Background", "0"),
     Header("capture"), Key("Interface", "wlan0"), Key("Promiscuous", "1"),
     Key("BufferSize", "67560000"), Key("Timeout", "10"),
     Header("persistance"), Key("Enable", "0"), Key("Host", "000"),
     Key("UtilPort", "5332"), Key("DumpPort", "3333"),
     Key("Key", "A1A1A1A1A1A1A1A1A1A1A1A1"), Key("Timeout", "10"),
     Header("nodes"), Key("SurveyTimeout", "10"), Key("InitialSurveyTimeout", "10"),
     Key("NodeDisconnectTimeout", "60"), Key("EnableModifyRouting", "1"),
     Key("ModifyRoutingTimeout", "10"), Key("EnableRedirect", "1"),
     Header("balancing"), Key("ListenPort", "31337"), Key("RebalanceTimeout", "10"),
     Key("InitialSeekTimeout", "10"), Key("InfoRequestInterval", "10"),
     Key("SessionTimeout", "120"), Key("LoadCount", "5"), Key("LoadInterval", "10") >>

MCWord == 1073741824

MCStrtol ==
  "" :> 0 @@ "4294967297" :> MCWord + 1 @@ "0" :> 0 @@ "1" :> 1 @@ "5" :> 5 @@ "9" :> 9 @@ "10" :> 10
  @@ "60" :> 60 @@ "120" :> 120 @@ "3333" :> 3333 @@ "5332" :> 5332
  @@ "67560000" :> 67560000

MCCommandLines ==
  {<<>>, <<"main", "Background">> :> "" @@ <<"persistance", "Timeout">> :> "9",
   <<"main", "Fork">> :> ""}

Lines == { Header("capture"), Header("persistance"), Header(Unknown),
           Key("Timeout", "1"), Key("Timeout", ""), Key("Timeout", "4294967297"),
           Key("Promiscuous", "true"), Key("Fork", "yes"), Comment }

MCFiles == {Sample} \union UNION {[1 .. n -> Lines] : n \in 0 .. 4}

=============================================================================
