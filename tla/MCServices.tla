----------------------------- MODULE MCServices -----------------------------
(***************************************************************************)
(* The remaining services for TLC: physical pages and devices, the shell   *)
(* and the mouse on their screen, the security tables, power management,   *)
(* the monitor and the log's formatter.  The six share no variable of the  *)
(* code: to keep the state space a sum, one of them runs while the others  *)
(* rest (see MCQueues), and nothing is concluded about their interaction.  *)
(***************************************************************************)
EXTENDS Devices, Mouse, Security, Power, Monitor, Format

MCPrompt == <<"$">>
MCClear == <<"x">>

(* "longer" does not fit into its field. *)
MCNameKept == [name \in UserName |-> IF name = "longer" THEN "long" ELSE name]
MCPasswordKept == [word \in Password |-> word]
MCResourceKept == [path \in Resource |-> IF path = "longer" THEN "long" ELSE path]

(* The empty name, one that fits and one that is longer than its field. *)
MCTimerName == {<<>>, <<"a">>, <<"a", "b", "c">>}

MCCharacter == {"a", "%", "d", "u", "x", "X", "s", "c", "0"}

(* Every conversion alone and behind two characters, and formats that fill the line
   exactly, pass its end within a conversion, and end with a '%'. *)
MCFormats ==
    {<<"%", c>> : c \in MCCharacter} \cup {<<"a", "a", "%", c>> : c \in MCCharacter}
       \cup {<<>>, <<"%">>, <<"%", "d", "%", "s">>, <<"a", "%", "X", "%", "c">>,
             <<"%", "s", "%", "%">>, <<"%", "c", "%", "u">>, <<"a", "%", "d", "%">>}

MCArgument(n, null, s, c) == [num |-> n, null |-> null, str |-> s, chr |-> c]

MCArguments ==
    {<<MCArgument(90, FALSE, <<"h", "i">>, "z"), MCArgument(0, TRUE, <<>>, "%")>>,
     <<MCArgument(200, TRUE, <<>>, "y"), MCArgument(171, FALSE, <<>>, "z")>>}

ServicesInit ==
    /\ Init /\ ScreenInit /\ SecurityInit /\ PowerInit /\ MonitorInit
    /\ FormatInit

(* Where the tables of security.c rest, security_init has been called. *)
SecurityRests == security_init /\ UNCHANGED securityVars

(* All components but c are in their initial states and stay there. *)
OthersRest(c) ==
    /\ IF c = "pages"    THEN TRUE ELSE Init         /\ UNCHANGED vars
    /\ IF c = "screen"   THEN TRUE ELSE ScreenInit   /\ UNCHANGED screenVars
    /\ IF c = "security" THEN TRUE ELSE SecurityRests
    /\ IF c = "power"    THEN TRUE ELSE PowerInit    /\ UNCHANGED powerVars
    /\ IF c = "monitor"  THEN TRUE ELSE MonitorInit  /\ UNCHANGED monitorVars
    /\ IF c = "format"   THEN TRUE ELSE FormatInit   /\ UNCHANGED formatVars

page_steps == OthersRest("pages") /\ Next
screen_steps == OthersRest("screen") /\ ScreenNext
security_steps == OthersRest("security") /\ SecurityNext
power_steps == OthersRest("power") /\ PowerNext
monitor_steps == OthersRest("monitor") /\ MonitorNext
format_steps == OthersRest("format") /\ FormatNext

ServicesNext ==
    \/ page_steps \/ screen_steps \/ security_steps
    \/ power_steps \/ monitor_steps \/ format_steps

servicesVars == <<vars, screenVars, securityVars, powerVars, monitorVars, formatVars>>

ServicesSpec == ServicesInit /\ [][ServicesNext]_servicesVars

(* Counters, indices, cursors and tables stay in the ranges of their types. *)
ServicesTypeOK ==
    /\ TypeOK /\ ConsoleTypeOK /\ MouseTypeOK /\ SecurityTypeOK /\ PowerTypeOK
    /\ MonitorTypeOK /\ FormatTypeOK
=============================================================================
