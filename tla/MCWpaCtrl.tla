------------------------------ MODULE MCWpaCtrl ------------------------------
(* The two sides of 01-general-knowledge/wpa_ctrl, one at a time: the event  *)
(* loop with one descriptor in two tables, a timeout, SIGHUP and SIGINT; and *)
(* the configuration program.  Network numbers go up to 1, so that three     *)
(* networks are one too many; at first there may be any with numbers up to 2, *)
(* with a gap or too many of them included, and the file has as many, or     *)
(* none.  The command lines have each option, and one whose first request    *)
(* may still be answered when ADD_NETWORK is sent.                           *)
EXTENDS Eloop

CONSTANTS NETWORK_ID_MAX, MaxNumber, MaxRuns, CommandLines, QueueLen

VARIABLES
  side,
  nets, file, writable, listening, current, requests, run, running, script, asked, netid,
  opened, conn, replies, timely, roomy

Wifi == INSTANCE WifiConfig

(* The options are those of main's getopt; the program is started with any. *)
ASSUME WifiAssumption ==
  /\ NETWORK_ID_MAX \in Nat /\ MaxNumber \in Nat /\ MaxRuns \in Nat /\ QueueLen \in Nat
  /\ CommandLines \subseteq Seq({"c", "d", "s"})

wifiVars == <<nets, file, writable, listening, current, requests, run, running, script, asked,
              netid, opened, conn, replies, timely, roomy>>

MCTables       == <<"readers", "writers">>
MCSignals      == <<"HUP", "INT">>
MCCommandLines == {<<"c">>, <<"s">>, <<"d", "c">>}

MCInit ==
  /\ side \in {"loop", "wifi"}
  /\ Init /\ Wifi!Init
  /\ Len(file) \in {0, Cardinality(DOMAIN nets)}
  /\ ~listening => nets = <<>>
  /\ side = "loop" => writable /\ listening /\ nets = <<>> /\ file = <<>>

MCNext ==
  /\ UNCHANGED side
  /\ \/ side = "loop" /\ Next /\ UNCHANGED wifiVars
     \/ side = "wifi" /\ Wifi!Next /\ UNCHANGED eloopVars

(* The process runs, time passes, and an alarm that stays set goes off. *)
MCSpec ==
  /\ MCInit /\ [][MCNext]_<<side, eloopVars, wifiVars>>
  /\ WF_eloopVars(side = "loop" /\ eloop_run)
  /\ WF_eloopVars(side = "loop" /\ Tick)
  /\ WF_eloopVars(side = "loop" /\ handle_alarm)

-----------------------------------------------------------------------------
(* A run sets and selects the network that it added (wpa.cpp:258-267) under  *)
(* the conditions that WifiConfig names at its property: replies in time, a  *)
(* file that can be written, and networks numbered without a gap within      *)
(* NETWORK_ID_MAX at the start.  The variables of WifiConfig have their      *)
(* types.                                                                    *)
SetsItsOwnNetwork == Wifi!TypeOK /\ Wifi!SetsItsOwnNetwork
=============================================================================
