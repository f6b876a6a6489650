------------------------------ MODULE ClientTm ------------------------------
(***************************************************************************)
(* The ways of telemetry through a ground-station client: main() of        *)
(* client.py reads the serial port with TMFrameScanner, or, in tcp mode,   *)
(* the simulator bridge with fixed-length frames.  A configuration has one *)
(* mode, and the parts of the other are never started.                     *)
(***************************************************************************)
EXTENDS TmScanner, TcpLink

VARIABLE mode  \* config.mode

clientVars == <<scannerVars, vars, mode>>

ClientInit == mode \in {"serial", "tcp"} /\ ScannerInit /\ Init

Serial == mode = "serial" /\ ScannerNext /\ UNCHANGED <<vars, mode>>
Tcp == mode = "tcp" /\ Next /\ UNCHANGED <<scannerVars, mode>>

ClientSpec == ClientInit /\ [][Serial \/ Tcp]_clientVars /\ Fairness

=============================================================================
