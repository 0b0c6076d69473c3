-------------------------------- MODULE MCNlme --------------------------------
(* The devices and parents of the instance of ZbNlme that TLC checks.        *)
EXTENDS ZbNlme

CONSTANTS p1, p2

MCCapacity == [p \in Parents |-> IF p = p1 THEN {"router", "ed"} ELSE {"ed"}]
MCDevices  ==
  {d \in [router : BOOLEAN, rx_on : BOOLEAN, insecure : BOOLEAN,
          start : {"discovery", "rejoin", "orphan"}] :
     /\ d.router => d.rx_on
     /\ d.insecure => d.router /\ d.start = "discovery"}
MCBuf == 1 .. 2
=============================================================================
