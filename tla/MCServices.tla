----------------------------- MODULE MCServices -----------------------------
(* The services around the loop: redisd, vnetd's use of it for hset and    *)
(* publishing, goes-daemons, and the sockets of the command line.  subject *)
(* says which one a behaviour is about; "vnetd" is the composition of      *)
(* vnetd with redisd.  The others stay in their initial state.             *)
EXTENDS Vnetd, Daemons, Socket

CONSTANT Services  \* the services the run checks

VARIABLE subject

serviceVars == <<subject, pathVars, daemonVars, sockVars>>

(* Fields of vnetd and of fspd; what fspd deletes when a unit is pulled,   *)
(* and prefixes assigned to daemons.                                       *)
VnetFields == {<<"vnet", "speed">>}
FspFields == {<<"psu", "fan">>, <<"tray">>}
FspShed == <<"psu">>
DaemonPrefixes == {Append(Hash, "psu"), <<"eeprom", "x">>}

ServicesInit ==
  /\ subject \in Services
  /\ RedisdInit
  /\ VnetdInit
  /\ DaemonsInit
  /\ SockInit
  /\ started = "begun" <=> subject = "vnetd"

ServicesNext ==
  /\ UNCHANGED subject
  /\ \/ /\ subject \in {"redisd", "vnetd"}
        /\ RedisdNext
        /\ UNCHANGED <<vnetdVars, daemonVars, sockVars>>
     \/ /\ subject = "redisd"
        /\ UsersNext
        /\ UNCHANGED <<vnetdVars, daemonVars, sockVars>>
     \/ /\ subject = "vnetd"
        /\ VnetdNext
        /\ UNCHANGED <<daemonVars, sockVars>>
     \/ /\ subject = "daemons"
        /\ DaemonsNext
        /\ UNCHANGED <<pathVars, sockVars>>
     \/ /\ subject = "socket"
        /\ SockNext
        /\ UNCHANGED <<pathVars, daemonVars>>

ServicesSpec ==
  /\ ServicesInit
  /\ [][ServicesNext]_serviceVars
  /\ VnetdFairness
  /\ DaemonsFairness

=============================================================================
