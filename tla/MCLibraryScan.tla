---------------------------- MODULE MCLibraryScan ----------------------------
(* Small instances of LibraryScan for TLC.                                  *)
EXTENDS LibraryScan

CONSTANTS f1, f2

\* The directory of f1, the one of f2, and the whole library.
AllScopes == {Whole, {f1}, {f2}}

\* A network share mounted on the server's host, the library at its mount point
\* or in a folder of it.
NetworkHosts == [network : {TRUE}, container : {FALSE}, atMount : BOOLEAN]
\* A local disk on the host, and bind mounts of a container.
LocalHosts == [network : {FALSE}, container : BOOLEAN, atMount : {FALSE}]
\* Every host but a bind mount of a network share.
MountedHosts == NetworkHosts \union LocalHosts
\* A bind mount of a network share.
ContainerHost == {[network |-> TRUE, container |-> TRUE, atMount |-> TRUE]}
AllHosts == MountedHosts \union ContainerHost

(* Two instances in one state space, told apart by the host.  Under a bind  *)
(* mount of a network share the storage stays up, files may be unreadable,  *)
(* requests ask for directories and scans are cancelled; under every other  *)
(* host the mounts come and go, requests ask for the whole library and an   *)
(* attempt ends early only by failing.                                      *)
Scoped == host \in ContainerHost
Instance == IF Scoped
            THEN storage.root = "up" /\ storage.below = "up"
            ELSE /\ request.scope = Whole /\ ~exec.cancel
                 /\ \A f \in Files : storage.content[f] # "bad"

ScanInit == Init /\ Instance
ScanNext == Next /\ Instance'

ScanSpec == ScanInit /\ [][ScanNext]_vars
=============================================================================
