---------------------------- MODULE MCFaceLifetimes ----------------------------
(***************************************************************************)
(* How faces come and go, on small instances: those of the accept loops,   *)
(* those that clients have made by faces/create, and those of the BLE      *)
(* listener, which management starts and stops.  They meet in the engine's *)
(* table alone, so a behaviour is of one of the three.                     *)
(***************************************************************************)
EXTENDS Listeners, Naturals

CONSTANTS Clients, Requests, Owner, Scheme, Paths, Path, Stale, MaxTasks, Centrals

VARIABLES origin, asks, scope, connected, faces, ended, file, handoff,
          running, cancelled, shutdown, task, links

Provisioner == INSTANCE FaceProvision WITH pc <- asks
Ble == INSTANCE BleControl WITH faces <- links

ASSUME LifetimesAssumption == Provisioner!ProvisionAssumption /\ Ble!BleAssumption

provisioned == <<asks, scope, connected, faces, ended, file, handoff>>
advertised == <<running, cancelled, shutdown, task, links>>

\* One listener of each kind.
EachKind == [l \in Listeners |-> l]

\* Two clients with requests of every kind; one uses a token twice, at whose path
\* there is a file already.
FourRequests == 1 .. 4
TwoClients == [r \in FourRequests |-> IF r <= 2 THEN "app1" ELSE "app2"]
EveryScheme == [r \in FourRequests |->
                   CASE r <= 2 -> "shm" [] r = 3 -> "named" [] r = 4 -> "dial"]
OneReused == [r \in FourRequests |-> IF r <= 2 THEN "token1" ELSE "token2"]

\* Two or three of them at a time.
Asking == {{1, 2}, {2, 3, 4}}

MCInit ==
    /\ Ble!Init
    /\ \/ origin = "accepted" /\ Init /\ Provisioner!Asked({})
       \/ origin = "created" /\ NoListener /\ \E who \in Asking : Provisioner!Asked(who)

MCNext ==
    \/ origin = "accepted" /\ Next /\ UNCHANGED <<origin, provisioned, advertised>>
    \/ origin = "created" /\ Provisioner!Next /\ UNCHANGED <<origin, vars, advertised>>

MCSpec ==
    /\ MCInit /\ [][MCNext]_<<origin, vars, provisioned, advertised>>
    /\ Fairness /\ Provisioner!Fairness

\* The BLE listener alone.
BleInit == origin = "advertised" /\ NoListener /\ Provisioner!Asked({}) /\ Ble!Init
BleNext == Ble!Next /\ UNCHANGED <<origin, vars, provisioned>>
BleSpec ==
    BleInit /\ [][BleNext]_<<origin, vars, provisioned, advertised>> /\ Ble!Fairness

\* The provisioner's and the BLE listener's properties, under the names the
\* configurations use.
SocketIsServed == Provisioner!SocketIsServed
NothingLeaks == Provisioner!NothingLeaks
TiedToClient == Provisioner!TiedToClient
OneOwned == Ble!OneOwned
FacesOwned == Ble!FacesOwned
StopIsEffective == Ble!StopIsEffective
OneServer == Ble!OneServer
AdvertisingIsTrue == Ble!AdvertisingIsTrue
================================================================================
