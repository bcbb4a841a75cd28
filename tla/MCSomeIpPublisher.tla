--------------------------- MODULE MCSomeIpPublisher ---------------------------
(* Three topics on two services, two tasks that publish, two base ports: a bus    *)
(* that shares its process with another one and is started up to twice.           *)
EXTENDS SomeIpPublisher, TLC

CONSTANTS tA, tB, tC, svc1, svc2, grp1, grp2

TwoServices == (tA :> svc1) @@ (tB :> svc1) @@ (tC :> svc2)
TwoGroups == (tA :> grp1) @@ (tB :> grp2) @@ (tC :> grp1)
===============================================================================
