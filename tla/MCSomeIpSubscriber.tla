-------------------------- MODULE MCSomeIpSubscriber ---------------------------
(* One topic with three subscriptions that come and go, on a bus that is started  *)
(* up to twice: topics with keys of their own share nothing but the order of the  *)
(* background tasks.                                                              *)
EXTENDS SomeIpSubscriber

OwnKey == [t \in Topics |-> t]
===============================================================================
