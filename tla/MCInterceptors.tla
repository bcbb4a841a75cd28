---------------------------- MODULE MCInterceptors -----------------------------
(* The chain of examples/interceptor_auth, that of examples/echo_service with an *)
(* AuthInterceptor among them, and calls that share a trace or have their own.   *)
EXTENDS Interceptors
CONSTANTS k1, k2, k3, m1, m2
MCMethodOf == k1 :> m1 @@ k2 :> m1 @@ k3 :> m2
MCPriority == [correlation |-> 1, auth |-> 18, logging |-> 10, tracing |-> 15, timing |-> 15,
               metrics |-> 20]
MCInitialChains == {{"correlation", "auth", "timing"}, {"tracing", "metrics", "logging", "auth"}}
===============================================================================
