------------------------------- MODULE MCPlugins -------------------------------
(* Two plugins, one of them a cache of none, one or two entries. *)
EXTENDS Plugins, TLC
CONSTANTS p1, p2
MCNameOf == p1 :> "a" @@ p2 :> "b"
===============================================================================
