-------------------------------- MODULE Services --------------------------------
(***************************************************************************)
(* The components that keep state beside a connection, each on its own: the *)
(* memory tracker, the rate limiter, the hot reload and the serial          *)
(* modalities call none of one another.  A behaviour is one of theirs.      *)
(***************************************************************************)
EXTENDS MemTracker, RateLimiter, HotReload, SerialServer

VARIABLE subject  (* the component that runs *)

servicesVars == <<subject, memVars, limiterVars, hotReloadVars, serialVars>>

ServicesInit ==
  /\ subject \in {"memory", "limiter", "hotReload", "server"}
  /\ MemInit /\ LimiterInit /\ HotReloadInit /\ SerialInit
  /\ subject # "server" => mode = "SYNC" /\ ~database

ServicesNext ==
  /\ UNCHANGED subject
  /\ \/ /\ subject = "memory" /\ MemNext
        /\ UNCHANGED <<limiterVars, hotReloadVars, serialVars>>
     \/ /\ subject = "limiter" /\ LimiterNext
        /\ UNCHANGED <<memVars, hotReloadVars, serialVars>>
     \/ /\ subject = "hotReload" /\ HotReloadNext
        /\ UNCHANGED <<memVars, limiterVars, serialVars>>
     \/ /\ subject = "server" /\ SerialNext
        /\ UNCHANGED <<memVars, limiterVars, hotReloadVars>>

ServicesSpec == ServicesInit /\ [][ServicesNext]_servicesVars
=============================================================================
