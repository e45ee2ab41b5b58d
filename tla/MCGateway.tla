---------------------------- MODULE MCGateway ----------------------------
(* Gateway for TLC: a few of everything. *)
EXTENDS Gateway

MCBearers == [s \in {"s1"} |-> "ann"]
MCCatalogue ==
  {"ban:resident", "manage:resident", "freeze:room", "admin:config", "moderate:message",
   "invite:resident", "admin:diagnostics", "manage:permissions", "admin:scene"}
MCGranted == [g \in {"admins", "guests"} |-> IF g = "admins" THEN MCCatalogue ELSE {}]
MCStamp == [m \in {"m1"} \cup Foreign |-> IF m = "m1" THEN 1 ELSE 2]
MCListed == <<"lobby", "world", "dm">>
============================================================================
