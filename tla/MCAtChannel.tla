---------------------------- MODULE MCAtChannel ----------------------------
(* AtChannel with one client and the daemon's own commands. *)
EXTENDS AtChannel

MCAsks == [c \in Client |-> {"sysinfo"}]
MCDetectSends == <<"query">>
=============================================================================
