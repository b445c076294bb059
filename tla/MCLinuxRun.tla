------------------------------ MODULE MCLinuxRun ------------------------------
(* Model checking of LinuxRun: name servers and hosts. *)
EXTENDS LinuxRun
CONSTANT isp
MCServers == {Local, Fallback, isp}
OneHost == {{isp}}
=============================================================================
