--------------------------- MODULE MCPamChauthtok ---------------------------
(***************************************************************************)
(* Instances of PamChauthtok for TLC.  weak, fair and strong are passwords *)
(* that more and more demanding configurations accept; the last policy is  *)
(* a dde.conf that cannot be read.                                         *)
(***************************************************************************)
EXTENDS PamChauthtok

CONSTANTS weak, fair, strong

MCToken == {weak, fair, strong}
MCPolicies == {{weak, fair, strong}, {fair, strong}, {strong}, {}}

(* A negative argument, none at all, one try and the usual three.          *)
AllRetries == {-1, 0, 1, 3}
=============================================================================
