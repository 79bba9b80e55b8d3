--------------------------- MODULE MCSecurityGroups ---------------------------
(* SecurityGroups with the rule lists that the model checker tries. *)
EXTENDS SecurityGroups

\* One additional port.
MCPorts == <<"port">>

\* No rule of the user's; one that the built-in rules have already, and one from
\* the bastion's group, which is an error while the bastion is disabled.
MCExtraRules == {<<>>, <<"worker", "bastion">>}
=============================================================================
