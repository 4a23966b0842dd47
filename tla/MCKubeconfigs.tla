----------------------------- MODULE MCKubeconfigs -----------------------------
(* Kubeconfigs with what users give: in the configuration any pair without *)
(* an empty string, at the command line and in the environment less.       *)
EXTENDS Kubeconfigs, TLC

Given(tenant, infra) == [kubeconfig |-> tenant, kubeconfig_infra |-> infra]
Nothing == Given(None, None)
Tenant  == Given("given", None)
Infra   == Given(None, "given")
Both    == Given("given", "given")

MCGivens ==
  {g \in [Sources -> {Nothing, Tenant, Infra, Both, Given(Empty, None)}] :
     /\ g["command_line"] \in {Nothing, Tenant, Infra, Given(Empty, None)}
     /\ g["environment"] \in {Nothing, Both}
     /\ g["config"] \in {Nothing, Tenant, Infra, Both}}

(* One file in the working directory, two beside the configuration, and    *)
(* one of either way to detect a cluster.                                  *)
MCFiles ==
  {<<"cwd", "kubeconfig">>, <<"configdir", "kubeconfig">>, <<"configdir", "kubeconfig_infra">>,
   Root("nicmode"), Root("tenant"), Root("infra")}

Symmetry == Permutations(Callers)
=============================================================================
