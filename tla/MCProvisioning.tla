--------------------------- MODULE MCProvisioning ----------------------------
(* Instances of Provisioning for TLC. *)
EXTENDS Provisioning, TLC

AllModes == {<<"docker", "docker">>, <<"docker", "terraform">>,
             <<"terraform", "terraform">>}

Symmetric == Permutations(Handlers) \cup Permutations(Workers)
=============================================================================
