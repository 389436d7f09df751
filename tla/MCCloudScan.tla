---------------------------- MODULE MCCloudScan ------------------------------
EXTENDS CloudScan

Spec1(categories, regions, method, secret) ==
  [categories |-> categories, regions |-> regions, method |-> method, secret |-> secret]

(* Categories and regions listed in full, in part, twice, or not at all.   *)
MCAccounts == {
  Spec1(<<>>, <<>>, "irsa", "none"),
  Spec1(<<>>, <<"east", "west">>, "pod-identity", "none"),
  Spec1(<<"network", "ciem", "network", "ciem">>, <<"west", "west">>, "secret", "whole"),
  Spec1(<<"network">>, <<"east">>, "secret", "partial"),
  Spec1(<<"network">>, <<"east">>, "workload-identity", "none")}

(* Any resource of any scanner, and a faulty one of another.               *)
MCEstates ==
  {<<x, y>> : x \in AllResources,
              y \in {z \in Resources("network-ssh-open") \cup Resources("ciem-inactive-users") :
                      /\ z.faulty /\ z.trace = "none" /\ z.found = 1
                      /\ z.listed /\ z.region = Default}}
=============================================================================
