----------------------------- MODULE Compliance ------------------------------
(***************************************************************************)
(* internal/compliance: the frameworks as controls and the rule types each *)
(* control is about, and the evaluation of a scan's findings.              *)
(***************************************************************************)
EXTENDS Integers, FiniteSets, TLC

CISKubernetesBenchmark ==
  "5.2.1" :> {"container-security-context", "pod-security"} @@
  "5.2.2" :> {"pod-security"} @@
  "5.2.3" :> {"pod-security"} @@
  "5.2.4" :> {"pod-security", "network-policy"} @@
  "5.2.5" :> {"privilege-escalation", "container-security-context"} @@
  "5.2.6" :> {"privilege-escalation", "container-security-context"} @@
  "5.2.7" :> {"pod-security"} @@
  "5.2.8" :> {"pod-security"} @@
  "5.2.9" :> {"pod-security"} @@
  "5.4.1" :> {"secrets-exposure"} @@
  "5.4.2" :> {"secrets-exposure"} @@
  "5.7.1" :> {"rbac-audit"} @@
  "5.7.2" :> {"container-security-context"} @@
  "5.7.3" :> {"container-security-context"} @@
  "5.7.4" :> {"rbac-audit"}

SOC2Controls ==
  "CC6.1" :> {"ciem-overprivileged-iam", "ciem-mfa-not-enforced",
              "ciem-root-access-keys", "ciem-unused-access-keys",
              "ciem-inactive-users"} @@
  "CC6.2" :> {"ciem-mfa-not-enforced", "ciem-long-lived-service-keys",
              "ciem-root-access-keys"} @@
  "CC6.3" :> {"ciem-overprivileged-iam", "ciem-wildcard-permissions",
              "ciem-cross-account-trust", "cicd-overprivileged-codebuild"} @@
  "CC6.6" :> {"network-ssh-open", "network-rdp-open", "network-db-ports-exposed",
              "network-default-sg-traffic", "network-unrestricted-egress"} @@
  "CC6.7" :> {"cspm-unencrypted-ebs", "cspm-rds-encryption", "dspm-s3-no-encryption",
              "dspm-dynamodb-encryption", "dspm-cloudwatch-unencrypted",
              "network-alb-not-https", "cicd-unencrypted-artifacts"} @@
  "CC7.1" :> {"cspm-cloudtrail-disabled", "cspm-vpc-flow-logs",
              "cicd-no-audit-logging"} @@
  "CC7.2" :> {"cspm-cloudtrail-disabled", "cspm-vpc-flow-logs"} @@
  "CC8.1" :> {"cicd-no-manual-approval", "cspm-s3-versioning"} @@
  "CC6.8" :> {"cspm-public-s3-bucket", "dspm-s3-public-acls", "dspm-rds-public",
              "dspm-ebs-snapshots-public"} @@
  "CC7.4" :> {"cspm-cloudtrail-disabled"}

PCIDSSControls ==
  "1.3.1" :> {"network-ssh-open", "network-rdp-open", "network-db-ports-exposed",
              "network-default-sg-traffic"} @@
  "1.3.2" :> {"network-unrestricted-egress"} @@
  "2.2.7" :> {"network-alb-not-https"} @@
  "3.4.1" :> {"cspm-unencrypted-ebs", "cspm-rds-encryption", "dspm-s3-no-encryption",
              "dspm-dynamodb-encryption"} @@
  "3.5.1" :> {"cspm-kms-rotation", "cspm-secrets-rotation"} @@
  "6.3.1" :> {"supplychain-ecr-critical-cves", "supplychain-third-party-cves",
              "supplychain-images-not-scanned"} @@
  "7.2.1" :> {"ciem-overprivileged-iam", "ciem-wildcard-permissions"} @@
  "8.3.1" :> {"ciem-mfa-not-enforced", "ciem-root-access-keys"} @@
  "10.2.1" :> {"cspm-cloudtrail-disabled", "cspm-vpc-flow-logs",
               "cicd-no-audit-logging"} @@
  "6.5.4" :> {"cicd-hardcoded-secrets-repo", "cicd-secrets-plaintext-env",
              "supplychain-hardcoded-secrets-env"}

HIPAAControls ==
  "164.312(a)(1)" :> {"ciem-overprivileged-iam", "ciem-mfa-not-enforced",
                      "ciem-inactive-users"} @@
  "164.312(a)(2)(i)" :> {"ciem-root-access-keys", "ciem-long-lived-service-keys"} @@
  "164.312(a)(2)(iii)" :> {"ciem-unused-access-keys", "ciem-inactive-users"} @@
  "164.312(a)(2)(iv)" :> {"cspm-unencrypted-ebs", "cspm-rds-encryption",
                          "dspm-s3-no-encryption", "dspm-dynamodb-encryption",
                          "dspm-cloudwatch-unencrypted"} @@
  "164.312(b)" :> {"cspm-cloudtrail-disabled", "cspm-vpc-flow-logs",
                   "cicd-no-audit-logging"} @@
  "164.312(c)(1)" :> {"cspm-public-s3-bucket", "dspm-s3-public-acls",
                      "dspm-rds-public", "dspm-ebs-snapshots-public",
                      "cspm-s3-versioning", "dspm-s3-object-lock"} @@
  "164.312(d)" :> {"ciem-mfa-not-enforced", "ciem-root-access-keys"} @@
  "164.312(e)(1)" :> {"network-alb-not-https", "network-ssh-open",
                      "network-rdp-open"} @@
  "164.308(a)(3)" :> {"ciem-wildcard-permissions", "ciem-cross-account-trust",
                      "cicd-overprivileged-codebuild"} @@
  "164.308(a)(4)" :> {"ciem-overprivileged-iam", "dspm-no-data-tags"}

(* The frameworks NIST 800-53 and ISO 27001 have no controls of their own. *)
Controls(framework) ==
  CASE framework = "SOC-2" -> SOC2Controls
    [] framework = "PCI-DSS" -> PCIDSSControls
    [] framework = "HIPAA" -> HIPAAControls
    [] OTHER -> CISKubernetesBenchmark

(* Mutant: a control fails only if all of its rule types have findings.    *)
EvaluateAllViolated(framework, ruleTypes) ==
  LET controls == Controls(framework)
      failed == {c \in DOMAIN controls : controls[c] \subseteq ruleTypes}
      total == Cardinality(DOMAIN controls)
  IN [passRate |-> ((total - Cardinality(failed)) * 100) \div total,
      total |-> total, failed |-> Cardinality(failed)]

(* A control fails if a finding has one of its rule types, and passes if   *)
(* none has, checked or not.  The rate is cut to a whole number.           *)
EvaluateFindings(framework, ruleTypes) ==
  LET controls == Controls(framework)
      failed == {c \in DOMAIN controls : controls[c] \cap ruleTypes # {}}
      total == Cardinality(DOMAIN controls)
  IN [passRate |-> ((total - Cardinality(failed)) * 100) \div total,
      total |-> total, failed |-> Cardinality(failed)]
=============================================================================
