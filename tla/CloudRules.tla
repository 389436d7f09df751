----------------------------- MODULE CloudRules ------------------------------
(***************************************************************************)
(* The 48 scanners of internal/cloudscanner.  A scanner lists resources of *)
(* one service, reads each of them with further calls, and appends         *)
(* findings.  Here a scanner is a record: the category it is registered    *)
(* under, whether it is global, the severity of its findings, whether it   *)
(* follows every page of its listing, and its verdict on every resource.   *)
(*                                                                         *)
(* A resource is what its calls would answer, and in the field fails, the  *)
(* calls about it that fail.  Dates are ages in days and Nil is a missing  *)
(* date or port.                                                           *)
(***************************************************************************)
EXTENDS Integers, Sequences, FiniteSets, TLC

Nil == -1
Older(age, days) == age > days
Ages == {Nil, 90, 181}

(* found: one element for each finding appended for the resource.          *)
(* trace: what a call that failed leaves behind: a warning in the log, the *)
(* error of the whole scan, or nothing at all ("silent").                  *)
Verdict(found, trace) == [found |-> found, trace |-> trace]
Once(flagged) == IF flagged THEN {"it"} ELSE {}
Warns(failed) == IF failed THEN "warning" ELSE "none"
Hides(failed) == IF failed THEN "silent" ELSE "none"
Judge(flagged) == Verdict(Once(flagged), "none")
UpToTwo(S) == {{}} \cup {{a, b} : a, b \in S}

Scanner(category, global, severity, verdict) ==
  [category |-> category, global |-> global, severity |-> severity,
   allPages |-> TRUE, verdict |-> verdict]
Global(category, severity, verdict) == Scanner(category, TRUE, severity, verdict)
Regional(category, severity, verdict) == Scanner(category, FALSE, severity, verdict)

(* CodeBuild and CodePipeline answer a listing page by page; their         *)
(* scanners look at the first page only.                                   *)
FirstPage(scanner) == [scanner EXCEPT !.allPages = FALSE]
-----------------------------------------------------------------------------
(* cspm.  A bucket whose public access block cannot be read is reported;   *)
(* a bucket that has none answers with an error too.                       *)
PublicS3Scanner == Global("cspm", "critical",
  [b \in [block : {"none", "partial", "all"}, fails : SUBSET {"block"}] |->
     Verdict(Once(b.fails # {} \/ b.block # "all"), Warns(b.fails # {} \/ b.block = "none"))])

UnencryptedEBSScanner == Regional("cspm", "high",
  [v \in [encrypted : BOOLEAN] |-> Judge(~v.encrypted)])

CloudTrailDisabledScanner == Global("cspm", "critical",
  [a \in [trails : SUBSET {"logging", "off"}, fails : SUBSET {"logging", "off"}] |->
     Verdict(IF a.trails = {} THEN {"none"} ELSE (a.trails \ a.fails) \cap {"off"},
             Warns(a.trails \cap a.fails # {}))])

RDSEncryptionScanner == Regional("cspm", "high",
  [d \in [encrypted : BOOLEAN] |-> Judge(~d.encrypted)])

KMSRotationScanner == Regional("cspm", "medium",
  [k \in [manager : {"aws", "customer"}, enabled : BOOLEAN, rotation : BOOLEAN,
          fails : SUBSET {"describe", "rotation"}] |->
     LET ours == "describe" \notin k.fails /\ k.manager = "customer" /\ k.enabled
     IN Verdict(Once(ours /\ "rotation" \notin k.fails /\ ~k.rotation),
                Warns("describe" \in k.fails \/ (ours /\ "rotation" \in k.fails)))])

VPCFlowLogsScanner == Regional("cspm", "high",
  [v \in [flowLogs : BOOLEAN] |-> Judge(~v.flowLogs)])

S3VersioningScanner == Global("cspm", "medium",
  [b \in [status : {"", "Enabled", "Suspended"}, fails : SUBSET {"versioning"}] |->
     Verdict(Once(b.fails = {} /\ b.status # "Enabled"), Warns(b.fails # {}))])

SecretsRotationScanner == Regional("cspm", "medium",
  [s \in [rotation : BOOLEAN] |-> Judge(~s.rotation)])
-----------------------------------------------------------------------------
(* ciem.  A policy document is read, decoded and parsed, or else skipped   *)
(* with a warning.  Actions and principals are the sets of strings they    *)
(* list, which one string is too.                                          *)
OverprivilegedIAMScanner == Global("ciem", "critical",
  [r \in [policies : SUBSET {"AdministratorAccess", "PowerUserAccess", "IAMFullAccess"},
          fails : SUBSET {"policies"}] |->
     Verdict({n \in r.policies : r.fails = {} /\ n # "IAMFullAccess"}, Warns(r.fails # {}))])

(* A key that was never used counts from its creation.                     *)
UnusedAccessKeysScanner == Global("ciem", "high",
  [k \in [active : BOOLEAN, created : Ages, used : Ages, fails : SUBSET {"keys", "lastUsed"}] |->
     LET live == "keys" \notin k.fails /\ k.active
     IN Verdict(Once(/\ live /\ "lastUsed" \notin k.fails
                     /\ Older(IF k.used = Nil THEN k.created ELSE k.used, 90)),
                Warns("keys" \in k.fails \/ (live /\ "lastUsed" \in k.fails)))])

RootAccessKeysScanner == Global("ciem", "critical",
  [a \in [keysPresent : 0 .. 1] |-> Judge(a.keysPresent > 0)])

WildcardPermissionsScanner == Global("ciem", "high",
  [p \in [statements : UpToTwo([effect : {"Allow", "Deny"},
                                action : {{}, {"*"}, {"s3:*"}, {"s3:*", "*"}}]),
          fails : SUBSET {"document"}] |->
     Verdict(Once(/\ p.fails = {}
                  /\ \E s \in p.statements : s.effect = "Allow" /\ "*" \in s.action),
             Warns(p.fails # {}))])

(* A service principal has no account.                                     *)
CrossAccountTrustScanner == Global("ciem", "high",
  [r \in [statements : {{}} \cup {{s} : s \in [effect : {"Allow", "Deny"},
            condition : BOOLEAN, principals : UpToTwo({"*", "own", "other", "service"})]},
          fails : SUBSET {"document"}] |->
     Verdict(Once(/\ r.fails = {}
                  /\ \E s \in r.statements :
                       /\ s.effect = "Allow" /\ ~s.condition
                       /\ s.principals \cap {"*", "other"} # {}),
             Warns(r.fails # {}))])

InactiveUsersScanner == Global("ciem", "medium",
  [u \in [passwordLastUsed : Ages] |-> Judge(Older(u.passwordLastUsed, 90))])

(* A user whose login profile cannot be read is taken for one without      *)
(* console access, as is the user who has none.                            *)
MFANotEnforcedScanner == Global("ciem", "critical",
  [u \in [passwordLastUsed : Ages, profile : BOOLEAN, devices : 0 .. 1,
          fails : SUBSET {"profile", "devices"}] |->
     LET console == u.passwordLastUsed # Nil \/ (u.profile /\ "profile" \notin u.fails)
     IN Verdict(Once(console /\ "devices" \notin u.fails /\ u.devices = 0),
                IF console THEN Warns("devices" \in u.fails) ELSE Hides("profile" \in u.fails))])

LongLivedKeysScanner == Global("ciem", "high",
  [k \in [active : BOOLEAN, created : Ages, fails : SUBSET {"keys"}] |->
     Verdict(Once(k.fails = {} /\ k.active /\ Older(k.created, 180)), Warns(k.fails # {}))])
-----------------------------------------------------------------------------
(* network.  v4 and v6 of a permission say whether it is open to 0.0.0.0/0 *)
(* and to ::/0; a group has up to two permissions here.                    *)
coversPort(from, to, target) ==
  \/ from = Nil \/ to = Nil
  \/ from = 0 /\ to = 0
  \/ from <= target /\ target <= to

Permissions(ports) == [from : ports, to : ports, v4 : BOOLEAN, v6 : BOOLEAN]
OpenTo(group, port) ==
  UNION {{p} \X {net \in {"v4", "v6"} : p[net]} :
           p \in {q \in group.permissions : coversPort(q.from, q.to, port)}}

SSHOpenScanner == Regional("network", "critical",
  [g \in [permissions : UpToTwo([from : {22}, to : {22, 23}, v4 : BOOLEAN, v6 : BOOLEAN])
                         \cup {{p} : p \in Permissions({Nil, 0, 22, 23})}] |->
     Verdict(OpenTo(g, 22), "none")])

RDPOpenScanner == Regional("network", "critical",
  [g \in [permissions : {{p} : p \in Permissions({Nil, 0, 3388, 3389})}] |->
     Verdict(OpenTo(g, 3389), "none")])

(* Only the IPv4 ranges are looked at.                                     *)
DBPortsExposedScanner == Regional("network", "critical",
  [g \in [permissions : {{p} : p \in Permissions({Nil, 0, 1433, 5432})}] |->
     Verdict(UNION {{p} \X {port \in {3306, 5432, 1433, 27017} :
                               coversPort(p.from, p.to, port) /\ p.v4} :
                      p \in g.permissions}, "none")])

(* allowAll: the directions in which an entry allows everything to anyone. *)
NoNACLsScanner == Regional("network", "high",
  [n \in [default : BOOLEAN, associated : BOOLEAN, allowAll : SUBSET {"in", "out"}] |->
     Judge(n.default /\ n.associated /\ n.allowAll = {"in", "out"})])

UnrestrictedPeeringScanner == Regional("network", "high",
  [t \in [routes : UpToTwo([anywhere : BOOLEAN, peering : {"no", "active", "other"}])] |->
     Verdict({r \in t.routes : r.anywhere /\ r.peering = "active"}, "none")])

(* Listeners that cannot be read are skipped without a word.               *)
ALBNotHTTPSScanner == Regional("network", "high",
  [l \in [public : BOOLEAN, application : BOOLEAN,
          listeners : SUBSET {"HTTP", "HTTPS", "TCP"}, fails : SUBSET {"listeners"}] |->
     LET looked == l.public /\ l.application
     IN Verdict({p \in l.listeners : looked /\ l.fails = {} /\ p # "HTTPS"},
                Hides(looked /\ l.fails # {}))])

DefaultSGTrafficScanner == Regional("network", "medium",
  [g \in [default : BOOLEAN, permissions : 0 .. 2] |-> Judge(g.default /\ g.permissions > 0)])

UnrestrictedEgressScanner == Regional("network", "medium",
  [g \in [default : BOOLEAN, egress : UpToTwo([anyProtocol : BOOLEAN, v4 : BOOLEAN])] |->
     Verdict({p \in g.egress : ~g.default /\ p.anyProtocol /\ p.v4}, "none")])
-----------------------------------------------------------------------------
(* dspm.  S3 answers that something is not configured with an error of its *)
(* own, "none"; any other error drops the bucket without a word.           *)
S3PublicACLsScanner == Global("dspm", "critical",
  [b \in [grants : SUBSET {"owner", "AllUsers", "AuthenticatedUsers"}, fails : SUBSET {"acl"}] |->
     Verdict(Once(b.fails = {} /\ b.grants \cap {"AllUsers", "AuthenticatedUsers"} # {}),
             Hides(b.fails # {}))])

S3NoEncryptionScanner == Global("dspm", "high",
  [b \in [encryption : {"none", "set"}, fails : SUBSET {"encryption"}] |->
     Verdict(Once(b.fails = {} /\ b.encryption = "none"), Hides(b.fails # {}))])

DynamoDBEncryptionScanner == Regional("dspm", "high",
  [t \in [sse : {"none", "ENABLED", "UPDATING"}, fails : SUBSET {"describe"}] |->
     Verdict(Once(t.fails = {} /\ t.sse # "ENABLED"), Hides(t.fails # {}))])

RDSPublicScanner == Regional("dspm", "critical",
  [d \in [public : BOOLEAN] |-> Judge(d.public)])

EBSSnapshotsPublicScanner == Regional("dspm", "critical",
  [s \in [groups : SUBSET {"all"}, fails : SUBSET {"attribute"}] |->
     Verdict(Once(s.fails = {} /\ "all" \in s.groups), Hides(s.fails # {}))])

CloudWatchUnencryptedScanner == Regional("dspm", "medium",
  [g \in [kmsKey : BOOLEAN] |-> Judge(~g.kmsKey)])

S3ObjectLockScanner == Global("dspm", "medium",
  [b \in [lock : {"none", "Enabled", "off"}, fails : SUBSET {"lock"}] |->
     Verdict(Once(b.fails = {} /\ b.lock # "Enabled"), Hides(b.fails # {}))])

NoDataTagsScanner == Regional("dspm", "medium",
  [i \in [terminated : BOOLEAN, classified : BOOLEAN] |->
     Judge(~i.terminated /\ ~i.classified)])
-----------------------------------------------------------------------------
(* supply-chain.  The newest image is judged; an image without a push date *)
(* stays the newest when it comes first.                                   *)
MostRecent(images) ==
  LET newer(i, j) == images[i].pushed # Nil /\ images[j].pushed # Nil
                     /\ images[i].pushed < images[j].pushed
  IN images[CHOOSE i \in DOMAIN images :
              IF images[1].pushed = Nil THEN i = 1
              ELSE /\ images[i].pushed # Nil
                   /\ \A j \in DOMAIN images : ~newer(j, i)
                   /\ \A j \in 1 .. i - 1 : images[j].pushed # images[i].pushed]

ECRCriticalCVEsScanner == Regional("supply-chain", "critical",
  [r \in [images : UNION {[1 .. n -> [pushed : {Nil, 90, 91}, scan : {"none", "critical"}]]
                          : n \in 0 .. 2},
          fails : SUBSET {"images", "scan"}] |->
     LET judged == "images" \notin r.fails /\ r.images # <<>>
     IN Verdict(Once(/\ judged /\ "scan" \notin r.fails
                     /\ MostRecent(r.images).scan = "critical"),
                Warns("images" \in r.fails \/ (judged /\ "scan" \in r.fails)))])

ECRScanOnPushScanner == Regional("supply-chain", "high",
  [r \in [scanOnPush : BOOLEAN] |-> Judge(~r.scanOnPush)])

(* A repository whose images cannot be listed ends the whole scan.         *)
StaleImagesScanner == Regional("supply-chain", "medium",
  [r \in [images : SUBSET Ages, fails : SUBSET {"images"}] |->
     Verdict({a \in r.images : r.fails = {} /\ Older(a, 90)},
             IF r.fails # {} THEN "error" ELSE "none")])

(* A project is its environment's plaintext variables, by name.            *)
Projects == [environment : BOOLEAN,
             plaintext : SUBSET {"PASSWORD", "AUTH", "ENCRYPT_KEY", "REGION"}]
PlaintextIn(p, names) == IF p.environment THEN p.plaintext \cap names ELSE {}

HardcodedSecretsEnvScanner == FirstPage(Regional("supply-chain", "critical",
  [p \in Projects |-> Verdict(PlaintextIn(p, {"PASSWORD", "AUTH"}), "none")]))

UnsignedImagesScanner == Regional("supply-chain", "high",
  [r \in [immutable : BOOLEAN] |-> Judge(~r.immutable)])

ThirdPartyCVEsScanner == Regional("supply-chain", "high",
  [r \in [latest : {"none", "clean", "high"}, fails : SUBSET {"scan"}] |->
     Verdict(Once(r.fails = {} /\ r.latest = "high"), Warns(r.fails # {}))])

NoSBOMScanner == Regional("supply-chain", "medium",
  [r \in [scanOnPush : BOOLEAN] |-> Judge(~r.scanOnPush)])

(* One page of ten images is looked at; later ones are not.                *)
ImagesNotScannedScanner == Regional("supply-chain", "high",
  [r \in [images : SUBSET [page : 1 .. 2, status : {"", "COMPLETE"}], fails : SUBSET {"images"}] |->
     Verdict({i \in r.images : r.fails = {} /\ i.page = 1 /\ i.status # "COMPLETE"},
             Warns(r.fails # {}))])
-----------------------------------------------------------------------------
(* cicd-pipeline.                                                          *)
HardcodedSecretsRepoScanner == FirstPage(Regional("cicd-pipeline", "critical",
  [p \in Projects |-> Verdict(PlaintextIn(p, {"PASSWORD", "ENCRYPT_KEY"}), "none")]))

UnencryptedArtifactsScanner == FirstPage(Regional("cicd-pipeline", "high",
  [p \in [store : {"none", "key", "bare"}, fails : SUBSET {"pipeline"}] |->
     Verdict(Once(p.fails = {} /\ p.store = "bare"), Warns(p.fails # {}))]))

SecretsPlaintextEnvScanner == FirstPage(Regional("cicd-pipeline", "critical",
  [p \in Projects |-> Judge(p.environment /\ p.plaintext # {})]))

NoManualApprovalScanner == FirstPage(Regional("cicd-pipeline", "high",
  [p \in [approval : BOOLEAN, fails : SUBSET {"pipeline"}] |->
     Verdict(Once(p.fails = {} /\ ~p.approval), Warns(p.fails # {}))]))

OverprivilegedCodeBuildScanner == FirstPage(Regional("cicd-pipeline", "high",
  [p \in [role : BOOLEAN, policies : SUBSET {"AdministratorAccess", "IAMFullAccess",
                                             "PowerUserAccess", "ReadOnlyAccess"},
          fails : SUBSET {"policies"}] |->
     Verdict({n \in p.policies : p.role /\ p.fails = {} /\ n # "ReadOnlyAccess"},
             Warns(p.role /\ p.fails # {}))]))

UnmanagedBuildImagesScanner == FirstPage(Regional("cicd-pipeline", "medium",
  [p \in [environment : BOOLEAN, image : {"", "aws/codebuild/standard", "other"}] |->
     Judge(p.environment /\ p.image = "other")]))

(* bare: the regions whose store has no key.                               *)
ArtifactRepoNoEncryptionScanner == FirstPage(Regional("cicd-pipeline", "medium",
  [p \in [store : {"none", "key", "bare"}, bare : SUBSET {"r1", "r2"},
          fails : SUBSET {"pipeline"}] |->
     Verdict(IF p.fails # {} THEN {}
             ELSE p.bare \cup (IF p.store = "bare" THEN {"main"} ELSE {}),
             Warns(p.fails # {}))]))

(* Trails whose selectors cannot be read do not count, so an account whose *)
(* trails all fail to answer is reported.                                  *)
NoAuditLoggingScanner == Global("cicd-pipeline", "high",
  [a \in [trails : UpToTwo({"ReadOnly", "WriteOnly", "All", "Management", "Data"}),
          fails : UpToTwo({"ReadOnly", "Management"})] |->
     Verdict(Once((a.trails \ a.fails) \cap {"WriteOnly", "All", "Management"} = {}),
             Warns(a.trails \cap a.fails # {}))])
-----------------------------------------------------------------------------
(* DefaultRegistry: the scanners by rule type.                             *)
Registry ==
  "cspm-public-s3-bucket" :> PublicS3Scanner @@
  "cspm-unencrypted-ebs" :> UnencryptedEBSScanner @@
  "cspm-cloudtrail-disabled" :> CloudTrailDisabledScanner @@
  "cspm-rds-encryption" :> RDSEncryptionScanner @@
  "cspm-kms-rotation" :> KMSRotationScanner @@
  "cspm-vpc-flow-logs" :> VPCFlowLogsScanner @@
  "cspm-s3-versioning" :> S3VersioningScanner @@
  "cspm-secrets-rotation" :> SecretsRotationScanner @@
  "ciem-overprivileged-iam" :> OverprivilegedIAMScanner @@
  "ciem-unused-access-keys" :> UnusedAccessKeysScanner @@
  "ciem-root-access-keys" :> RootAccessKeysScanner @@
  "ciem-wildcard-permissions" :> WildcardPermissionsScanner @@
  "ciem-cross-account-trust" :> CrossAccountTrustScanner @@
  "ciem-inactive-users" :> InactiveUsersScanner @@
  "ciem-mfa-not-enforced" :> MFANotEnforcedScanner @@
  "ciem-long-lived-service-keys" :> LongLivedKeysScanner @@
  "network-ssh-open" :> SSHOpenScanner @@
  "network-rdp-open" :> RDPOpenScanner @@
  "network-db-ports-exposed" :> DBPortsExposedScanner @@
  "network-no-nacls" :> NoNACLsScanner @@
  "network-unrestricted-peering" :> UnrestrictedPeeringScanner @@
  "network-alb-not-https" :> ALBNotHTTPSScanner @@
  "network-default-sg-traffic" :> DefaultSGTrafficScanner @@
  "network-unrestricted-egress" :> UnrestrictedEgressScanner @@
  "dspm-s3-public-acls" :> S3PublicACLsScanner @@
  "dspm-s3-no-encryption" :> S3NoEncryptionScanner @@
  "dspm-dynamodb-encryption" :> DynamoDBEncryptionScanner @@
  "dspm-rds-public" :> RDSPublicScanner @@
  "dspm-ebs-snapshots-public" :> EBSSnapshotsPublicScanner @@
  "dspm-cloudwatch-unencrypted" :> CloudWatchUnencryptedScanner @@
  "dspm-s3-object-lock" :> S3ObjectLockScanner @@
  "dspm-no-data-tags" :> NoDataTagsScanner @@
  "supplychain-ecr-critical-cves" :> ECRCriticalCVEsScanner @@
  "supplychain-ecr-scan-on-push" :> ECRScanOnPushScanner @@
  "supplychain-base-images-stale" :> StaleImagesScanner @@
  "supplychain-hardcoded-secrets-env" :> HardcodedSecretsEnvScanner @@
  "supplychain-unsigned-images" :> UnsignedImagesScanner @@
  "supplychain-third-party-cves" :> ThirdPartyCVEsScanner @@
  "supplychain-no-sbom" :> NoSBOMScanner @@
  "supplychain-images-not-scanned" :> ImagesNotScannedScanner @@
  "cicd-hardcoded-secrets-repo" :> HardcodedSecretsRepoScanner @@
  "cicd-unencrypted-artifacts" :> UnencryptedArtifactsScanner @@
  "cicd-secrets-plaintext-env" :> SecretsPlaintextEnvScanner @@
  "cicd-no-manual-approval" :> NoManualApprovalScanner @@
  "cicd-overprivileged-codebuild" :> OverprivilegedCodeBuildScanner @@
  "cicd-unmanaged-build-images" :> UnmanagedBuildImagesScanner @@
  "cicd-artifact-repo-no-encryption" :> ArtifactRepoNoEncryptionScanner @@
  "cicd-no-audit-logging" :> NoAuditLoggingScanner
=============================================================================
