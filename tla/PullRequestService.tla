------------------------- MODULE PullRequestService -------------------------
(***************************************************************************)
(* What gitops.Engine.CreatePullRequest (internal/gitops/engine.go) means   *)
(* to its callers, the remediation engine and the dashboard: a call ends   *)
(* with a new pull request for the head branch, with the one that was      *)
(* already open, or with an error.  An error does not say that no pull     *)
(* request was opened.  People merge and close pull requests at any time.  *)
(* GitHubEngine refines this specification; RemediationPolicy is composed  *)
(* with it.                                                                *)
(***************************************************************************)
EXTENDS Naturals, FiniteSets

CONSTANTS Branches,   \* head branches
          Callers     \* goroutines that call CreatePullRequest

VARIABLES
  open,   \* the branches that back an open pull request
  reply   \* per caller: "none", "busy", or how its last call ended

serviceVars == <<open, reply>>

Replies == {"none", "busy", "new", "existing", "error"}

ServiceInit ==
  /\ open = {}
  /\ reply = [c \in Callers |-> "none"]

Answer(c, r) == reply' = [reply EXCEPT ![c] = r]

(* A call begins.                                                          *)
Call(c) == reply[c] # "busy" /\ Answer(c, "busy") /\ UNCHANGED open

(* A pull request is opened and reported.                                  *)
OpenNew(c, b) ==
  /\ reply[c] = "busy" /\ b \notin open
  /\ open' = open \cup {b} /\ Answer(c, "new")

(* A pull request is opened, but its confirmation is lost.                 *)
OpenUnconfirmed(c, b) ==
  /\ reply[c] = "busy" /\ b \notin open
  /\ open' = open \cup {b} /\ Answer(c, "error")

(* The branch already backs an open pull request, which is returned.       *)
ReturnExisting(c, b) ==
  /\ reply[c] = "busy" /\ b \in open
  /\ Answer(c, "existing") /\ UNCHANGED open

Fail(c) == reply[c] = "busy" /\ Answer(c, "error") /\ UNCHANGED open

(* A person, or another tool, closes, merges or reopens pull requests.     *)
CloseByUser(b) == b \in open /\ open' = open \ {b} /\ UNCHANGED reply

OpenByUser(b) == b \notin open /\ open' = open \cup {b} /\ UNCHANGED reply

ServiceNext ==
  \/ \E c \in Callers : Call(c) \/ Fail(c)
  \/ \E c \in Callers, b \in Branches :
       OpenNew(c, b) \/ OpenUnconfirmed(c, b) \/ ReturnExisting(c, b)
  \/ \E b \in Branches : CloseByUser(b) \/ OpenByUser(b)

ServiceSpec == ServiceInit /\ [][ServiceNext]_serviceVars
=============================================================================
