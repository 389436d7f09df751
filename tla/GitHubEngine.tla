---------------------------- MODULE GitHubEngine ----------------------------
(***************************************************************************)
(* GitHubEngine.CreatePullRequest (internal/github/engine.go) as the        *)
(* sequence of GitHub REST calls it makes, run by several callers at once: *)
(* the RemediationPolicy worker and the dashboard's HTTP handlers.  Every  *)
(* REST call may fail, and may fail after GitHub has acted on it (doRequest *)
(* returns an error when the response is lost).  Between two calls of one  *)
(* caller the other callers and the people who review the pull requests    *)
(* take their own steps.                                                   *)
(*                                                                         *)
(* The repository is reduced to its head branches, how many of the         *)
(* operator's commits each carries, and which branch backs an open pull    *)
(* request.  A file's content and path play no role here.                  *)
(***************************************************************************)
EXTENDS Naturals, FiniteSets

CONSTANTS
  Branches,     \* head branches
  Callers,      \* goroutines that call CreatePullRequest
  Serves,       \* Serves[b]: the callers that use branch b
  Files,        \* number of files of a pull request
  MaxCalls,     \* bound on calls of CreatePullRequest
  MaxByUser     \* bound on the steps of reviewers

ASSUME EngineAssumption ==
  /\ Serves \in [Branches -> SUBSET Callers]
  /\ Files \in Nat \ {0}
  /\ MaxCalls \in Nat
  /\ MaxByUser \in Nat

VARIABLES
  refs,      \* branches that exist on GitHub
  commits,   \* [Branches -> Nat]: operator commits on the branch
  open,      \* branches that back an open pull request
  pc,        \* per caller: where it is in CreatePullRequest
  head,      \* per caller: pr.HeadBranch
  file,      \* per caller: files committed so far by this call
  calls,     \* calls made so far
  byUser,    \* steps of reviewers so far
  meanwhile  \* per caller: what befell its branch since its call began: its
             \* pull request was "opened", the branch was "deleted"

github == <<refs, commits, open>>
vars == <<refs, commits, open, pc, head, file, calls, byUser, meanwhile>>

Steps == {"getRef", "createRef", "lookup", "commit", "openPR", "addLabels"}
Ends == {"idle", "new", "existing", "error"}

Goto(c, step) == pc' = [pc EXCEPT ![c] = step]

(* A history variable: every call on branch b sees this happen.            *)
Note(b, what) ==
  meanwhile' = [c \in Callers |-> IF head[c] = b THEN meanwhile[c] \cup {what}
                                  ELSE meanwhile[c]]

(* `return nil, err`: whatever already happened on GitHub stays there.      *)
Abort(c) == Goto(c, "error")

Init ==
  /\ refs = {} /\ open = {}
  /\ commits = [b \in Branches |-> 0]
  /\ pc = [c \in Callers |-> "idle"]
  /\ head \in [Callers -> Branches]
  /\ file = [c \in Callers |-> 0]
  /\ calls = 0 /\ byUser = 0
  /\ meanwhile = [c \in Callers |-> {}]
-----------------------------------------------------------------------------
(* Mutant: the count of committed files is not reset.                      *)
BeginKeepsFile(c, b) ==
  /\ pc[c] \in Ends /\ calls < MaxCalls
  /\ c \in Serves[b]
  /\ Goto(c, "getRef")
  /\ head' = [head EXCEPT ![c] = b]
  /\ calls' = calls + 1
  /\ meanwhile' = [meanwhile EXCEPT ![c] = {}]
  /\ UNCHANGED <<github, file, byUser>>

Begin(c, b) ==
  /\ pc[c] \in Ends /\ calls < MaxCalls
  /\ c \in Serves[b]
  /\ Goto(c, "getRef")
  /\ head' = [head EXCEPT ![c] = b]
  /\ file' = [file EXCEPT ![c] = 0]
  /\ calls' = calls + 1
  /\ meanwhile' = [meanwhile EXCEPT ![c] = {}]
  /\ UNCHANGED <<github, byUser>>

(* Step 1: the SHA of the base branch.                                     *)
GetRef(c) ==
  /\ pc[c] = "getRef"
  /\ Goto(c, "createRef") \/ Abort(c)
  /\ UNCHANGED <<github, head, file, calls, byUser, meanwhile>>

(* Mutant: a failed createRef starts over instead of giving up.            *)
CreateRefRetries(c) ==
  /\ pc[c] = "createRef"
  /\ \/ head[c] \notin refs /\ refs' = refs \cup {head[c]} /\ Goto(c, "commit")
     \/ head[c] \in refs /\ Goto(c, "lookup") /\ UNCHANGED refs
     \/ Goto(c, "getRef") /\ UNCHANGED refs
  /\ UNCHANGED <<commits, open, head, file, calls, byUser, meanwhile>>

(* Step 2: create the head branch.  GitHub answers 422 when it exists.     *)
CreateRef(c) ==
  /\ pc[c] = "createRef"
  /\ \/ /\ head[c] \notin refs
        /\ refs' = refs \cup {head[c]}
        /\ Goto(c, "commit") \/ Abort(c)       \* confirmed, or reply lost
     \/ /\ head[c] \in refs
        /\ Goto(c, "lookup")
        /\ UNCHANGED refs
     \/ Abort(c) /\ UNCHANGED refs
  /\ UNCHANGED <<commits, open, head, file, calls, byUser, meanwhile>>

(* Mutant: a lookup that fails counts as "no pull request".                *)
LookupFailsOpen(c) ==
  /\ pc[c] = "lookup"
  /\ \/ head[c] \in open /\ Goto(c, "existing")
     \/ Goto(c, "commit")
  /\ UNCHANGED <<github, head, file, calls, byUser, meanwhile>>

(* findOpenPRByHeadBranch, after a 422: an open pull request is returned as *)
(* it is, a failed lookup aborts, and only a branch that backs none is     *)
(* committed to.                                                           *)
Lookup(c) ==
  /\ pc[c] = "lookup"
  /\ \/ head[c] \in open /\ Goto(c, "existing")
     \/ head[c] \notin open /\ Goto(c, "commit")
     \/ Abort(c)
  /\ UNCHANGED <<github, head, file, calls, byUser, meanwhile>>

(* Mutant: the loop over the files stops one early.                        *)
CommitStopsEarly(c) ==
  /\ pc[c] = "commit"
  /\ \/ /\ head[c] \in refs
        /\ commits' = [commits EXCEPT ![head[c]] = @ + 1]
        /\ file' = [file EXCEPT ![c] = @ + 1]
        /\ Goto(c, IF file[c] + 2 >= Files THEN "openPR" ELSE "commit")
     \/ Abort(c) /\ UNCHANGED <<commits, file>>
  /\ UNCHANGED <<refs, open, head, calls, byUser, meanwhile>>

(* Step 3: createOrUpdateFile or deleteFile for the next file.  A branch   *)
(* that a reviewer deleted in the meantime makes it fail.                  *)
Commit(c) ==
  /\ pc[c] = "commit"
  /\ \/ /\ head[c] \in refs
        /\ commits' = [commits EXCEPT ![head[c]] = @ + 1]
        /\ file' = [file EXCEPT ![c] = @ + 1]
        /\ \/ Goto(c, IF file[c] + 1 = Files THEN "openPR" ELSE "commit")
           \/ Abort(c)
     \/ Abort(c) /\ UNCHANGED <<commits, file>>
  /\ UNCHANGED <<refs, open, head, calls, byUser, meanwhile>>

(* Step 4: openPR.  GitHub refuses a second open pull request for a branch. *)
OpenPR(c) ==
  /\ pc[c] = "openPR"
  /\ \/ /\ head[c] \in refs \ open
        /\ open' = open \cup {head[c]}
        /\ Note(head[c], "opened")
        /\ Goto(c, "addLabels") \/ Abort(c)
     \/ Abort(c) /\ UNCHANGED <<open, meanwhile>>
  /\ UNCHANGED <<refs, commits, head, file, calls, byUser>>

(* Mutant: a failure to label fails the call.                              *)
AddLabelsFatal(c) ==
  /\ pc[c] = "addLabels"
  /\ Goto(c, "new") \/ Abort(c)
  /\ UNCHANGED <<github, head, file, calls, byUser, meanwhile>>

(* Step 5: addLabels, whose failure is only logged.                        *)
AddLabels(c) ==
  /\ pc[c] = "addLabels"
  /\ Goto(c, "new")
  /\ UNCHANGED <<github, head, file, calls, byUser, meanwhile>>

CreatePullRequestStep(c) ==
  GetRef(c) \/ CreateRef(c) \/ Lookup(c) \/ Commit(c) \/ OpenPR(c) \/ AddLabels(c)
-----------------------------------------------------------------------------
(* People review: a pull request is merged or closed, with or without      *)
(* deleting its branch, a leftover branch can be deleted, and a closed pull *)
(* request can be reopened, or one opened by hand on a branch a failed     *)
(* call left behind.                                                       *)
ClosePR(b) ==
  /\ b \in open
  /\ open' = open \ {b}
  /\ \/ UNCHANGED <<refs, commits, meanwhile>>
     \/ /\ refs' = refs \ {b} /\ commits' = [commits EXCEPT ![b] = 0]
        /\ Note(b, "deleted")

DeleteBranch(b) ==
  /\ b \in refs \ open
  /\ refs' = refs \ {b} /\ commits' = [commits EXCEPT ![b] = 0]
  /\ Note(b, "deleted")
  /\ UNCHANGED open

ReopenPR(b) ==
  /\ b \in refs \ open /\ commits[b] > 0
  /\ open' = open \cup {b}
  /\ Note(b, "opened")
  /\ UNCHANGED <<refs, commits>>

Reviewer ==
  /\ byUser < MaxByUser
  /\ byUser' = byUser + 1
  /\ \E b \in Branches : ClosePR(b) \/ DeleteBranch(b) \/ ReopenPR(b)
  /\ UNCHANGED <<pc, head, file, calls>>

Next ==
  \/ \E c \in Callers :
       \/ \E b \in Branches : Begin(c, b)
       \/ CreatePullRequestStep(c)
  \/ Reviewer

(* Every HTTP request ends: it is answered, or its context or transport    *)
(* gives up, so a call that has begun keeps going.                         *)
Fairness == \A c \in Callers : WF_vars(CreatePullRequestStep(c))

Spec == Init /\ [][Next]_vars /\ Fairness
-----------------------------------------------------------------------------
TypeOK ==
  /\ refs \subseteq Branches
  /\ open \subseteq Branches
  /\ commits \in [Branches -> Nat]
  /\ pc \in [Callers -> Steps \cup Ends]
  /\ head \in [Callers -> Branches]
  /\ file \in [Callers -> 0 .. Files]
  /\ calls \in 0 .. MaxCalls
  /\ byUser \in 0 .. MaxByUser
  /\ meanwhile \in [Callers -> SUBSET {"opened", "deleted"}]

(* What the comment in CreatePullRequest promises about the "311 commits   *)
(* on one PR": no step of the engine commits to a branch while it backs an *)
(* open pull request.  It takes two calls on one branch at once to break.  *)
NoCommitOnOpenPR ==
  [][\A b \in Branches : commits'[b] > commits[b] => b \notin open]_vars

(* What the code does guarantee, however callers share a branch and        *)
(* whatever reviewers do: a call adds nothing to a pull request that was   *)
(* open when it began, so commits do not pile up from call to call; it can *)
(* only hit one that was opened while it was under way.                    *)
NoCommitOnStandingPR ==
  [][\A c \in Callers :
       file'[c] > file[c] /\ head[c] \in open => "opened" \in meanwhile[c]]_vars

(* The pull request a call opens carries all the files of the call,        *)
(* however earlier or concurrent calls left its branch.  The one exception *)
(* needs two callers and a reviewer: the branch is deleted under the call, *)
(* and another caller of the same branch creates it anew.                  *)
OpensOnlyComplete ==
  [][\A c \in Callers :
       pc[c] = "openPR" /\ head[c] \in open' \ open =>
         \/ commits[head[c]] >= Files
         \/ "deleted" \in meanwhile[c] /\ Serves[head[c]] # {c}]_vars

(* Every call ends: with a pull request or with an error the caller can    *)
(* retry on.                                                               *)
EveryCallReturns ==
  \A c \in Callers : pc[c] \in Steps ~> pc[c] \in Ends

replyView == [c \in Callers |->
                IF pc[c] = "idle" THEN "none"
                ELSE IF pc[c] \in Steps \ {"addLabels"} THEN "busy"
                ELSE IF pc[c] = "addLabels" THEN "new" ELSE pc[c]]

Service == INSTANCE PullRequestService WITH reply <- replyView

(* CreatePullRequest implements what gitops.Engine promises: success means *)
(* that the pull request was opened by this call, or was open when the     *)
(* call looked.                                                            *)
RefinesService == Service!ServiceSpec
=============================================================================
