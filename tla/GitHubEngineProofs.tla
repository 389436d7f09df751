------------------------- MODULE GitHubEngineProofs -------------------------
(***************************************************************************)
(* Proofs about GitHubEngine, and about the dashboard's preset store that  *)
(* drives it, for any number of callers, branches and files, however       *)
(* callers share branches and whatever reviewers do.                       *)
(***************************************************************************)
EXTENDS DashboardPresets, TLAPS

(* A caller inside CreatePullRequest works on a branch it serves.          *)
OwnBranch == \A c \in Callers : pc[c] \in Steps => c \in Serves[head[c]]

(* From the lookup to the last commit the branch backs no open pull        *)
(* request but one opened meanwhile.                                       *)
CommitsOnQuietBranch ==
  \A c \in Callers :
    pc[c] = "commit" /\ head[c] \in open => "opened" \in meanwhile[c]

(* The loop over pr.Files ends with the last file.                         *)
FilesLeft ==
  \A c \in Callers : pc[c] \in Steps \ {"openPR", "addLabels"} => file[c] < Files

(* GitHub keeps the branch of an open pull request, so a branch that can   *)
(* still be created backs none.                                            *)
OpenHasRef == open \subseteq refs

(* What holds whoever shares a branch.                                     *)
TInv == TypeOK /\ FilesLeft /\ OpenHasRef

(* file counts the files of this call, from its first commit to its last.  *)
FilesCounted ==
  \A c \in Callers :
    /\ pc[c] \in {"getRef", "createRef", "lookup"} => file[c] = 0
    /\ pc[c] = "openPR" => file[c] = Files

(* A branch that was found or created is gone only if it was deleted since. *)
GoneIsSeen ==
  \A c \in Callers :
    pc[c] \in {"lookup", "commit", "openPR"} /\ head[c] \notin refs =>
      "deleted" \in meanwhile[c]

(* As long as the branch exists it carries every file the call committed,  *)
(* unless another of its callers has created it anew.                      *)
FilesOnBranch ==
  \A c \in Callers :
    pc[c] \in {"commit", "openPR"} /\ head[c] \in refs =>
      \/ commits[head[c]] >= file[c]
      \/ "deleted" \in meanwhile[c] /\ Serves[head[c]] # {c}

GInv ==
  /\ TInv /\ OwnBranch /\ CommitsOnQuietBranch /\ FilesCounted /\ GoneIsSeen
  /\ FilesOnBranch

(* Nothing is open and nobody has called at the start.                     *)
LEMMA TInit == Init => TInv
  BY EngineAssumption DEF Init, TInv, TypeOK, FilesLeft, OpenHasRef, Steps, Ends

(* Every step of a caller changes only its own program counter, branch and *)
(* file count; the typing part of the invariant needs no more than that.   *)
LEMMA TNext ==
  ASSUME TInv, [Next]_vars
  PROVE  TInv'
<1> USE EngineAssumption DEF TInv, TypeOK, FilesLeft, OpenHasRef, Steps, Ends
<1>1. ASSUME NEW c \in Callers, NEW b \in Branches, Begin(c, b) PROVE TInv'
  BY <1>1 DEF Begin, Goto, github
<1>2. ASSUME NEW c \in Callers, GetRef(c) PROVE TInv'
  BY <1>2 DEF GetRef, Goto, Abort, github
<1>3. ASSUME NEW c \in Callers, CreateRef(c) PROVE TInv'
  <2>1. CASE /\ head[c] \notin refs /\ refs' = refs \cup {head[c]}
             /\ Goto(c, "commit") \/ Abort(c)
    BY <1>3, <2>1 DEF CreateRef, Goto, Abort
  <2>2. CASE (Goto(c, "lookup") \/ Abort(c)) /\ UNCHANGED refs
    BY <1>3, <2>2 DEF CreateRef, Goto, Abort
  <2> QED  BY <1>3, <2>1, <2>2 DEF CreateRef
<1>4. ASSUME NEW c \in Callers, Lookup(c) PROVE TInv'
  BY <1>4 DEF Lookup, Goto, Abort, github
<1>5. ASSUME NEW c \in Callers, Commit(c) PROVE TInv'
  BY <1>5 DEF Commit, Goto, Abort
<1>6. ASSUME NEW c \in Callers, OpenPR(c) PROVE TInv'
  BY <1>6 DEF OpenPR, Goto, Abort, Note
<1>7. ASSUME NEW c \in Callers, AddLabels(c) PROVE TInv'
  BY <1>7 DEF AddLabels, Goto, github
<1>8. CASE Reviewer
  BY <1>8 DEF Reviewer, ClosePR, DeleteBranch, ReopenPR, Note
<1>9. CASE UNCHANGED vars
  BY <1>9 DEF vars
<1> QED  BY <1>1, <1>2, <1>3, <1>4, <1>5, <1>6, <1>7, <1>8, <1>9 DEF Next, CreatePullRequestStep

(* The typing part of the invariant, for any use of the branches.          *)
LEMMA TInvariance == Spec => []TInv
<1>1. TInv /\ [Next]_vars => TInv'
  BY TNext
<1> QED  BY TInit, <1>1, PTL DEF Spec

(* Type correctness of the engine and of the repository it drives,         *)
(* however many callers of CreatePullRequest use one branch.               *)
THEOREM GitHubTypeCorrect == Spec => []TypeOK
<1>1. TInv => TypeOK
  BY DEF TInv
<1> QED  BY TInvariance, <1>1, PTL
-----------------------------------------------------------------------------
(* The whole invariant at the start.                                       *)
LEMMA GInit == Init => GInv
  BY TInit, EngineAssumption
  DEF Init, GInv, TypeOK, OwnBranch, CommitsOnQuietBranch, FilesCounted, GoneIsSeen,
      FilesOnBranch, Steps

(* A step on a branch is noted by every call on it and by no other.        *)
LEMMA Noted ==
  ASSUME NEW b, NEW what, Note(b, what), NEW d \in Callers
  PROVE  meanwhile'[d] = IF head[d] = b THEN meanwhile[d] \cup {what} ELSE meanwhile[d]
  BY DEF Note

(* Every step of a caller or of a reviewer keeps what each call on the     *)
(* branch relies on, or is noted by it.                                    *)
LEMMA GNext ==
  ASSUME GInv, [Next]_vars
  PROVE  GInv'
<1>0. TInv'
  BY TNext DEF GInv
<1> USE <1>0, EngineAssumption
    DEF GInv, TInv, TypeOK, OwnBranch, CommitsOnQuietBranch, FilesCounted, GoneIsSeen,
        FilesOnBranch, Steps, Ends
<1>1. ASSUME NEW c \in Callers, NEW b \in Branches, Begin(c, b) PROVE GInv'
  BY <1>1 DEF Begin, Goto, github
<1>2. ASSUME NEW c \in Callers, GetRef(c) PROVE GInv'
  BY <1>2 DEF GetRef, Goto, Abort, github
<1>3. ASSUME NEW c \in Callers, CreateRef(c) PROVE GInv'
  <2>0. c \in Serves[head[c]]
    BY <1>3 DEF CreateRef
  <2>1. CASE /\ head[c] \notin refs /\ refs' = refs \cup {head[c]}
             /\ Goto(c, "commit") \/ Abort(c)
    BY <1>3, <2>0, <2>1 DEF CreateRef, Goto, Abort, OpenHasRef
  <2>2. CASE ((Goto(c, "lookup") /\ head[c] \in refs) \/ Abort(c)) /\ UNCHANGED refs
    BY <1>3, <2>2 DEF CreateRef, Goto, Abort
  <2> QED  BY <1>3, <2>1, <2>2 DEF CreateRef
<1>4. ASSUME NEW c \in Callers, Lookup(c) PROVE GInv'
  BY <1>4 DEF Lookup, Goto, Abort, github
<1>5. ASSUME NEW c \in Callers, Commit(c) PROVE GInv'
  <2>1. CASE /\ head[c] \in refs
             /\ commits' = [commits EXCEPT ![head[c]] = @ + 1]
             /\ file' = [file EXCEPT ![c] = @ + 1]
             /\ \/ Goto(c, IF file[c] + 1 = Files THEN "openPR" ELSE "commit")
                \/ Abort(c)
    BY <1>5, <2>1 DEF Commit, Goto, Abort
  <2>2. CASE Abort(c) /\ UNCHANGED <<commits, file>>
    BY <1>5, <2>2 DEF Commit, Goto, Abort
  <2> QED  BY <1>5, <2>1, <2>2 DEF Commit
<1>6. ASSUME NEW c \in Callers, OpenPR(c) PROVE GInv'
  <2>1. CASE /\ head[c] \in refs \ open
             /\ open' = open \cup {head[c]}
             /\ Note(head[c], "opened")
             /\ Goto(c, "addLabels") \/ Abort(c)
    <3>1. \A d \in Callers : /\ meanwhile[d] \subseteq meanwhile'[d]
                             /\ head[d] = head[c] => "opened" \in meanwhile'[d]
      BY <2>1, Noted
    <3> QED  BY <1>6, <2>1, <3>1 DEF OpenPR, Goto, Abort
  <2>2. CASE Abort(c) /\ UNCHANGED <<open, meanwhile>>
    BY <1>6, <2>2 DEF OpenPR, Abort, Goto
  <2> QED  BY <1>6, <2>1, <2>2 DEF OpenPR
<1>7. ASSUME NEW c \in Callers, AddLabels(c) PROVE GInv'
  BY <1>7 DEF AddLabels, Goto, github
<1>8. CASE Reviewer
  <2>1. PICK b \in Branches : ClosePR(b) \/ DeleteBranch(b) \/ ReopenPR(b)
    BY <1>8 DEF Reviewer
  <2>2. UNCHANGED <<pc, head, file>>
    BY <1>8 DEF Reviewer
  <2>3. CASE /\ refs' = refs \ {b} /\ commits' = [commits EXCEPT ![b] = 0]
             /\ Note(b, "deleted") /\ open' \subseteq open
    <3>1. \A d \in Callers : /\ meanwhile[d] \subseteq meanwhile'[d]
                             /\ head[d] = b => "deleted" \in meanwhile'[d]
      BY <2>3, Noted
    <3> QED  BY <2>2, <2>3, <3>1
  <2>4. CASE UNCHANGED <<refs, commits, meanwhile>> /\ open' \subseteq open
    BY <2>2, <2>4
  <2>5. CASE ReopenPR(b)
    <3>1. \A d \in Callers : /\ meanwhile[d] \subseteq meanwhile'[d]
                             /\ head[d] = b => "opened" \in meanwhile'[d]
      BY <2>5, Noted DEF ReopenPR
    <3> QED  BY <2>2, <2>5, <3>1 DEF ReopenPR
  <2> QED  BY <2>1, <2>3, <2>4, <2>5 DEF ClosePR, DeleteBranch
<1>9. CASE UNCHANGED vars
  BY <1>9 DEF vars
<1> QED  BY <1>1, <1>2, <1>3, <1>4, <1>5, <1>6, <1>7, <1>8, <1>9 DEF Next, CreatePullRequestStep

(* The inductive invariant holds, however callers share branches.          *)
LEMMA GInvariance == Spec => []GInv
<1>1. GInv /\ [Next]_vars => GInv'
  BY GNext
<1> QED  BY GInit, <1>1, PTL DEF Spec

(* A call of CreatePullRequest never commits to a pull request that was    *)
(* open when the call began: the branch exists, createRef answers 422, and *)
(* the lookup returns the pull request.  Callers may share the branch, any *)
(* REST call may fail, and reviewers may do what they like.                *)
THEOREM NoCommitOnStandingPRHolds == Spec => NoCommitOnStandingPR
<1> DEFINE Quiet == \A c \in Callers :
                      file'[c] > file[c] /\ head[c] \in open => "opened" \in meanwhile[c]
<1>1. ASSUME GInv, [Next]_vars PROVE [Quiet]_vars
  <2> SUFFICES ASSUME Next PROVE Quiet
    BY <1>1
  <2> USE <1>1 DEF GInv, TInv, TypeOK
  <2>1. ASSUME NEW c \in Callers, Commit(c) PROVE Quiet
    BY <2>1 DEF Commit, CommitsOnQuietBranch
  <2>2. ASSUME NEW c \in Callers, NEW b \in Branches, Begin(c, b) PROVE Quiet
    BY <2>2 DEF Begin, github
  <2>3. ASSUME NEW c \in Callers,
               GetRef(c) \/ CreateRef(c) \/ Lookup(c) \/ OpenPR(c) \/ AddLabels(c)
        PROVE  Quiet
    BY <2>3 DEF GetRef, CreateRef, Lookup, OpenPR, AddLabels, github
  <2>4. CASE Reviewer
    BY <2>4 DEF Reviewer
  <2> QED  BY <2>1, <2>2, <2>3, <2>4 DEF Next, CreatePullRequestStep
<1>2. Spec => [][Next]_vars
  BY PTL DEF Spec
<1> QED  BY <1>1, <1>2, GInvariance, PTL DEF NoCommitOnStandingPR

(* A pull request is opened only on a branch that carries all the files of *)
(* the call: a branch a reviewer deleted half way fails the call, and      *)
(* other calls' commits only add to it.  Only a branch that was deleted    *)
(* and then created by another of its callers can carry fewer.             *)
THEOREM OpensOnlyCompleteHolds == Spec => OpensOnlyComplete
<1> DEFINE Complete ==
             \A c \in Callers :
               pc[c] = "openPR" /\ head[c] \in open' \ open =>
                 \/ commits[head[c]] >= Files
                 \/ "deleted" \in meanwhile[c] /\ Serves[head[c]] # {c}
<1>1. ASSUME GInv, [Next]_vars PROVE [Complete]_vars
  <2> SUFFICES ASSUME Next, NEW c \in Callers, pc[c] = "openPR", head[c] \in open' \ open
               PROVE  \/ commits[head[c]] >= Files
                      \/ "deleted" \in meanwhile[c] /\ Serves[head[c]] # {c}
    BY <1>1
  <2>1. head[c] \in refs
    BY <1>1 DEF GInv, TInv, TypeOK, Next, CreatePullRequestStep, Begin, GetRef, CreateRef, Lookup, Commit,
                OpenPR, AddLabels, Reviewer, ClosePR, DeleteBranch, ReopenPR, github
  <2> QED  BY <1>1, <2>1 DEF GInv, FilesCounted, FilesOnBranch
<1>2. Spec => [][Next]_vars
  BY PTL DEF Spec
<1> QED  BY <1>1, <1>2, GInvariance, PTL DEF OpensOnlyComplete
-----------------------------------------------------------------------------
(* What a caller sees of another caller's step: nothing.                   *)
LEMMA ReplyOf ==
  ASSUME NEW c \in Callers
  PROVE  replyView[c] = IF pc[c] = "idle" THEN "none"
                        ELSE IF pc[c] \in Steps \ {"addLabels"} THEN "busy"
                        ELSE IF pc[c] = "addLabels" THEN "new" ELSE pc[c]
  BY DEF replyView

(* A step of CreatePullRequest moves the reply of its caller only.         *)
LEMMA ReplyMoves ==
  ASSUME TypeOK, NEW c \in Callers, NEW step \in Steps \cup Ends, Goto(c, step)
  PROVE  replyView' = [replyView EXCEPT ![c] =
                         IF step = "idle" THEN "none"
                         ELSE IF step \in Steps \ {"addLabels"} THEN "busy"
                         ELSE IF step = "addLabels" THEN "new" ELSE step]
  BY DEF replyView, Goto, TypeOK

(* Every step of the engine, or of a reviewer, is one that gitops.Engine   *)
(* allows, or is not seen by the caller.                                   *)
LEMMA ServiceStep ==
  ASSUME TInv, [Next]_vars
  PROVE  [Service!ServiceNext]_(Service!serviceVars)
<1> DEFINE Map == [Service!ServiceNext]_(Service!serviceVars)
<1>0. TypeOK
  BY DEF TInv
<1>1. ASSUME NEW c \in Callers, NEW b \in Branches, Begin(c, b) PROVE Service!Call(c)
  <2>1. replyView' = [replyView EXCEPT ![c] = "busy"]
    BY <1>0, <1>1, ReplyMoves DEF Begin, Steps
  <2>2. replyView[c] # "busy"
    BY <1>1, ReplyOf DEF Begin, Ends, Steps
  <2> QED  BY <1>1, <2>1, <2>2 DEF Begin, github, Service!Call, Service!Answer
<1>2. ASSUME NEW c \in Callers, Abort(c), pc[c] \in Steps \ {"addLabels"}, UNCHANGED open
      PROVE  Service!Fail(c)
  <2>1. replyView' = [replyView EXCEPT ![c] = "error"]
    BY <1>0, <1>2, ReplyMoves DEF Abort, Ends, Steps
  <2>2. replyView[c] = "busy"
    BY <1>2, ReplyOf DEF Steps
  <2> QED  BY <1>2, <2>1, <2>2 DEF Service!Fail, Service!Answer
<1>3. ASSUME NEW c \in Callers, NEW step \in Steps \ {"addLabels"}, Goto(c, step),
             pc[c] \in Steps \ {"addLabels"}, UNCHANGED open
      PROVE  UNCHANGED Service!serviceVars
  <2>1. replyView' = [replyView EXCEPT ![c] = "busy"]
    BY <1>0, <1>3, ReplyMoves DEF Steps
  <2>2. replyView[c] = "busy"
    BY <1>3, ReplyOf DEF Steps
  <2> QED  BY <1>3, <2>1, <2>2 DEF Service!serviceVars, replyView
<1>4. ASSUME NEW c \in Callers, GetRef(c) PROVE Map
  BY <1>2, <1>3, <1>4 DEF GetRef, github, Steps, Service!ServiceNext
<1>5. ASSUME NEW c \in Callers, CreateRef(c) PROVE Map
  BY <1>2, <1>3, <1>5 DEF CreateRef, Steps, Service!ServiceNext
<1>6. ASSUME NEW c \in Callers, Lookup(c) PROVE Map
  <2>1. CASE head[c] \in open /\ Goto(c, "existing")
    <3>1. replyView' = [replyView EXCEPT ![c] = "existing"]
      BY <1>0, <2>1, ReplyMoves DEF Ends, Steps
    <3>2. replyView[c] = "busy"
      BY <1>6, ReplyOf DEF Lookup, Steps
    <3>3. Service!ReturnExisting(c, head[c])
      BY <1>6, <2>1, <3>1, <3>2 DEF Lookup, github, Service!ReturnExisting, Service!Answer
    <3> QED  BY <1>0, <3>3 DEF TypeOK, Service!ServiceNext
  <2>2. CASE Goto(c, "commit")
    BY <1>3, <1>6, <2>2 DEF Lookup, github, Steps
  <2>3. CASE Abort(c)
    BY <1>2, <1>6, <2>3 DEF Lookup, github, Steps, Service!ServiceNext
  <2> QED  BY <1>6, <2>1, <2>2, <2>3 DEF Lookup
<1>7. ASSUME NEW c \in Callers, Commit(c) PROVE Map
  BY <1>2, <1>3, <1>7 DEF Commit, Steps, Service!ServiceNext
<1>8. ASSUME NEW c \in Callers, OpenPR(c) PROVE Map
  <2>1. CASE head[c] \in refs \ open /\ open' = open \cup {head[c]} /\ (Goto(c, "addLabels") \/ Abort(c))
    <3>1. replyView[c] = "busy"
      BY <1>8, ReplyOf DEF OpenPR, Steps
    <3>2. CASE Goto(c, "addLabels")
      <4>1. replyView' = [replyView EXCEPT ![c] = "new"]
        BY <1>0, <3>2, ReplyMoves DEF Steps
      <4>2. Service!OpenNew(c, head[c])
        BY <2>1, <3>1, <4>1 DEF Service!OpenNew, Service!Answer
      <4> QED  BY <1>0, <4>2 DEF TypeOK, Service!ServiceNext
    <3>3. CASE Abort(c)
      <4>1. replyView' = [replyView EXCEPT ![c] = "error"]
        BY <1>0, <3>3, ReplyMoves DEF Abort, Ends, Steps
      <4>2. Service!OpenUnconfirmed(c, head[c])
        BY <2>1, <3>1, <4>1 DEF Service!OpenUnconfirmed, Service!Answer
      <4> QED  BY <1>0, <4>2 DEF TypeOK, Service!ServiceNext
    <3> QED  BY <2>1, <3>2, <3>3
  <2>2. CASE Abort(c) /\ UNCHANGED open
    BY <1>2, <1>8, <2>2 DEF OpenPR, Steps, Service!ServiceNext
  <2> QED  BY <1>8, <2>1, <2>2 DEF OpenPR
<1>9. ASSUME NEW c \in Callers, AddLabels(c) PROVE Map
  <2>1. replyView' = [replyView EXCEPT ![c] = "new"]
    BY <1>0, <1>9, ReplyMoves DEF AddLabels, Ends, Steps
  <2>2. replyView[c] = "new"
    BY <1>9, ReplyOf DEF AddLabels, Steps
  <2> QED  BY <1>9, <2>1, <2>2 DEF AddLabels, github, Service!serviceVars, replyView
<1>10. CASE Reviewer
  <2>1. UNCHANGED replyView
    BY <1>10 DEF Reviewer, replyView
  <2>2. PICK b \in Branches : ClosePR(b) \/ DeleteBranch(b) \/ ReopenPR(b)
    BY <1>10 DEF Reviewer
  <2>3. \/ Service!CloseByUser(b) \/ Service!OpenByUser(b)
        \/ UNCHANGED Service!serviceVars
    BY <2>1, <2>2
    DEF ClosePR, DeleteBranch, ReopenPR, Service!CloseByUser, Service!OpenByUser, Service!serviceVars
  <2> QED  BY <2>3 DEF Service!ServiceNext
<1>11. CASE UNCHANGED vars
  BY <1>11 DEF vars, Service!serviceVars, replyView
<1>12. ASSUME NEW c \in Callers, NEW b \in Branches, Begin(c, b) PROVE Map
  BY <1>1, <1>12 DEF Service!ServiceNext
<1> QED  BY <1>4, <1>5, <1>6, <1>7, <1>8, <1>9, <1>10, <1>11, <1>12 DEF Next, CreatePullRequestStep

(* CreatePullRequest, as the REST calls it makes, implements what          *)
(* gitops.Engine promises its callers, for any number of callers and       *)
(* branches and however they share them.  Opening the pull request is the  *)
(* step that answers the call; labelling it is not seen.                   *)
THEOREM RefinesServiceHolds == Spec => RefinesService
<1>1. Init => Service!ServiceInit
  BY DEF Init, Service!ServiceInit, replyView
<1>2. TInv /\ [Next]_vars => [Service!ServiceNext]_(Service!serviceVars)
  BY ServiceStep
<1>3. Spec => Init /\ [][Next]_vars
  BY PTL DEF Spec
<1> QED  BY <1>1, <1>2, <1>3, TInvariance, PTL DEF RefinesService, Service!ServiceSpec
-----------------------------------------------------------------------------
(* The preset store of the dashboard, for every catalog of presets and any *)
(* number of requests that are served at the same time.  Nothing is        *)
(* assumed of the engine but the pull request it returns, so requests for  *)
(* one preset may run concurrently.                                        *)

(* The store and the requests.                                             *)
StoreTyped ==
  /\ state \in [Presets -> InFlight \cup {"not_enabled"}]
  /\ hpc \in [Handlers -> {"idle", "opening", "record", "pending", "applying"}]
  /\ hp \in [Handlers -> Presets]
  /\ drafted \subseteq Presets

(* A request that is about to write the store has its pull request, and    *)
(* nothing withdraws it while the request is between its two writes.       *)
WritersHavePR ==
  \A h \in Handlers : hpc[h] \in {"record", "pending"} => hp[h] \in drafted

SInv == StoreTyped /\ WritersHavePR /\ PendingHasPR

(* handlePresetPropose checks the state, opens the pull request and writes *)
(* the store twice, all without a lock held across: the invariant is kept  *)
(* by every step of every request, goroutine and reviewer.                 *)
LEMMA SNext == SInv /\ [PresetsNext]_presetsVars => SInv'
<1> SUFFICES ASSUME SInv, [PresetsNext]_presetsVars PROVE SInv'
  OBVIOUS
<1> USE DEF SInv, StoreTyped, InFlight, Presets, Handlers
<1>1. ASSUME NEW h \in Handlers, NEW p \in Presets, Propose(h, p) PROVE SInv'
  <2>1. /\ UNCHANGED state
        /\ hp' = [hp EXCEPT ![h] = p]
        /\ \/ hpc' = [hpc EXCEPT ![h] = "opening"] /\ drafted' = drafted
           \/ hpc' = [hpc EXCEPT ![h] = "record"] /\ drafted' = drafted \cup {p}
    BY <1>1 DEF Propose, Serve
  <2>2. StoreTyped' /\ drafted \subseteq drafted'
    BY <2>1
  <2>3. WritersHavePR'
    BY <2>1, <2>2 DEF WritersHavePR
  <2> QED BY <2>1, <2>2, <2>3 DEF PendingHasPR
<1>2. ASSUME NEW h \in Handlers, NEW p \in Presets, Apply(h, p) PROVE SInv'
  BY <1>2 DEF Apply, Serve, WritersHavePR, PendingHasPR
<1>3. ASSUME NEW h \in Handlers, EngineStep(h) PROVE SInv'
  BY <1>3 DEF EngineStep, storeVars, WritersHavePR, PendingHasPR
<1>4. ASSUME NEW h \in Handlers, PRReturned(h) PROVE SInv'
  <2>1. /\ UNCHANGED <<state, hp>>
        /\ \/ hpc' = [hpc EXCEPT ![h] = "record"] /\ drafted' = drafted \cup {hp[h]}
           \/ hpc' = [hpc EXCEPT ![h] = "idle"] /\ drafted' = drafted
    BY <1>4 DEF PRReturned, Serve
  <2> QED BY <2>1 DEF WritersHavePR, PendingHasPR
<1>5. ASSUME NEW h \in Handlers, Record(h) PROVE SInv'
  BY <1>5 DEF Record, Serve, SetState, WritersHavePR, PendingHasPR
<1>6. ASSUME NEW h \in Handlers, MarkPending(h) PROVE SInv'
  BY <1>6 DEF MarkPending, Serve, SetState, WritersHavePR, PendingHasPR
<1>7. ASSUME NEW h \in Handlers, ApplyReturned(h) PROVE SInv'
  BY <1>7 DEF ApplyReturned, Serve, SetState, WritersHavePR, PendingHasPR
<1>8. ASSUME NEW p \in Presets, DemoMerge(p) \/ DemoEnable(p) PROVE SInv'
  BY <1>8 DEF DemoMerge, DemoEnable, SetState, WritersHavePR, PendingHasPR
<1>9. CASE Review
  BY <1>9 DEF Review, WritersHavePR, PendingHasPR
<1>10. CASE UNCHANGED presetsVars
  BY <1>10 DEF presetsVars, storeVars, WritersHavePR, PendingHasPR
<1> QED
  BY <1>1, <1>2, <1>3, <1>4, <1>5, <1>6, <1>7, <1>8, <1>9, <1>10 DEF PresetsNext, HandlerStep

(* The store never announces a pull request that nobody opened, found or   *)
(* simulated: handlePresetPropose writes "proposing" and "pending_merge"   *)
(* only for the preset of a pull request it was given.                     *)
THEOREM PendingHasPRAlways == PresetsSpec => []PendingHasPR
<1>1. PresetsInit => SInv
  BY DEF PresetsInit, SInv, StoreTyped, InFlight, WritersHavePR, PendingHasPR
<1>2. SInv => PendingHasPR
  BY DEF SInv
<1> QED BY <1>1, <1>2, SNext, PTL DEF PresetsSpec

(* What a request of the dashboard does to the engine: a step of the       *)
(* engine or of a reviewer, or nothing but a simulated call.               *)
LEMMA EngineOrSimulated ==
  ASSUME [PresetsNext]_presetsVars
  PROVE  \/ [Next]_vars
         \/ /\ calls < MaxCalls /\ calls' = calls + 1
            /\ UNCHANGED <<refs, commits, open, pc, head, file, byUser, meanwhile>>
<1> USE DEF Presets, Handlers
<1>1. ASSUME NEW h \in Handlers, NEW p \in Presets, Propose(h, p)
      PROVE  \/ Next
             \/ /\ calls < MaxCalls /\ calls' = calls + 1
                /\ UNCHANGED <<refs, commits, open, pc, head, file, byUser, meanwhile>>
  BY <1>1 DEF Propose, Next
<1>2. ASSUME NEW h \in Handlers, EngineStep(h) PROVE Next
  BY <1>2 DEF EngineStep, Next
<1>3. CASE Review
  BY <1>3 DEF Review, Next
<1>4. ASSUME NEW h \in Handlers,
             \/ PRReturned(h) \/ Record(h) \/ MarkPending(h) \/ ApplyReturned(h)
             \/ \E p \in Presets : Apply(h, p)
      PROVE  UNCHANGED vars
  BY <1>4 DEF PRReturned, Record, MarkPending, ApplyReturned, Apply
<1>5. ASSUME NEW p \in Presets, DemoMerge(p) \/ DemoEnable(p) PROVE UNCHANGED vars
  BY <1>5 DEF DemoMerge, DemoEnable
<1>6. CASE UNCHANGED presetsVars
  BY <1>6 DEF presetsVars
<1> QED BY <1>1, <1>2, <1>3, <1>4, <1>5, <1>6 DEF PresetsNext, HandlerStep

(* The dashboard gets from the engine what gitops.Engine promises,         *)
(* although its handlers share a branch without a lock, apply presets      *)
(* beside it and simulate calls in demo mode: an answer "existing" was     *)
(* open when the call looked, and "new" was opened by this call.           *)
THEOREM PresetsUseService == PresetsSpec => RefinesService
<1>1. PresetsInit => TInv /\ Service!ServiceInit
  BY TInit DEF PresetsInit, Init, Service!ServiceInit, replyView
<1>2. ASSUME TInv, [PresetsNext]_presetsVars
      PROVE  TInv' /\ [Service!ServiceNext]_(Service!serviceVars)
  <2>1. CASE [Next]_vars
    BY <1>2, <2>1, TNext, ServiceStep
  <2>2. CASE /\ calls < MaxCalls /\ calls' = calls + 1
             /\ UNCHANGED <<refs, commits, open, pc, head, file, byUser, meanwhile>>
    <3>1. TInv'
      BY <1>2, <2>2, EngineAssumption DEF TInv, TypeOK, FilesLeft, OpenHasRef
    <3>2. UNCHANGED Service!serviceVars
      BY <2>2 DEF Service!serviceVars, replyView
    <3> QED BY <3>1, <3>2
  <2> QED BY <1>2, <2>1, <2>2, EngineOrSimulated
<1>3. TInv /\ [PresetsNext]_presetsVars => TInv' /\ [Service!ServiceNext]_(Service!serviceVars)
  BY <1>2
<1> QED BY <1>1, <1>3, PTL DEF PresetsSpec, RefinesService, Service!ServiceSpec
=============================================================================
