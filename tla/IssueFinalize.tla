------------------------------ MODULE IssueFinalize ------------------------------
(***************************************************************************)
(* Finalising a completed workflow: nexus/core/issue_finalize.py with      *)
(* finalize_workflow of                                                    *)
(* nexus/plugins/builtin/workflow_policy_plugin.py, create_pr_from_changes *)
(* of nexus/adapters/git/github.py and the worktrees of                    *)
(* nexus/core/workspace.py.                                                *)
(*                                                                         *)
(* The processor finalises when it completes a workflow, the bot when a    *)
(* user asks to continue a completed one whose issue is open.  For each    *)
(* repository: the pull request is found, or made from the uncommitted     *)
(* changes; then the worktrees are cleaned up, and unless something        *)
(* blocks, the pull requests are enqueued for merging.                     *)
(***************************************************************************)
EXTENDS MergeQueue

CONSTANT Home       \* the repository of the issues

ASSUME FinalizeAssumption == Home \in Repos /\ IsFiniteSet(Repos) /\ AtOnce \subseteq Repos

VARIABLES
    tree,       \* per issue and repository, whether the worktree exists
    removing,   \* worktrees that were found removable and are about to go, and by whom
    raced,      \* history: of these, those whose issue got an agent in between
    work,       \* and where the agents' work is
    fin,        \* per editor, the finalisation it performs
    ended,      \* history: issues of which a finalisation has ended, broke off or was
                \* skipped by a restart
    broken      \* history: repositories of issues where a finalisation broke off,
                \* where an agent worked on after the pull request was made or
                \* left changes without one, or where a removal took them

treeVars == <<tree, removing, raced, work>>
finalVars == <<treeVars, fin, ended, broken>>

\* "dirty" in the worktree, committed on the "local" branch only, "pushed"
\* without a pull request, or "proposed" in one.
WorkStates == {"none", "dirty", "local", "pushed", "proposed"}

Cleaners == Editors \cup {"webhook"}

NoFin == [at |-> "idle", issue |-> NoId, todo |-> {}, urls |-> {}, blocked |-> FALSE]

\* A finalisation of issue i begins with all repositories to do.
Begins(f, i) ==
    fin' = [fin EXCEPT ![f] = [NoFin EXCEPT !.at = "repos", !.issue = i, !.todo = Repos]]

\* Faulty variant: the loop is left with the first pull request.
LinkedLast(f, r) ==
    fin' = [fin EXCEPT ![f].todo = {}, ![f].urls = @ \cup {r}]

\* Faulty variant: a repository that blocks is tried again.
BlockedStays(f, r) == fin' = [fin EXCEPT ![f].blocked = TRUE]

\* The repository is done with, with or without a valid pull request.
Linked(f, r) ==
    fin' = [fin EXCEPT ![f].todo = @ \ {r}, ![f].urls = @ \cup {r}]
Skipped(f, r) == fin' = [fin EXCEPT ![f].todo = @ \ {r}]
Blocked(f, r) == fin' = [fin EXCEPT ![f].todo = @ \ {r}, ![f].blocked = TRUE]

Breaks(p) == broken' = broken \cup {p}
Holds == UNCHANGED broken

-----------------------------------------------------------------------------
\* create_pr_from_changes, in the worktree, which is made if it is missing.
\* Without uncommitted changes there is nothing to propose, also when earlier
\* ones were committed by an attempt that failed; a failed push or request
\* answers no pull request, which blocks nothing.
CreatesPR(f, r) ==
    LET p == <<fin[f].issue, r>>
    IN  \/ /\ work[p] # "dirty"
           /\ tree' = [tree EXCEPT ![p] = TRUE]
           /\ Holds /\ Skipped(f, r)
           /\ UNCHANGED <<removing, raced, work, prs>>
        \/ /\ work[p] = "dirty" /\ prs[p] = "open"
           /\ work' = [work EXCEPT ![p] = "proposed"]
           /\ Holds /\ Skipped(f, r)
           /\ UNCHANGED <<tree, removing, raced, prs>>
        \/ /\ work[p] = "dirty" /\ prs[p] # "open"
           /\ work' = [work EXCEPT ![p] = "proposed"]
           /\ prs' = [prs EXCEPT ![p] = "open"]
           /\ Holds /\ Linked(f, r)
           /\ UNCHANGED <<tree, removing, raced>>

CreateBreaks(f, r) ==
    LET p == <<fin[f].issue, r>>
    IN  /\ work[p] = "dirty" /\ prs[p] # "open"
        /\ \/ /\ \E s \in {"local", "pushed"} : work' = [work EXCEPT ![p] = s]
              /\ Skipped(f, r)
              /\ UNCHANGED prs
           \/ /\ work' = [work EXCEPT ![p] = "proposed"]
              /\ prs' = [prs EXCEPT ![p] = "open"]
              /\ Blocked(f, r)
        /\ Breaks(p)
        /\ UNCHANGED <<tree, removing, raced>>

\* Of a pull request that exists the bot, and only the bot, first brings the
\* branch up to date, which makes the worktree again; when the push fails, the
\* commit stays local and the request is linked all the same.  Without a
\* worktree nothing can be validated.
LinksPR(f, r) ==
    LET p == <<fin[f].issue, r>>
    IN  /\ IF f = "bot"
           THEN /\ tree' = [tree EXCEPT ![p] = TRUE]
                /\ \E s \in {"proposed", "local"} :
                      work' = [work EXCEPT ![p] = IF @ = "dirty" THEN s ELSE @]
                /\ UNCHANGED <<removing, raced>>
           ELSE UNCHANGED treeVars
        /\ IF tree'[p] THEN Linked(f, r) ELSE Blocked(f, r)
        /\ Holds
        /\ UNCHANGED prs

\* The validation fails.
LinkBreaks(f, r) ==
    /\ Blocked(f, r)
    /\ Breaks(<<fin[f].issue, r>>)
    /\ UNCHANGED <<treeVars, prs>>

\* One repository of a finalisation; a search that fails finds no pull request.
FinalizesRepo(f, r) ==
    /\ fin[f].at = "repos" /\ fin[f].todo # {} /\ r = InOrder(fin[f].todo)
    /\ LET p == <<fin[f].issue, r>>
       IN  \/ prs[p] = "none" /\ Works /\ CreatesPR(f, r)
           \/ prs[p] # "none" /\ Works /\ LinksPR(f, r)
           \/ prs[p] # "none" /\ Fails /\ CreatesPR(f, r)
           \/ prs[p] = "none" /\ Fails /\ CreateBreaks(f, r)
           \/ prs[p] # "none" /\ Fails /\ LinkBreaks(f, r)
    /\ UNCHANGED <<queueVars, dispatchVars, mode, doc, held, merging, inMerge, press, landed,
                   byQueue, approved, events, ended>>

-----------------------------------------------------------------------------
(* cleanup_worktree_safe: whether an agent is at work and the worktree is  *)
(* clean is asked first, and the removal that follows asks nothing.        *)

\* Faulty variant: worktrees with local modifications go as well.
RemovableAnyway(p) == ~agent[p[1]]

Removable(p) == ~agent[p[1]] /\ work[p] # "dirty"

Checks(w, p) ==
    removing' = IF tree[p] /\ Removable(p) THEN removing \cup {<<p, w>>} ELSE removing

\* What was written since the check goes with the worktree.
Removes(w, p) ==
    /\ <<p, w>> \in removing
    /\ tree' = [tree EXCEPT ![p] = FALSE]
    /\ work' = [work EXCEPT ![p] = IF @ = "dirty" THEN "none" ELSE @]
    /\ broken' = IF work[p] = "dirty" THEN broken \cup {p} ELSE broken
    /\ removing' = removing \ {<<p, w>>}
    /\ raced' = raced \ {<<p, w>>}
    /\ Works
    /\ UNCHANGED <<queueVars, dispatchVars, mergeVars, fin, ended>>

\* The launch of an agent on issue i makes its worktrees.
Provides(i) ==
    /\ tree' = [p \in PRs |-> tree[p] \/ p[1] = i]
    /\ raced' = raced \cup {s \in removing : s[1][1] = i}

-----------------------------------------------------------------------------
\* The worktrees go also when the finalisation is blocked.
CleansBegin(f) ==
    /\ fin[f].at = "repos" /\ fin[f].todo = {}
    /\ fin' = [fin EXCEPT ![f].at = "clean", ![f].todo = Repos]
    /\ Works
    /\ UNCHANGED <<queueVars, dispatchVars, mergeVars, treeVars, ended, broken>>

Removed(f) == \A s \in removing : s[2] # f

CleansUp(f, r) ==
    /\ fin[f].at = "clean" /\ fin[f].todo # {} /\ r = InOrder(fin[f].todo) /\ Removed(f)
    /\ Checks(f, <<fin[f].issue, r>>)
    /\ fin' = [fin EXCEPT ![f].todo = @ \ {r}]
    /\ Works
    /\ UNCHANGED <<queueVars, dispatchVars, mergeVars, tree, raced, work, ended, broken>>

\* What blocks is a repository, or that no repository has a pull request.
FinalizeEnds(f) ==
    LET stop == fin[f].blocked \/ fin[f].urls = {}
    IN  /\ fin[f].at = "clean" /\ fin[f].todo = {} /\ Removed(f)
        /\ ended' = ended \cup {fin[f].issue}
        /\ fin' = [fin EXCEPT ![f] = IF stop THEN NoFin ELSE [@ EXCEPT !.at = "queue"]]
        /\ Works
        /\ UNCHANGED <<queueVars, dispatchVars, mergeVars, treeVars, broken>>

\* enqueue_merge_queue_prs; what cannot be enqueued is only logged.
FinalizeQueues(f, r) ==
    /\ fin[f].at = "queue" /\ r = InOrder(fin[f].urls) /\ held[f] = {}
    /\ \/ Works /\ Loads(f, <<fin[f].issue, r>>, Queued)
       \/ Fails /\ UNCHANGED held
    /\ fin' = IF fin[f].urls = {r} THEN [fin EXCEPT ![f] = NoFin]
              ELSE [fin EXCEPT ![f].urls = @ \ {r}]
    /\ UNCHANGED <<queueVars, dispatchVars, mode, doc, merging, inMerge, press, prs, landed,
                   byQueue, approved, events, treeVars, ended, broken>>

FinalizeInit ==
    /\ tree = [p \in PRs |-> FALSE]
    /\ removing = {} /\ raced = {}
    /\ work = [p \in PRs |-> "none"]
    /\ fin = [f \in Editors |-> NoFin]
    /\ ended = {}
    /\ broken = {}

===============================================================================
