------------------------------- MODULE MergeQueue -------------------------------
(***************************************************************************)
(* The merge queue: nexus/core/merge_queue.py, its document in             *)
(* nexus/core/state_manager.py, and the buttons for it in                  *)
(* nexus/core/callbacks/callback_inline_service.py.                        *)
(*                                                                         *)
(* The queue is one document.  The processor and the bot change an entry   *)
(* by loading the document, changing the entry and saving the document;    *)
(* what is held between the two is the document that will be saved, so     *)
(* whoever saves last takes back what others saved in between.             *)
(***************************************************************************)
EXTENDS TaskDispatch

CONSTANTS
    Repos,      \* repositories of the project
    AtOnce      \* those in which pull requests go to the default branch

PRs == IssueIds \X Repos    \* at most one pull request of an issue is open in each

Editors == {"processor", "bot"}

VARIABLES
    mode,       \* the project's review mode
    doc,        \* the queue
    held,       \* per editor, the document it is about to save, if any
    merging,    \* the entries that the merge pass still has to look at
    inMerge,    \* the pull request that the pass has marked, if any
    press,      \* the entries that a button still has to change, and how
    prs,        \* per pull request, its state on the platform
    landed,     \* history: pull requests that were merged
    byQueue,    \* history: pull requests that the queue merged
    approved,   \* history: pull requests that a user approved for merging
    events      \* the webhook's events under way: pull requests merged or closed

mergeVars == <<mode, doc, held, merging, inMerge, press, prs, landed, byQueue, approved, events>>

NoPR == <<NoId, NoTask>>
NoEntry == [st |-> "absent", over |-> FALSE]
NoPress == [act |-> "none", todo |-> {}]

\* What is in a set of things is dealt with in one order.
InOrder(S) == CHOOSE x \in S : TRUE

Loads(w, p, e) == held' = [held EXCEPT ![w] = {[doc EXCEPT ![p] = e]}]

\* The save that ends the change of an entry.
Saves(w) ==
    /\ \E d \in held[w] : doc' = d
    /\ held' = [held EXCEPT ![w] = {}]
    /\ Works
    /\ UNCHANGED <<queueVars, dispatchVars, mode, merging, inMerge, press, prs, landed,
                   byQueue, approved, events>>

\* Faulty variant: every pull request is taken for approved.
QueuedAnyway == [st |-> "pending_auto_merge", over |-> TRUE]

\* The entry of an enqueued pull request, whatever it was before.
Queued ==
    [st |-> IF mode = "auto" THEN "pending_auto_merge" ELSE "pending_manual_review",
     over |-> FALSE]

-----------------------------------------------------------------------------
(* The platform.                                                           *)

\* Every pull request says that it closes the issue, in whichever repository it
\* is (create_pr_from_changes); the platform does so with the merge, when that is
\* one to the default branch.
MergesPR(p) ==
    /\ prs' = [prs EXCEPT ![p] = "merged"]
    /\ landed' = landed \cup {p}
    /\ events' = events \cup {<<p, "merged">>}
    /\ issue' = IF p[2] \in AtOnce THEN [issue EXCEPT ![p[1]].open = FALSE] ELSE issue

\* What is left alone by all that happens to pull requests.
apart == <<queueVars, wf, by, agent, at, target, notices, blind, mode, doc, merging>>

-----------------------------------------------------------------------------
(* The merge pass of the processor.                                        *)

Eligible(e) == e.st = "pending_auto_merge" /\ (mode = "auto" \/ e.over)

\* The pass reads the document once.
PassBegins ==
    /\ merging = {} /\ inMerge = NoPR
    /\ merging' = {p \in PRs : Eligible(doc[p])}
    /\ merging' # {}
    /\ Works
    /\ UNCHANGED <<queueVars, dispatchVars, mode, doc, held, inMerge, press, prs, landed,
                   byQueue, approved, events>>

\* An entry is marked, as far as it is still there.
MergeMarks ==
    /\ merging # {} /\ inMerge = NoPR /\ held["processor"] = {}
    /\ LET p == InOrder(merging)
       IN  /\ merging' = merging \ {p}
           /\ inMerge' = p
           /\ Loads("processor", p,
                    IF doc[p] = NoEntry THEN NoEntry ELSE [doc[p] EXCEPT !.st = "merging"])
    /\ Works
    /\ UNCHANGED <<queueVars, dispatchVars, mode, doc, press, prs, landed, byQueue, approved, events>>

\* Faulty variant: what could not be merged goes back to the queue.
RecordsAgain(p, st) ==
    Loads("processor", p,
          IF st = "merged" THEN [st |-> st, over |-> FALSE]
          ELSE [doc[p] EXCEPT !.st = "pending_auto_merge"])

Records(p, st) ==
    Loads("processor", p,
          IF doc[p] = NoEntry THEN NoEntry
          ELSE [st |-> st, over |-> st # "merged" /\ doc[p].over])

\* The pull request is merged and its event sent; deleting the branch may then
\* raise.  An entry that is "blocked" is treated as one that has failed.  The
\* platform refuses one that is not open, or for a reason of its own.
MergeCalls ==
    LET p == inMerge
    IN  /\ p # NoPR /\ held["processor"] = {}
        /\ \/ /\ prs[p] = "open" /\ MergesPR(p)
              /\ byQueue' = byQueue \cup {p}
              /\ \/ Works /\ Records(p, "merged")
                 \/ Fails /\ Records(p, "failed")
           \/ /\ IF prs[p] = "open" THEN Fails ELSE Works
              /\ Records(p, "failed")
              /\ UNCHANGED <<prs, landed, byQueue, events, issue>>
        /\ inMerge' = NoPR
        /\ UNCHANGED <<apart, press, approved>>

-----------------------------------------------------------------------------
(* The buttons of the bot.                                                 *)

\* The entries that a button changes.
ActsOn(act, e) ==
    CASE act = "approve" -> e.st = "pending_manual_review"
      [] act = "merge" -> e.st \in {"pending_manual_review", "failed"}
      [] act = "retry" -> e.st = "failed"

\* A retry goes back to where the review mode starts, without an override.
Target(act) ==
    IF act = "retry" THEN Queued ELSE [st |-> "pending_auto_merge", over |-> TRUE]

Press(act, i) ==
    LET todo == {p \in PRs : p[1] = i /\ ActsOn(act, doc[p])}
    IN  /\ press = NoPress /\ held["bot"] = {}
        /\ todo # {}
        /\ Asked
        /\ press' = [act |-> act, todo |-> todo]
        /\ approved' = IF act = "retry" THEN approved ELSE approved \cup todo
        /\ UNCHANGED <<queueVars, dispatchVars, mode, doc, held, merging, inMerge, prs, landed,
                       byQueue, events>>

PressLoads ==
    /\ press.todo # {} /\ held["bot"] = {}
    /\ LET p == InOrder(press.todo)
       IN  /\ press' = IF press.todo = {p} THEN NoPress ELSE [press EXCEPT !.todo = @ \ {p}]
           /\ Loads("bot", p, IF doc[p] = NoEntry THEN NoEntry ELSE Target(press.act))
    /\ Works
    /\ UNCHANGED <<queueVars, dispatchVars, mode, doc, merging, inMerge, prs, landed, byQueue,
                   approved, events>>

\* Somebody merges the pull request on the platform, or turns it down.
HumanMerges(p) ==
    /\ prs[p] = "open"
    /\ Asked
    /\ MergesPR(p)
    /\ UNCHANGED <<apart, held, inMerge, press, byQueue, approved>>

HumanRejects(p) ==
    /\ prs[p] = "open"
    /\ Asked
    /\ prs' = [prs EXCEPT ![p] = "closed"]
    /\ events' = events \cup {<<p, "closed">>}
    /\ UNCHANGED <<apart, issue, held, inMerge, press, landed, byQueue, approved>>

MergeInit ==
    /\ mode \in {"manual", "auto"}
    /\ doc = [p \in PRs |-> NoEntry]
    /\ held = [w \in Editors |-> {}]
    /\ merging = {} /\ inMerge = NoPR
    /\ press = NoPress
    /\ prs = [p \in PRs |-> "none"]
    /\ landed = {} /\ byQueue = {} /\ approved = {}
    /\ events = {}

===============================================================================
