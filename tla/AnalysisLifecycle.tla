-------------------------- MODULE AnalysisLifecycle --------------------------
(***************************************************************************)
(* What the status of an analysis promises to anyone who polls it          *)
(* (AnalysisState and Analysis.__post_init__ in analysis/service.py).      *)
(*                                                                         *)
(* An analysis is queued once, passes its stages in order, ends in exactly *)
(* one of three terminal states, never leaves it, and may be deleted at    *)
(* any time.  A deleted analysis never comes back.  AnalysisJobs, with its *)
(* worker threads, requests, crashes and restarts, implements this.        *)
(***************************************************************************)
CONSTANT Ids   \* the identifiers analyses can be given

VARIABLE status   \* [Ids -> Statuses]

\* The states run_analysis writes before it runs a stage, in order, after
\* "queued".  VALIDATING is declared in the enumeration and never written.
NonTerminal == {"queued", "parsing", "profiling", "detecting"}

Terminal == {"completed", "failed", "cancelled"}

\* "none": no analysis has this identifier yet.  "deleted": it had one.
Statuses == NonTerminal \cup Terminal \cup {"none", "deleted"}

\* The stage that follows the one an analysis is in.
Follows == [queued |-> "parsing", parsing |-> "profiling",
            profiling |-> "detecting"]
-----------------------------------------------------------------------------
Init == status = [a \in Ids |-> "none"]

Queue(a) ==
    /\ status[a] = "none"
    /\ status' = [status EXCEPT ![a] = "queued"]

EnterStage(a) ==
    /\ status[a] \in NonTerminal \ {"detecting"}
    /\ status' = [status EXCEPT ![a] = Follows[status[a]]]

Complete(a) ==
    /\ status[a] = "detecting"
    /\ status' = [status EXCEPT ![a] = "completed"]

\* A stage failed, the client cancelled, or a restart found it interrupted.
GiveUp(a) ==
    /\ status[a] \in NonTerminal
    /\ \E end \in {"failed", "cancelled"} :
           status' = [status EXCEPT ![a] = end]

Delete(a) ==
    /\ status[a] \in NonTerminal \cup Terminal
    /\ status' = [status EXCEPT ![a] = "deleted"]

Next == \E a \in Ids : \/ Queue(a) \/ EnterStage(a) \/ Complete(a)
                       \/ GiveUp(a) \/ Delete(a)

Spec == Init /\ [][Next]_status
=============================================================================
