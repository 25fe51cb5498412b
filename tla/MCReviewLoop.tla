---------------------------- MODULE MCReviewLoop ----------------------------
(* The review loop for TLC: requests that take every way through it.              *)
EXTENDS ReviewLoop

Fleet(p, w, r) == [planner |-> p, worker |-> w, reviewer |-> r]

Request(policy, project, criteria, maxTasks, wave, cycles, detach, fleet) ==
    [policy |-> policy, project |-> project, gateway |-> "quiet", criteria |-> criteria,
     independent |-> TRUE, maxTasks |-> maxTasks, maxWorkers |-> 2, wave |-> wave,
     cycles |-> cycles, detach |-> detach, fleet |-> fleet, strays |-> policy = "always"]

\* One reviewer and a rework, detached in a repository; a fan-out, reviewed by the planner or
\* by a worker with a slice of it; a fan-out the task budget does not allow, in a
\* repository; no room for a review at all; nobody to review but the worker; nothing to
\* review; a project that is not a repository; a gateway that dispatches.
MCRequests ==
    LET whole == Fleet(1, 1, 1) IN
    {Request("auto", IF d THEN "git" ELSE "none", 1, 9, 1, 2, d, whole) : d \in BOOLEAN}
        \cup {Request("auto", "none", 2, 6, 2, IF d THEN 2 ELSE 1, d, Fleet(IF d THEN 1 ELSE 0, 2, 0)) :
                  d \in BOOLEAN}
        \cup {Request("auto", "git", 2, 5, 1, 1, FALSE, whole),
              Request("always", "none", 1, 3, 1, 2, FALSE, whole),
              Request("always", "none", 1, 9, 1, 2, FALSE, Fleet(0, 1, 0)),
              Request("never", "git", 0, 4, 1, 1, TRUE, Fleet(0, 1, 0)),
              Request("never", "directory", 0, 4, 2, 2, TRUE, Fleet(0, 1, 0)),
              [Request("never", "none", 0, 4, 2, 2, TRUE, Fleet(0, 1, 0))
                  EXCEPT !.gateway = "dispatching"]}

\* A cycle; a final task beside its verification; one after it.
MCInjected ==
    { << Node("work", 1, {<<"work", 2>>}), Node("work", 2, {<<"work", 1>>}),
         Node("final", 1, {<<"work", 1>>}) >>,
      << Node("work", 1, {}), Node("verification", 1, {<<"work", 1>>}),
         Node("final", 1, {<<"work", 1>>}) >>,
      << Node("work", 1, {}), Node("verification", 1, {<<"work", 1>>}),
         Node("final", 1, {<<"verification", 1>>}) >> }
================================================================================
