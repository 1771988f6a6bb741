------------------------- MODULE WorkflowLifecycle -------------------------
(***************************************************************************)
(* What the history of a workflow promises its reader: the state diagram   *)
(* of docs/spec/manualmailworkflow/requirementsDefinition.md, with the     *)
(* statuses the repository writes.  A row that is not there is "absent".   *)
(***************************************************************************)
CONSTANT Workflows
VARIABLE status

Ends == {"succeeded", "partial_success", "failed"}

Init == status = [w \in Workflows |-> "absent"]

Move(w, from, to) ==
    /\ status[w] = from
    /\ status' = [status EXCEPT ![w] = to]

Accept(w) == Move(w, "absent", "queued")

Run(w) == Move(w, "queued", "running")

\* The job was not dispatched, or its first write failed.
GiveUp(w) == Move(w, "queued", "failed")

End(w) == \E s \in Ends : Move(w, "running", s)

Next == \E w \in Workflows : Accept(w) \/ Run(w) \/ GiveUp(w) \/ End(w)

SafeSpec == Init /\ [][Next]_status

Spec ==
    /\ SafeSpec
    /\ \A w \in Workflows : WF_status(Run(w) \/ GiveUp(w)) /\ WF_status(End(w))
============================================================================
