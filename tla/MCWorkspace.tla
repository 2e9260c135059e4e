----------------------------- MODULE MCWorkspace -----------------------------
(* Small instances of Workspace. *)
EXTENDS Workspace, TLC

CONSTANTS t1, t2, t3, text, fields, items

MCTasks == {t1, t2, t3}

Task(state, deps, blocks) ==
    [state |-> state, depends_on |-> deps, blocks |-> blocks, action |-> Absent]

\* The edges of the plans: depends_on and blocks of every task.
Edges ==
    {[deps |-> (t1 :> {} @@ t2 :> b @@ t3 :> c), blocks |-> (t1 :> a @@ t2 :> {} @@ t3 :> {})] :
        a \in {{}, {t2}, {t3}}, b \in {{}, {t1}}, c \in {{}, {t2}, {t1, t2}}}

States == {"none", "created", "claimed", "done", "cancelled"}

MCPlans ==
    {[t \in MCTasks |->
        IF s[t] = "none" THEN NoTask ELSE Task(s[t], e.deps[t], e.blocks[t])] :
        e \in Edges, s \in [MCTasks -> States]}

MCRecords ==
    {Task("blocked", {t2}, {}), Task("in_progress", {}, {t3}), Task("succeeded", {}, {}),
     Task("odd", {t1}, {})}

MCCreateInputs(plan) ==
    {[state |-> Absent, depends_on |-> {}, blocks |-> {}, action |-> a] :
        a \in IF \A t \in MCTasks : plan[t] = NoTask THEN TaskActions \cup {Absent} ELSE {Absent}}

MCUpdateInputs(plan) ==
    {[task |-> t, state |-> s, depends_on |-> d, blocks |-> Absent] :
        t \in {u \in {t1} : plan[t3] = NoTask}, s \in {Absent, "succeeded"}, d \in {Absent, {}}}

Symmetry == Permutations(Agents)
=============================================================================
