----------------------------- MODULE DualRender -----------------------------
(***************************************************************************)
(* What the Dual-Context Template Renderer promises (spec sections 4.4,   *)
(* 4.5 and 7), with no walk, no contexts and no map order: rendering       *)
(* starts from a plan (the winning template of every destination path),    *)
(* each step writes one template rendered with both contexts to the same   *)
(* relative path of the run tree and of the stage tree, and rendering      *)
(* returns nil only when both trees are the plan.  A failure stops the     *)
(* pipeline; files written before it stay, and only the file being         *)
(* written when it struck can differ between the trees.  Nothing but the   *)
(* renderer writes the trees.                                              *)
(***************************************************************************)
CONSTANTS
    Paths,      \* destination paths: (tree, relative path)
    Content,    \* what a path of a tree can hold
    Rendered,   \* the contents of Content that render a template completely
    Blank       \* the content of Content at a path nothing was written to

VARIABLES status, plan, run, stage

rvars == <<status, plan, run, stage>>

Empty == [p \in Paths |-> Blank]

Init ==
    /\ status = "idle"
    /\ plan = Empty
    /\ run = Empty
    /\ stage = Empty

Begin ==
    /\ status = "idle"
    /\ status' = "rendering"
    /\ plan' \in [Paths -> Content]
    /\ UNCHANGED <<run, stage>>

(* One template rendered twice, to the same path of both trees.          *)
Put ==
    /\ status = "rendering"
    /\ \E p \in Paths, c \in Rendered :
           run' = [run EXCEPT ![p] = c] /\ stage' = [stage EXCEPT ![p] = c]
    /\ UNCHANGED <<status, plan>>

Finish ==
    /\ status = "rendering"
    /\ run = plan /\ stage = plan
    /\ status' = "done"
    /\ UNCHANGED <<plan, run, stage>>

(* A failure: while rendering, the trees may differ from what they were *)
(* at one path (the file being written when it struck); at any other     *)
(* time they stay as they are.                                            *)
Abort ==
    /\ status # "failed"
    /\ status' = "failed"
    /\ IF status = "rendering"
       THEN /\ run' \in [Paths -> Content] /\ stage' \in [Paths -> Content]
            /\ \A p, q \in Paths :
                   (run'[p] # run[p] \/ stage'[p] # stage[p]) /\
                   (run'[q] # run[q] \/ stage'[q] # stage[q]) => p = q
       ELSE UNCHANGED <<run, stage>>
    /\ UNCHANGED plan

Next == Begin \/ Put \/ Finish \/ Abort

Spec == Init /\ [][Next]_rvars

=============================================================================
