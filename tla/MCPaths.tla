------------------------------- MODULE MCPaths --------------------------------
(* The client program and the laboratory, each by itself: a run is of one. *)
EXTENDS PathChoice, PathModel

CONSTANTS a, b, c, d, MaxNodes

\* the lists: good ones, one node, one too few, one twice
Lists == {<<a, b, c, d>>, <<c, a, b>>, <<a>>, <<a, b, a>>, <<>>}

AllJobs == [addrs : Lists, hops : 0 .. 4, missing : -1 .. 2, fixed : BOOLEAN, auth : BOOLEAN]

\* its own bundle, that of a node next to it, a forged one or none
SomeAnswers(x) ==
    {x, Forged, None, CASE x = a -> b [] x = b -> c [] x = c -> b [] OTHER -> a}

\* the laboratory's arguments, some of them out of range
AllPlans ==
    {p \in [nodes : 1 .. MaxNodes, hops : 1 .. MaxNodes, rogue : 0 .. MaxNodes,
            missing : 0 .. MaxNodes - 1, leftOut : 0 .. MaxNodes, withheld : 0 .. MaxNodes] :
        /\ p.hops <= p.nodes /\ p.rogue <= p.nodes /\ p.missing <= p.nodes
        /\ p.leftOut <= p.nodes - p.rogue + 1 /\ p.withheld <= p.rogue + 1}

NoJob == [addrs |-> <<>>, hops |-> 0, missing |-> 0, fixed |-> TRUE, auth |-> FALSE]
NoPlan == [nodes |-> 0, hops |-> 1, rogue |-> 0, missing |-> 0, leftOut |-> 0, withheld |-> 0]

ClientRun == ChoiceInit /\ plan = NoPlan /\ at = 0 /\ tally = Zero
LabRun ==
    /\ LabInit
    /\ job = NoJob /\ stage = "refused" /\ entry = 0 /\ tries = 0 /\ mirror = <<>>
    /\ chosen = Nothing /\ draws = 0 /\ asked = {} /\ chain = <<>>

Init == ClientRun \/ LabRun
Next == (ChoiceNext /\ UNCHANGED lab) \/ (LabNext /\ UNCHANGED choice)
Spec == Init /\ [][Next]_<<choice, lab>>
===============================================================================
