-------------------------- MODULE MCRetrainingFlow --------------------------
(* Two reviewed files, and the windows that the decision tells apart.      *)
EXTENDS RetrainingFlow

CONSTANTS t1, t2, t3

Reviewed(request, text, label, created, approved) ==
    [request |-> request, text |-> text, label |-> label,
     created |-> created, approved |-> approved]

\* A duplicate request, a holdout text and a row that nobody approved.
FileA == <<Reviewed(1, t1, "billing", 0, TRUE), Reviewed(1, t2, "billing", 0, TRUE),
           Reviewed(2, t3, "sales", 0, TRUE), Reviewed(3, t2, "sales", 0, FALSE)>>
\* A known record, and rows of different periods.
FileB == <<Reviewed(4, t2, "sales", 0, TRUE), Reviewed(5, t1, "sales", 2, TRUE),
           Reviewed(6, t2, "billing", 0, TRUE)>>

MCFiles == {FileA, FileB}
MCRecords == {<<4, t2, "sales">>}

Window(events, labels, features, prediction, confidence, decline) ==
    [events |-> events, labels |-> labels,
     value |-> [features |-> features, prediction |-> prediction,
                confidence |-> confidence, decline |-> decline]]

\* Critical by a decline, and a window that warns but is short of labels.
MCTwoWindows == {Window(5, 5, 2, 2, 0, 2), Window(5, 1, 1, 1, 1, 0)}

MCOneFile == {FileA}
MCCriticalWindow == {Window(5, 5, 2, 2, 0, 2)}

MCWarning == [s \in Signals |-> 1]
MCCritical == [s \in Signals |-> 2]

=============================================================================
