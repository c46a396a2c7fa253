---------------------------- MODULE MCOpsSummary ----------------------------
(* Small instances of OpsSummary: three of the nine states, and pages of one    *)
(* job where there may be two.                                                *)
EXTENDS OpsSummary

MCJobStates == <<"Enqueued", "Processing", "Succeeded">>
MCInitHeld ==
    {[k \in Kind |-> CASE k = "Enqueued" -> jobs[1] [] k = "Processing" -> jobs[2]
                    [] k = "Succeeded" -> 0 [] OTHER -> 1] :
        jobs \in {<<2, 0>>, <<1, 1>>, <<0, 1>>}}
=============================================================================
