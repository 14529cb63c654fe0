------------------------ MODULE MCRecordingLifecycle ------------------------
(* Two callers and two meetings: behaviours in which the commands overlap   *)
(* stay with one meeting, one command after another goes to both.           *)
EXTENDS RecordingLifecycle, TLC

Touched == {m \in Meetings : \/ mstate[m] # "open"
                              \/ \E c \in Callers : mtg[c] = m
                              \/ \E r \in Recs : row[r].meeting = m}

MCNext ==
    /\ Next /\ Watch
    /\ overlapped' => Cardinality(Touched') <= 1

MCSpec == Init /\ [][MCNext]_allvars

Symmetry == Permutations(Recs) \cup Permutations(Callers) \cup Permutations(Meetings)
=============================================================================
