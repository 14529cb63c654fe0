-------------------------- MODULE MCPackageRegistry --------------------------
(* The run's three parts: one version with its assets, two versions with    *)
(* one asset name and no immutability, and blobs, which share no state with *)
(* the versions but the bound on commands.                                  *)
EXTENDS PackageRegistry, TLC

Published == {v \in Versions : row[v].born # 0} \cup UNION {call[c].todo : c \in Clients}
Assets    == {f \in Files : \/ \E v \in Versions : disk[v][f] # 0 \/ row[v].files[f] # 0
                            \/ \E c \in Clients : call[c].file = f}

Versioned == Published # {} \/ \E c \in Clients : call[c].pc # "idle" /\ call[c].digest = None
Uploaded  == \/ \E d \in Digests : final[d] # "none" \/ staging[d] # "none"
             \/ \E c \in Clients : call[c].digest # None

OnePart ==
    /\ ~(Uploaded /\ Versioned)
    /\ Cardinality(Published) > 1 =>
         /\ Cardinality(Assets) <= 1
         /\ \A v \in Versions : ~row[v].immutable
         /\ \A c \in Clients : ~call[c].immutable
    /\ ~Uploaded /\ Cardinality(Published) <= 1 => begun <= 4

MCSpec == Init /\ [][Next /\ OnePart']_vars

Symmetry == Permutations(Clients) \cup Permutations(Files)
=============================================================================
