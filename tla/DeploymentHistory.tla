--------------------------- MODULE DeploymentHistory ---------------------------
(***************************************************************************)
(* The `deployments' rows of one zone and the statements of                *)
(* DeploymentRepository.  A deployment is its sequence number and the      *)
(* records of its snapshot; the unique index on (zone_id, seq) makes a     *)
(* duplicate number fail the insert.                                       *)
(***************************************************************************)
EXTENDS Integers, FiniteSets

Seqs(h) == {e.seq : e \in h}

\* COALESCE(MAX(seq), 0)
LastSeq(h) ==
    IF h = {} THEN 0 ELSE CHOOSE s \in Seqs(h) : \A u \in Seqs(h) : u <= s

\* Mutant of CreateDeployment: numbers are counted.
CreateByCount(h, records) == h \cup {[seq |-> Cardinality(h) + 1, records |-> records]}

\* create: the number is taken and the row inserted in one statement.
CreateDeployment(h, records) == h \cup {[seq |-> LastSeq(h) + 1, records |-> records]}

\* pruneByRetention: DELETE ... WHERE seq <= MAX(seq) - n.  Nothing keeps n
\* positive here.
Prune(h, n) == {e \in h : e.seq > LastSeq(h) - n}
=============================================================================
