------------------------------ MODULE MCCorpus ------------------------------
(* Corpus with interchangeable participants.                               *)
EXTENDS Corpus, TLC

Symmetry == Permutations(Participants)

(* A day more takes nothing from TRAIN and moves no partition back: a      *)
(* later version validates on no day an earlier one trained on.            *)
ASSUME SplitAdvances ==
  \A n \in 3 .. 12 :
    LET size(k, part) == Cardinality({d \in 1 .. k : PartitionDays(1 .. k)[d] = part})
        trainEnd(k) == size(k, "TRAIN")
        validationEnd(k) == trainEnd(k) + size(k, "VALIDATION")
    IN /\ trainEnd(n) <= trainEnd(n + 1)
       /\ validationEnd(n) <= validationEnd(n + 1)
=============================================================================
