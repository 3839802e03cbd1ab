-------------------------- MODULE MCLongTermMemory --------------------------
(***************************************************************************)
(* Instances of LongTermMemory for TLC.                                    *)
(***************************************************************************)
EXTENDS LongTermMemory, TLC

\* A fact is a short text, two are a long one.
OneFact == {S \in SUBSET Facts : Cardinality(S) <= 1}

\* The admin writes the blank text or the longest.
BlankOrWhole == {{}, Facts}

\* Facts are interchangeable.
SymmetricFacts == Permutations(Facts)
=============================================================================
