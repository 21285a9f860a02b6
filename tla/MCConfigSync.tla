----------------------------- MODULE MCConfigSync -----------------------------
(* Values of ConfigSync's constants for TLC. *)
EXTENDS ConfigSync

CONSTANTS d1, d2

\* A new customer in an otherwise empty sheet.
NewCustomer ==
    [t \in Tabs |-> IF t = "slack" THEN <<[key |-> "c1", doc |-> d1, done |-> ""]>>
                    ELSE <<>>]

\* One customer was onboarded, a second row is new.
OneDoneOneNew ==
    [t \in Tabs |-> IF t = "slack"
                    THEN <<[key |-> "c1", doc |-> d1, done |-> "Y"],
                           [key |-> "c2", doc |-> d1, done |-> ""]>>
                    ELSE <<>>]

InstanceSymmetry == Permutations(Instances)
=============================================================================
