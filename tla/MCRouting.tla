------------------------------ MODULE MCRouting -----------------------------
(***************************************************************************)
(* Routing with two accounts, and a model that some accounts rename.       *)
(***************************************************************************)
EXTENDS Routing

CONSTANTS a1, a2, m1, m2

AccountList == <<a1, a2>>
OwnTokens == [a \in {a1, a2} |-> <<"rt", a>>]

Named(s1, s2, r) == [stock |-> [m \in Models |-> IF m = m1 THEN s1 ELSE s2],
                     rules |-> [m \in Models |-> IF m = m1 THEN r ELSE None]]

\* No data; quota, none left; m1 renamed to m2, with and without
\* quota; quota under both names.
SomeQuotas ==
  {None,
   Named("left", "none", None), Named("spent", "none", None),
   Named("left", "left", m2), Named("left", "spent", m2)}

=============================================================================
