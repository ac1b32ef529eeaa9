----------------------------- MODULE MCDynArrays -----------------------------
EXTENDS DynArrays

\* A schema of a non-nullable String column, a String primary key (user
\* column 1) and a nullable Boolean column.
MCColType == (0 :> "String" @@ 1 :> "String" @@ 2 :> "Boolean")
MCSchemaNullable == (0 :> FALSE @@ 1 :> FALSE @@ 2 :> TRUE)

=============================================================================
