------------------------------ MODULE MCPages ------------------------------
(* Pages for TLC.  No property tells two cases or two report ids apart. *)
EXTENDS Pages, TLC
Symmetric == Permutations(Cases) \cup Permutations(ReportIds)

\* A behaviour is not followed further once it has both an upload and the report
\* page: all they share is which artifact ids there are, and IngestedElsewhere
\* adds those on every page.
Apart == submissions = 0 \/ (page.name # "reports" /\ generations = {})
=============================================================================
