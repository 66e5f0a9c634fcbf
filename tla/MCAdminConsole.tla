--------------------------- MODULE MCAdminConsole ---------------------------
(* AdminConsole for TLC: names, roles and cases are interchangeable. *)
EXTENDS AdminConsole, TLC
Symmetric == Permutations(Names) \cup Permutations(Roles) \cup Permutations(Cases)
               \cup Permutations(Slots)
=============================================================================
