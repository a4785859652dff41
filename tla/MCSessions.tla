----------------------------- MODULE MCSessions -----------------------------
(***************************************************************************)
(* An instance of Sessions for TLC.                                        *)
(***************************************************************************)
EXTENDS Sessions, TLC

CONSTANTS ann, ben,       \* members
          home, office, cafe    \* addresses

Row(active, admin) == [active |-> active, admin_enabled |-> admin]

\* Two admins, who may impersonate, deactivate and revoke each other; ann has been
\* here before.
TwoAdmins == {[member |-> ann :> Row(TRUE, TRUE) @@ ben :> Row(TRUE, TRUE),
               last_login_ip |-> ann :> home @@ ben :> None]}

Forms == {Row(FALSE, TRUE), Row(TRUE, FALSE)}

SessionSymmetry ==
  Permutations(Requests) \cup Permutations(Tokens) \cup Permutations({office, cafe})
=============================================================================
