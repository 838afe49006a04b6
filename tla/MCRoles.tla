------------------------------ MODULE MCRoles ------------------------------
\* RolePermissions for TLC: the administrators' requests are interchangeable.
EXTENDS RolePermissions, TLC

Symmetry == Permutations(Admins)
=============================================================================
