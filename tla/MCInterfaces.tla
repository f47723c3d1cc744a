----------------------------- MODULE MCInterfaces -----------------------------
EXTENDS Interfaces

CONSTANTS p1, p2

MCPasswords == {p1, p2}
MCFiles == {"admin", "readonly"}
=============================================================================
