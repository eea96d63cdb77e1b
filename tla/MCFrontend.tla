------------------------------ MODULE MCFrontend ------------------------------
\* Model-checking instance of Frontend.
EXTENDS Frontend

CONSTANTS d1, d2
===============================================================================
