----------------------------- MODULE MCOperationHistory -----------------------------
\* A task of this program's and one of another's.
EXTENDS OperationHistory
=====================================================================================
