---------------------------- MODULE MCAsyncOperation ----------------------------
\* One operation that starts up to two server tasks; one answer may get lost.
EXTENDS AsyncOperation
=================================================================================
