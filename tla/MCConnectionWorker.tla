--------------------------- MODULE MCConnectionWorker ---------------------------
\* One connection with up to three requests, one of whose answers may come late.
EXTENDS ConnectionWorker
=================================================================================
