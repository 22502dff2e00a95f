----------------------------- MODULE MCXenConnection -----------------------------
\* A pool of two hosts, two attempts to connect to it.
EXTENDS XenConnection
=================================================================================
