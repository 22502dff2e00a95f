-------------------------------- MODULE MCCacheFeed --------------------------------
\* Two objects, one of them a console.
EXTENDS CacheFeed
=====================================================================================
