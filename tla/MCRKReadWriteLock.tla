--------------------------- MODULE MCRKReadWriteLock ---------------------------
\* The TLC instance of RKReadWriteLock: three threads, of which two readers can
\* take turns in front of a writer.
EXTENDS RKReadWriteLock
===============================================================================
