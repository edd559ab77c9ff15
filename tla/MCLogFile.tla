------------------------------ MODULE MCLogFile ------------------------------
EXTENDS LogFile
=============================================================================
