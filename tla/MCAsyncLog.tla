----------------------------- MODULE MCAsyncLog -----------------------------
EXTENDS AsyncLog
=============================================================================
