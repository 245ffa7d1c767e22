----------------------------- MODULE MCHttpPool -----------------------------
EXTENDS HttpPoolProps

=============================================================================
