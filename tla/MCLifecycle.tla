---------------------------- MODULE MCLifecycle -----------------------------
EXTENDS Lifecycle

=============================================================================
