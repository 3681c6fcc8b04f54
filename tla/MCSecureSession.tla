-------------------------- MODULE MCSecureSession --------------------------
\* Values for model checking SecureSession.
EXTENDS SecureSession
=============================================================================
