-------------------------- MODULE MCCertificateStore --------------------------
\* Model-checking instance of CertificateStore.
EXTENDS CertificateStore

CONSTANTS p1, p2
===============================================================================
