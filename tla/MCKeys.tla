------------------------------- MODULE MCKeys -------------------------------
EXTENDS Keys

CONSTANTS K, E1, E2, P, Q, P1, P2

\* The second is a rotated key under the id of the first.
MCConfigured == {[kid |-> K, pem |-> P], [kid |-> K, pem |-> Q]}
MCThrowaway  == {[kid |-> E1, pem |-> P1], [kid |-> E2, pem |-> P2]}
=============================================================================
