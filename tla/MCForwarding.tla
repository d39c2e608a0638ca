--------------------------- MODULE MCForwarding ---------------------------
\* TLC instances of Forwarding.
EXTENDS Forwarding
CONSTANTS q1, q2

\* A credential that trusts a bundle, an entry that is for its bundle only, and one that adds
\* an authorization to a registered plugin.
MCCreds == {[url |-> TRUE,  auth |-> TRUE,  bundle |-> TRUE],
            [url |-> TRUE,  auth |-> FALSE, bundle |-> TRUE],
            [url |-> FALSE, auth |-> TRUE,  bundle |-> FALSE]}
=============================================================================
