---- MODULE MCForwarder ----
EXTENDS Forwarder
====
