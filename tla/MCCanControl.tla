---- MODULE MCCanControl ----
EXTENDS CanControl
MCAddresses == {<<1, 2, 3>>, <<2, 2, 3>>}
====
