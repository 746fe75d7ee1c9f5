---------------------------- MODULE MCConfiguration ----------------------------
EXTENDS Configuration

Outrank(t, other) == t = "isotp" /\ other = "serial"

MCRequests ==
  {[load_disconnect_voltage |-> 12000, load_reconnect_voltage |-> 13000],
   [float_voltage |-> 13600, load_disconnect_voltage |-> 12500],
   [nominal_capacity |-> 100]}

Page(item) ==
  IF item \in {"load_disconnect_voltage", "load_reconnect_voltage", "discharge_temp_max",
               "discharge_temp_min"} THEN 2 ELSE 1
===============================================================================
