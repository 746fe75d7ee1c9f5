------------------------------ MODULE MCPwmSwitch ------------------------------
EXTENDS PwmSwitch

S(voltage, current, unfit, allowed, sun) ==
  [voltage |-> voltage, current |-> current, unfit |-> unfit, allowed |-> allowed, sun |-> sun]

Dark == S("low", "none", FALSE, TRUE, FALSE)
Ready == S("low", "none", FALSE, TRUE, TRUE)
Nearly == S("near", "none", FALSE, TRUE, TRUE)
Full == S("target", "none", FALSE, TRUE, TRUE)
Hot == S("near", "none", FALSE, FALSE, TRUE)
MCMeasured(on) ==
  {Dark, Ready, Nearly, Full, Hot, S("over", "none", FALSE, TRUE, TRUE),
   S("low", "none", TRUE, TRUE, TRUE)} \cup
  IF on
  THEN {S("near", "charging", FALSE, TRUE, TRUE), S("near", "charging", FALSE, FALSE, TRUE),
        S("above", "charging", FALSE, TRUE, TRUE), S("low", "excess", FALSE, TRUE, TRUE),
        S("over", "excess", FALSE, TRUE, TRUE)}
  ELSE {}
===============================================================================
