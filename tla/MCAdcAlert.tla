------------------------------- MODULE MCAdcAlert -------------------------------
EXTENDS AdcAlert

MCReadings == {0, 2, 3}
MCLimits == {2, 4}
===============================================================================
