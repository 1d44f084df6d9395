---------------------------- MODULE MCDetection ----------------------------
\* Two hosts: one may gather three alerts and a model score, the other one alert.
EXTENDS Detection

MCMaxAlerts == [h \in Hosts |-> IF h = "ws" THEN 3 ELSE 1]
=============================================================================
