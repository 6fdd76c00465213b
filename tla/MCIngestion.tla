---- MODULE MCIngestion ----
EXTENDS Ingestion, TLC

MCBulk == <<"laps">>

MCFaults == {"http", "refused", "invalid", "database", "broker", "delivery", "kill"}
====
