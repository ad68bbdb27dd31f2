---- MODULE MCWebClient ----
EXTENDS WebClient

====
