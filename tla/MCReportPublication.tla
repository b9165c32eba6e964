---- MODULE MCReportPublication ----
EXTENDS ReportPublication
====
