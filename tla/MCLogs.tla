------------------------------- MODULE MCLogs -------------------------------
(* Logs for TLC.                                                           *)
EXTENDS Logs

CONSTANTS t1, t2

MCThreads1 == {t1}
MCThreads2 == {t1, t2}
MCOnePipe == {"stdout"}
MCPipes == {"stdout", "stderr"}
=============================================================================
