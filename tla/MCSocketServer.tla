---------------------------- MODULE MCSocketServer ----------------------------
EXTENDS SocketServer

CONSTANTS t1, main, acc, wrk, cli
=============================================================================
