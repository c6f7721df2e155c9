---------------------------- MODULE MCHttpServer ----------------------------
(* Three requests around one start and one stop of the process.            *)
EXTENDS HttpServer

=============================================================================
