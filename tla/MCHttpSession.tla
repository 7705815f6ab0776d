--------------------------- MODULE MCHttpSession ---------------------------
(***************************************************************************)
(* One browser, whose cookie outlives a restart of the session server.        *)
(***************************************************************************)
EXTENDS HttpSession
=============================================================================
