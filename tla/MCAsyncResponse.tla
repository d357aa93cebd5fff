-------------------------- MODULE MCAsyncResponse --------------------------
(* One exchange, its producers and the server's teardown for TLC; the values *)
(* are in the configurations.                                                *)
EXTENDS AsyncResponse
=============================================================================
