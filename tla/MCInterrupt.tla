---------------------------- MODULE MCInterrupt ----------------------------
(* Two applications; HttpServer and the database as add-ons; two requests.  *)
EXTENDS Interrupt

CONSTANTS root, http, db, t1, t2, q1, q2

MCAttached == <<http, db>>
ToApp == q1 :> t1 @@ q2 :> t1
=============================================================================
