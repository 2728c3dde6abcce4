----------------------------- MODULE MCRateLimit -----------------------------
(* Bounds for RateLimit: four requests, three of a route that lets one     *)
(* through per window and one of a route that lets two, in one bucket.     *)
EXTENDS RateLimit

MCRequests == 1 .. 4
MCBucket == <<"login", "login", "login", "login">>
MCLimit == <<1, 1, 1, 2>>
=============================================================================
