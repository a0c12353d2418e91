------------------------- MODULE MCHttpRetrySeries -------------------------
(* HttpRetrySeries with every status code the code or its comment names, and *)
(* the neighbours of every boundary.                                         *)
EXTENDS HttpRetrySeries

MCStatuses == {0, 100, 199, 200, 201, 299, 300, 302, 399, 400, 401, 403, 404,
               407, 408, 409, 428, 429, 430, 499, 500, 501, 502, 503, 504, 505,
               599, 600}
=============================================================================
