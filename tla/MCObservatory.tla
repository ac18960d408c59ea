--------------------------- MODULE MCObservatory ---------------------------
(***************************************************************************)
(* A small instance of Observatory for TLC: two cost axes and four kinds   *)
(* of cycle.  They mix the costs, the grades and the pace: a calm one, a   *)
(* costly one within the same second, a slow one over both budgets with    *)
(* critical drift, a drifting one, and one without a cosine.               *)
(***************************************************************************)
EXTENDS Observatory

W(over, grade, days, lapse) == [over |-> over, grade |-> grade, days |-> days, lapse |-> lapse]

MCWeather == {W({}, "aligned", 1, TRUE),
              W({"compute"}, "low", 0, FALSE),
              W({"compute", "storage"}, "critical", 1, TRUE),
              W({"storage"}, "none", 1, FALSE)}
=============================================================================
