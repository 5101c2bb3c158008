----------------------------- MODULE MCSchedule -----------------------------
(* Instances of Schedule for TLC. *)
EXTENDS Schedule

C(id, stratum, treatment) == [id |-> id, stratum |-> stratum, treatment |-> treatment]
Matrix == {C("1d", 1, "direct"), C("1c", 1, "codegen"), C("2d", 2, "direct"), C("2c", 2, "codegen"),
           C("3d", 3, "direct"), C("3c", 3, "codegen")}
MCConfigs ==
    LET whole == {c \in Matrix : c.stratum <= Strata}
    IN  {whole, whole \ {C("1d", 1, "direct")}, whole \cup {C("1e", 1, "direct")},
         (whole \ {C("2d", 2, "direct")}) \cup {C("1d", 2, "direct")},
         whole \ {C("1d", 1, "direct"), C("1c", 1, "codegen")}}

=============================================================================
