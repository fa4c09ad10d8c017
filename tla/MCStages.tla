------------------------------ MODULE MCStages ------------------------------
(***************************************************************************)
(* Instances of Stages: the configuration files of the source tree, files  *)
(* with two stages, and files that lack a value or name no stage.          *)
(***************************************************************************)
EXTENDS Stages

Comments ==
  <<<<"#", "stage", " ", "1", " ", "#", "this is the number of the stage">>,
    <<"#", "num_routers", " ", "1">>, <<>> >>
Line(w, v) == <<w, " ", ToString(v), "#", "sssss">>

Short(s, n) == Comments \o <<Line("stage", s), Line("num_routers", n)>>
Full(s, n) == Short(s, n) \o <<Line("drop_after", 10)>>

SomeFiles ==
  {Short(1, 1), Short(3, 1), Full(4, 1), Full(6, 2), Full(9, 3), Full(10, 2),
   Short(1, 1) \o Full(6, 2), Full(4, 1) \o Full(7, 2), Full(6, 2) \o Full(10, 2),
   Short(3, 1) \o Short(2, 1),
   Short(6, 2), Full(6, 1), <<Line("stage", 11)>> \o Short(1, 1)}
=============================================================================
