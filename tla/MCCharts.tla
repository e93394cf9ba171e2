------------------------------ MODULE MCCharts ------------------------------
(* A stretch driven up to six times in two hours and two weeks, another at  *)
(* most twice, in a zone whose clocks may go back between the fourth drive  *)
(* and the fifth.                                                           *)
EXTENDS Charts

MCDrives == ({1} \X (1 .. 6)) \cup ({2} \X {2, 5})
MCHourOf == <<7, 7, 7, 8, 8, 8>>
MCWeekOf == <<43, 43, 43, 43, 44, 44>>
MCWalls == {<<10, 20, 30, 40, 50, 60>>, <<10, 20, 30, 40, 35, 60>>}
=============================================================================
