------------------------------ MODULE MCNineP -------------------------------
(***************************************************************************)
(* NineP for TLC with a file that is missing at the end of a path of three *)
(* names, which takes two Twalks as MAXWELEM = 2: the first binds the new  *)
(* fid, the second fails.                                                  *)
(***************************************************************************)
EXTENDS NineP, TLC

MCFixed == (<<"a">> :> "d") @@ (<<"a", "b">> :> "d")
MCLoose == {}
MCAsks == {<<"open", <<"a", "b", "c">>>>, <<"open", <<"a", "c">>>>}
=============================================================================
