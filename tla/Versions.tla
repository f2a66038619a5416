------------------------------ MODULE Versions ------------------------------
(***************************************************************************)
(* core/versions.py: what it means that a version continues another one.   *)
(* A version is the components before the first other character and the    *)
(* build behind them: 24.1 is <<24, 1>>, 8u502 is <<8>> with build 502.    *)
(* A name that has no version has no components.                           *)
(***************************************************************************)
EXTENDS Naturals, Sequences, SequencesExt

CONSTANT None

Versions == [ver : Seq(Nat), build : Nat]

LineVersion(line) == [ver |-> line, build |-> 0]

(* The detailed version equals the base or continues it after a boundary.  *)
ExtendsVersion(base, detailed) ==
  IF base.build = 0 THEN IsPrefix(base.ver, detailed.ver)
  ELSE base.ver = detailed.ver /\ base.build = detailed.build

(* At most the first two components of a version.                          *)
MajorMinor(version) ==
  IF version = None \/ version.ver = <<>> THEN None
  ELSE SubSeq(version.ver, 1, IF Len(version.ver) = 1 THEN 1 ELSE 2)
=============================================================================
