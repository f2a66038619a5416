----------------------------- MODULE MCCollect ------------------------------
(* Small instances of Collect for TLC. *)
EXTENDS Collect

CONSTANTS alias, deb, alp,   \* tags: without a distribution, -debian, -alpine
          d1, a1,            \* a Debian and an Alpine image
          debian, alpine

MCNameDistro == [t \in Tags |-> IF t = deb THEN debian
                                ELSE IF t = alp THEN alpine ELSE None]
MCTrueDistro == [i \in Images |-> IF i = a1 THEN alpine ELSE debian]

(* The alias points to the Debian image at first.                          *)
MCInitialHub == << [tag |-> alias, img |-> d1], [tag |-> deb, img |-> d1],
                   [tag |-> alp, img |-> a1] >>
(* Two tags only, the second behind the Hub's offset limit. *)
MCSmallHub == << [tag |-> alias, img |-> d1], [tag |-> deb, img |-> d1] >>
MCTwoRuns == 1..2

(* The first run stops after one page, the second has no page limit.       *)
MCFirstLimited == [r \in Runs |-> IF r = 1 THEN 1 ELSE None]
MCUnlimited    == [r \in Runs |-> None]
=============================================================================
