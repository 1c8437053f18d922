----------------------------- MODULE MCDatabase -----------------------------
(***************************************************************************)
(* Small instances of Database for TLC.                                    *)
(***************************************************************************)
EXTENDS Database

CONSTANTS plain, quote, odd, null, notable

BothClasses == {"sqlite", "mysql"}
TwoKeys     == {1, 2}
ThreeTexts  == {plain, quote, odd}
OneQuoted   == {quote}
OneOdd      == {odd}
=============================================================================
