--------------------------- MODULE MCSaveClickhouse ----------------------------
(* Instances of SaveClickhouse for TLC.                                    *)
EXTENDS SaveClickhouse
===============================================================================
