--------------------------- MODULE MCConsoleDriver ---------------------------
(* An instance of ConsoleDriver for TLC: the codes of                      *)
(* verify-tpm0-pcr-extend.sh and one of two digits.                        *)
EXTENDS ConsoleDriver

MCCodes == {<<0>>, <<1>>, <<7, 7>>}
=============================================================================
