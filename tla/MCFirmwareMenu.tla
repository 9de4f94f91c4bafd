---------------------------- MODULE MCFirmwareMenu ----------------------------
(***************************************************************************)
(* FirmwareMenu for TLC: two file names, a and b.                          *)
(***************************************************************************)
EXTENDS FirmwareMenu, TLC

\* 1 is <program>/a, 2 <program>/b, 3 <program>/sub/a, 4 <elsewhere>/b
MCPlace(p) == [i \in 1 .. 4 |-> IF i <= 2 THEN "root"
                                ELSE IF i = 3 THEN "below" ELSE "away"][p]
MCServed(p) == <<1, 2, 1, 2>>[p]
=============================================================================
