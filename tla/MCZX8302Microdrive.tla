------------------------ MODULE MCZX8302Microdrive ------------------------
(***************************************************************************)
(* A small controller for TLC: two drives, three sectors of seven bytes    *)
(* and gaps of two polls, with the cartridges the user interface mounts:   *)
(* an imported image, protected and without a splice, and a virgin one,    *)
(* writable, with a splice and one sector outside its physical path.       *)
(***************************************************************************)
EXTENDS ZX8302Microdrive

MCCartridges == { NewImage(3, NoSplice, TRUE), NewImage(2, 1, FALSE) }

MCControlValues == {0, 1, 2, 3, 10, 14}
===========================================================================
