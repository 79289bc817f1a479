------------------------- MODULE MCMicrodriveDriver -------------------------
(***************************************************************************)
(* Two drives and two writable cartridges, a whole one and one with a      *)
(* splice and a sector outside its physical path, with a record of four    *)
(* bytes: the block header, the preamble that is skipped, two more.        *)
(***************************************************************************)
EXTENDS MicrodriveDriver

MCCartridges == { NewImage(2, 1, FALSE), NewImage(3, NoSplice, FALSE) }

MCControlValues == {0, 1, 2, 3, 10, 14}
=============================================================================
