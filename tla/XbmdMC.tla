------------------------------- MODULE XbmdMC -------------------------------
(***************************************************************************)
(* Boards for the Linux application: the one fpga/BMD builds, one with the *)
(* other write pattern register and a link narrower than it could be, one  *)
(* whose link is slower than it could be, one with a capability the        *)
(* program does not know before the PCI Express one, and one with it       *)
(* behind.  A x16 link fails every run as a fatal error does.              *)
(***************************************************************************)
EXTENDS XbmdApp

Board(pat, caps, width, capwidth, speed, capspeed) ==
  [pattern |-> pat, caps |-> caps, width |-> width, capwidth |-> capwidth,
   speed |-> speed, capspeed |-> capspeed]

AllBoards ==
  {Board("own", <<"PM", "MSI", "PCIE">>, 8, 8, 1, 1),
   Board("any", <<"PM", "MSI", "PCIE">>, 4, 8, 2, 2),
   Board("own", <<"PM", "MSI", "PCIE">>, 8, 8, 1, 2),
   Board("own", <<"PM", "OTHER", "PCIE">>, 8, 8, 1, 1),
   Board("any", <<"PCIE", "OTHER">>, 4, 8, 2, 2)}
=============================================================================
