----------------------------- MODULE XbmdDriver -----------------------------
(***************************************************************************)
(* The Linux driver (linux_sw/xbmd/xbmd.c) as a kernel module: what        *)
(* XPCIe_init acquires, in which order, what it keeps when it fails, and   *)
(* what XPCIe_exit gives back.  Interrupts and, once the character device  *)
(* is registered, calls of the application come between any two steps.     *)
(* XbmdApp composes it with the application and the device.                *)
(* A definition with a suffix is the next one with a plausible bug.        *)
(***************************************************************************)
EXTENDS Naturals, Sequences

CONSTANT MayFail   (* the resources the kernel may refuse                  *)

Resources == {"registers", "region", "irq", "device", "readbuf", "writebuf", "chrdev"}
ASSUME MayFailAssumption == MayFail \subseteq Resources

VARIABLES
  phase,     (* of the module: absent, in init, up or in exit              *)
  at,        (* the next step of init or exit                              *)
  held,      (* what this load of the module has and has not given back    *)
  left,      (* what earlier loads that failed have left behind            *)
  gStatFlags (* HAVE_REGION, HAVE_IRQ, HAVE_KREG                           *)

driverVars == <<phase, at, held, left, gStatFlags>>

InitOrder_RegionLast ==
  <<"registers", "irq", "device", "readbuf", "writebuf", "region", "chrdev">>
InitOrder_ChrdevEarly ==
  <<"registers", "region", "irq", "device", "chrdev", "readbuf", "writebuf">>
InitOrder ==
  <<"registers", "region", "irq", "device", "readbuf", "writebuf", "chrdev">>

(* The buffers are freed by kfree and again by pci_free_consistent: what   *)
(* the second release does to the kernel's heap is not modelled.  The      *)
(* device is not disabled again.                                           *)
ExitOrder ==
  <<"region", "irq", "readbuf", "writebuf", "readbuf", "writebuf", "registers", "chrdev">>

FlagOf(r) == {r} \cap {"region", "irq", "chrdev"}

DriverTypeOK ==
  /\ phase \in {"absent", "init", "up", "exit"}
  /\ at \in 1..9 /\ held \subseteq Resources /\ left \subseteq Resources
  /\ gStatFlags \subseteq {"region", "irq", "chrdev"}

DriverInit ==
  phase = "absent" /\ at = 1 /\ held = {} /\ left = {} /\ gStatFlags = {}
-----------------------------------------------------------------------------
(* insmod: the module's variables are fresh.                               *)
Insmod ==
  /\ phase = "absent" /\ phase' = "init" /\ at' = 1
  /\ held' = {} /\ gStatFlags' = {}
  /\ UNCHANGED left

(* The next resource of init.  check_mem_region refuses a region that a    *)
(* failed load has left; a shared interrupt and new buffers are granted.   *)
Acquire ==
  /\ phase = "init" /\ at \in 1..Len(InitOrder)
  /\ LET r == InitOrder[at] IN
     /\ r \in {"region", "chrdev"} => r \notin left
     /\ held' = held \cup {r}
     /\ gStatFlags' = gStatFlags \cup FlagOf(r)
  /\ at' = at + 1
  /\ UNCHANGED <<phase, left>>

(* An early return of CRIT_ERR: insmod unloads the module, and nothing of  *)
(* what it has is given back.                                              *)
InitFails ==
  /\ phase = "init" /\ at \in 1..Len(InitOrder)
  /\ InitOrder[at] \in MayFail \cup (left \cap {"region", "chrdev"})
  /\ phase' = "absent" /\ at' = 1
  /\ left' = left \cup held /\ held' = {} /\ gStatFlags' = {}

(* The last step of init programs the card, see XbmdApp.                   *)
InitDone ==
  /\ phase = "init" /\ at = Len(InitOrder) + 1
  /\ phase' = "up"
  /\ UNCHANGED <<at, held, left, gStatFlags>>

Rmmod ==
  /\ phase = "up" /\ phase' = "exit" /\ at' = 1
  /\ UNCHANGED <<held, left, gStatFlags>>

(* The region, the interrupt and the character device go by their flags,   *)
(* the rest by its pointer.                                                *)
Release ==
  /\ phase = "exit" /\ at \in 1..Len(ExitOrder)
  /\ LET r == ExitOrder[at] IN
     held' = IF FlagOf(r) \subseteq gStatFlags THEN held \ {r} ELSE held
  /\ at' = at + 1
  /\ UNCHANGED <<phase, left, gStatFlags>>

ExitDone ==
  /\ phase = "exit" /\ at = Len(ExitOrder) + 1
  /\ phase' = "absent" /\ at' = 1 /\ gStatFlags' = {}
  /\ UNCHANGED <<held, left>>

DriverNext ==
  \/ Insmod \/ Acquire \/ InitFails \/ InitDone
  \/ Rmmod \/ Release \/ ExitDone
DriverSpec == DriverInit /\ [][DriverNext]_driverVars
-----------------------------------------------------------------------------
(* XPCIe_IRQHandler reads the registers: while the interrupt is requested, *)
(* in the middle of init and exit too, they are mapped.                    *)
HandlerIsMapped == "irq" \in held => "registers" \in held

(* A load that succeeds has everything, and no failed load before it has   *)
(* left an interrupt handler, a buffer or a character device of a module   *)
(* that is gone: the region it left keeps later loads out.                 *)
LoadedOwnsAll ==
  phase = "up" => held = Resources /\ left \subseteq {"registers"}

(* After an unload only the device is still enabled.                       *)
UnloadReleasesAll == phase = "absent" => held \subseteq {"device"}

(* What the kernel holds for the module, at every step of a load, of a     *)
(* failed load, and of an unload.                                          *)
DriverInv == DriverTypeOK /\ HandlerIsMapped /\ LoadedOwnsAll /\ UnloadReleasesAll
=============================================================================
