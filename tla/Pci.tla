-------------------------------- MODULE Pci --------------------------------
(***************************************************************************)
(* drivers/pci.c: the two scans of the configuration space, over the       *)
(* numbers of the slots (256 buses of 32 slots) and their functions.       *)
(*                                                                         *)
(* A slot is a record: multi, bit 7 of its header type; functions, what    *)
(* each of its functions is, or NoDevice.  A device with a single function *)
(* may answer for every function number.                                   *)
(***************************************************************************)
EXTENDS Integers, SequencesExt

CONSTANTS
  FUNCTIONS,  (* of a slot (8)                                              *)
  NoDevice    (* what reads as 0xFFFF                                       *)

ASSUME PciAssumption == FUNCTIONS \in Nat \ {0}

Function == 0 .. FUNCTIONS - 1

(* Reading the vendor and device, and bit 7 of the header type of function  *)
(* 0: where nothing answers, every bit is set.                              *)
Answer(slot, f) == IF slot.multi THEN slot.functions[f] ELSE slot.functions[0]
MultiFunction(slot) == slot.multi \/ slot.functions[0] = NoDevice

(* The functions the listing reads: the others are skipped if there is a    *)
(* function 0 and it says that it is the only one.                          *)
Listed(slot) ==
  IF Answer(slot, 0) # NoDevice /\ ~MultiFunction(slot) THEN {0} ELSE Function

(* (A slot without function 0 is taken to be empty.) *)
SearchedIfPresent(slot) ==
  IF Answer(slot, 0) # NoDevice /\ MultiFunction(slot) THEN Function ELSE {0}

(* The search looks at the header type also where there is no function 0.   *)
Searched(slot) == IF MultiFunction(slot) THEN Function ELSE {0}

(* The places, and the order of the loops over them.                        *)
Places(slots) == [slot : DOMAIN slots, function : Function]

Place(slots) ==
  [k \in 1 .. FUNCTIONS * Len(slots) |->
     [slot |-> ((k - 1) \div FUNCTIONS) + 1, function |-> (k - 1) % FUNCTIONS]]

At(slots, p) == Answer(slots[p.slot], p.function)

(* What the loops have met of some places, and the first of them they meet. *)
InOrder(slots, places) ==
  LET met[k \in 0 .. Len(Place(slots))] ==
        IF k = 0 THEN <<>>
        ELSE IF Place(slots)[k] \in places THEN Append(met[k - 1], Place(slots)[k])
        ELSE met[k - 1]
  IN  met[Len(Place(slots))]

First(slots, places) ==
  LET met == {k \in DOMAIN Place(slots) : Place(slots)[k] \in places}
  IN  {Place(slots)[k] : k \in {j \in met : \A h \in met : j <= h}}

pci_enumerate(slots) ==
  InOrder(slots, {p \in Places(slots) : /\ p.function \in Listed(slots[p.slot])
                                        /\ At(slots, p) # NoDevice})

(* The first place that answers with the device, if there is one.           *)
pci_find_device(slots, device) ==
  First(slots, {p \in Places(slots) : /\ p.function \in Searched(slots[p.slot])
                                      /\ At(slots, p) = device})

-----------------------------------------------------------------------------
(* The places where something really is.                                    *)
Real(slots) ==
  {p \in Places(slots) :
     LET s == slots[p.slot]
     IN  s.functions[p.function] # NoDevice /\ (s.multi \/ p.function = 0)}
=============================================================================
