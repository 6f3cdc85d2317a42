--------------------------- MODULE AddressSpaces ---------------------------
(***************************************************************************)
(* What the page tables of NeptuneOS promise: one translation of virtual   *)
(* pages per address space.  Space 0 is the kernel's own.  The upper half  *)
(* is the same in every space, whenever it was mapped; a page of the lower *)
(* half belongs to one space, but for a page of zeroes that programs share *)
(* until they write it, and no other changes the frame it names.           *)
(***************************************************************************)
EXTENDS Integers

CONSTANTS
  Virt,      \* virtual pages
  Half,      \* the first page of the upper half
  Identity,  \* the pages boot.s maps one to one
  Direct     \* the pages of the direct map, to the frames they name

Kernel == 0

VARIABLES
  tr,   \* space, virtual page -> [to, fl], or Unmapped
  zero  \* the frame of zeroes, 0 before there is one

Unmapped == [to |-> -1, fl |-> {}]
Upper == {v \in Virt : v >= Half}
Lower == Virt \ Upper

\* The frames of programs' own pages.
Owned == {tr[s][v].to : s \in DOMAIN tr \ {Kernel}, v \in Lower}

\* Every space translates every page.
Total(t) ==
  /\ t = [s \in DOMAIN t |-> t[s]]
  /\ \A s \in DOMAIN t : t[s] = [v \in Virt |-> t[s][v]]

\* boot.s: only the kernel's space, without a page programs may use.
SpacesInit ==
  /\ DOMAIN tr = {Kernel} /\ Total(tr) /\ zero = 0
  /\ \A v \in Virt : "U" \notin tr[Kernel][v].fl
  /\ \A v \in Identity : tr[Kernel][v].to = v

\* The direct map appears, writable and not executable.
MapDirect ==
  /\ DOMAIN tr = {Kernel}
  /\ tr' = [tr EXCEPT ![Kernel] =
              [v \in Virt |-> IF v \in DOMAIN Direct
                                THEN [to |-> Direct[v], fl |-> {"W", "NX"}]
                                ELSE tr[Kernel][v]]]

\* Permissions of the kernel change, and no frame of its half.
Protect ==
  /\ DOMAIN tr = {Kernel} /\ DOMAIN tr' = {Kernel} /\ Total(tr')
  /\ \A v \in Upper : tr'[Kernel][v].to = tr[Kernel][v].to
  /\ \A v \in Virt : "U" \notin tr'[Kernel][v].fl

\* One page of the kernel's half, for every space at once.
MapKernel ==
  \E v \in Upper :
    /\ tr'[Kernel][v] # tr[Kernel][v]
    /\ tr[Kernel][v].to \in {tr'[Kernel][v].to, Unmapped.to}
    /\ "U" \notin tr'[Kernel][v].fl
    /\ tr' = [s \in DOMAIN tr |-> [tr[s] EXCEPT ![v] = tr'[Kernel][v]]]

\* The kernel's own lower half goes away.
DropIdentity ==
  tr' = [tr EXCEPT ![Kernel] =
           [v \in Virt |-> IF v \in Identity \cap Lower
                             THEN Unmapped ELSE tr[Kernel][v]]]

\* A new space has the kernel's half and nothing else.
Create ==
  \E s \in DOMAIN tr' \ DOMAIN tr :
    tr' = [q \in DOMAIN tr \cup {s} |->
             IF q = s THEN [v \in Virt |-> IF v \in Upper THEN tr[Kernel][v]
                                                         ELSE Unmapped]
                      ELSE tr[q]]

\* One page of one program, on a frame no program has.
MapUser ==
  \E s \in DOMAIN tr \ {Kernel}, v \in Lower :
    /\ tr[s][v] = Unmapped /\ "U" \in tr'[s][v].fl
    /\ tr'[s][v].to \notin Owned \cup {zero}
    /\ tr' = [tr EXCEPT ![s][v] = tr'[s][v]]

\* The frame of zeroes is one no program has.
TakeZero == zero = 0 /\ zero' \notin Owned

\* One page of one program, on the frame of zeroes: it can be read only.
MapZero ==
  \E s \in DOMAIN tr \ {Kernel}, v \in Lower :
    /\ zero' # 0 /\ tr[s][v] = Unmapped /\ tr'[s][v].to = zero'
    /\ tr' = [tr EXCEPT ![s][v] = [to |-> zero', fl |-> {"U", "NX"}]]

\* A page of zeroes is written: the program gets a frame of its own for it.
CopyZero ==
  \E s \in DOMAIN tr \ {Kernel}, v \in Lower :
    /\ tr[s][v] = [to |-> zero, fl |-> {"U", "NX"}] /\ tr'[s][v] # tr[s][v]
    /\ tr'[s][v].to \notin Owned
    /\ tr' = [tr EXCEPT ![s][v] = [to |-> tr'[s][v].to, fl |-> {"U", "W", "NX"}]]

SpacesNext ==
  \/ /\ TakeZero \/ zero' = zero
     /\ MapZero \/ tr' = tr
  \/ /\ zero' = zero
     /\ MapDirect \/ Protect \/ MapKernel \/ DropIdentity \/ Create \/ MapUser \/ CopyZero

SpacesSpec == SpacesInit /\ [][SpacesNext]_<<tr, zero>>
=============================================================================
