------------------------------- MODULE MCBus --------------------------------
(***************************************************************************)
(* The bus at its real addresses and widths, with 16 bytes of RAM and four *)
(* of BIOS.  After the boot, with the right BIOS file, a truncated one or  *)
(* none, the driver follows one of three plans: it programs a channel with *)
(* 16- and 32-bit writes, then stores a list entry, sends the list and     *)
(* reads the registers; it stores twice into RAM with any width and        *)
(* alignment and reads; or it makes one access of any width at the edges   *)
(* of any region.  Then a write to the CDROM ends the process.             *)
(***************************************************************************)
EXTENDS BusHistory, BusDma

VARIABLES plan, stage, target

mcvars == << history_vars, plan, stage, target >>

NoMemory == {-1}
NoAnswer == {-2}

FullFile  == [a \in 0 .. 3 |-> {a, 7}]
ShortFile == [a \in 0 .. 2 |-> {a}]
SomeFiles == { FullFile, ShortFile, Null }
RamFill   == {1}   \* 0xba is a list entry of 186 words
Stray     == { {2, 10, 18, 26} }
SlotOf(c) == c

Enables  == { {27}, {3, 16} }
Dicrs    == { {15, 18}, {18, 22, 23, 26, 30} }
Madrs    == { {3}, {0, 2} }
Bcrs     == { {0, 16, 17}, {0, 1, 16} }   \* three blocks of a word, a block of three
Chcrs    == { {24, 28}, {24, 9}, {0, 9, 24}, {0, 10, 24}, {0, 9, 10, 24}, {24} }
Packets  == { {23, 24}, {25, 2} }
DriverData == UNION { Enables, Dicrs, Madrs, Bcrs, Chcrs, Packets,
                      { {2}, {0}, {0, 9, 18, 31}, {7, 8, 23, 24} } }

-----------------------------------------------------------------------------
Regions == { BiosBase + k : k \in -1 .. 5 } \cup { Expansion1 + k : k \in -1 .. 5 }
             \cup { IoBase + k : k \in {-1, 0, 8, 12} \cup \h1f .. \h21 }
             \cup { IoBase + k : k \in {\h5f, \h60, \h61} \cup \h6f .. \h75 }
             \cup { Register0(c) + k : c \in Channel, k \in 0 .. 8 } \cup { IoBase + k : k \in \he9 .. \hea \cup \hef .. \h100 }
             \cup { IoBase + k + 4 * j : k \in {\h100, \h110, \h120}, j \in 0 .. 3 }
             \cup { IoBase + k : k \in {\h7ff, \h800, \h801, \h810, \h814, \hbff, \hc00, \hd7f, \hd80,
                                        \hd94, \hdbc, \hdbd, \he80, \he81, \hfff, \h1000, \h1042, \h1043} }
             \cup (11 .. 17) \cup {CacheCtrl, Space - 2}

Programming ==
  CASE stage = 1 -> \E w \in Enables : Drive(IoBase + \hf0, 4, w)
    [] stage = 2 -> \E w \in Dicrs : Drive(IoBase + \hf4, 4, w)
    [] stage = 3 -> \E w \in Madrs : Drive(Register0(target), 4, w)
    [] stage = 4 -> \/ \E w \in Bcrs : Drive(Register0(target) + 4, 4, w)
                    \/ Drive(Register0(target) + 4, 2, {0, 1, 16})
    [] stage = 5 -> \/ \E w \in Chcrs : Drive(Register0(target) + 8, 4, w)
                    \/ Drive(Register0(target) + 8, 2, {0, 9, 24})
    [] stage = 6 -> \E a \in {4, 12}, w \in Packets : Drive(a, 4, w)
    [] stage = 7 -> Drive(Register0(GPU), 4, {2})
    [] stage = 8 -> Drive(Register0(GPU) + 8, 4, {0, 10, 24})
    [] stage = 9 -> \E a \in Programmable \cup {0, 4} : Sense(a, 4)

Storing ==
  CASE stage = 1 -> \E a \in {4, 5, 6}, n \in {1, 2, 4} : Drive(a, n, {0, 9, 18, 31})
    [] stage = 2 -> \E a \in {4, 5, 6}, n \in {1, 2, 4} : Drive(a, n, {7, 8, 23, 24})
    [] stage = 3 -> \E a \in {4, 5, 6, 9}, n \in {1, 2, 4} : Sense(a, n)

Probing ==
  /\ stage = 1
  /\ \E a \in Regions, n \in {1, 2, 4} :
       Sense(a, n) \/ Drive(a, n, {0})

Step == (plan = "dma" /\ Programming) \/ (plan = "ram" /\ Storing) \/ (plan = "edges" /\ Probing)

Length == CASE plan = "dma" -> 9 [] plan = "ram" -> 3 [] plan = "edges" -> 1

MCInit ==
  /\ HistoryInit /\ plan \in {"dma", "ram", "edges"} /\ stage = 0
  /\ target \in IF plan = "dma" THEN {GPU, OTC} ELSE {GPU}

MCBoot == Start /\ stage' = 1 /\ UNCHANGED << plan, target >>

MCAccess ==
  /\ Ready /\ stage \in 1 .. Length /\ Step
  /\ stage' = stage + 1 /\ UNCHANGED << plan, target >>

Finish ==
  /\ Ready /\ stage > Length /\ Drive(IoBase + \h800, 1, {})
  /\ UNCHANGED << plan, stage, target >>

MCTransfer == Carry /\ UNCHANGED << plan, stage, target >>

MCEnded == Ended /\ UNCHANGED mcvars

MCNext == MCBoot \/ MCAccess \/ Finish \/ MCTransfer \/ MCEnded
MCSpec == MCInit /\ [][MCNext]_mcvars /\ WF_mcvars(MCTransfer)

=============================================================================
