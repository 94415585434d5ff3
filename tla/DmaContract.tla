---------------------------- MODULE DmaContract -----------------------------
(***************************************************************************)
(* What the DMA controller promises the program that drives it, with each  *)
(* transfer seen as a start and a completion.                              *)
(*                                                                         *)
(*   - A channel starts only by a register write that leaves it enabled,   *)
(*     and only while DPCR enables some channel.                           *)
(*   - A block transfer fills exactly the words it was asked for: the OTC  *)
(*     channel with a table whose entries each point to the word below,    *)
(*     the last being the marker.  A list transfer leaves RAM as it is.    *)
(*   - Completion clears the channel's enable bit, raises its flag if the  *)
(*     mask selects it, and does nothing else.                             *)
(*   - A block transfer completes; a list transfer does if its list ends.  *)
(*   - The interrupt line is always the one the other fields of DICR give. *)
(***************************************************************************)
EXTENDS Integers, FiniteSets

CONSTANTS Cells, MaxPacket, Channel, Fresh

VARIABLES
  ram,
  dpcr,
  settings,  \* DICR's force, master and mask fields
  flags,     \* DICR's flags
  irq,       \* DICR's bit 31
  channels,
  busy,      \* the channel of the transfer being run, NoChannel if none is
  running

vars == << ram, dpcr, settings, flags, irq, channels, busy, running >>

NoChannel == -1
GPU == 2
OTC == 6

Cell    == 0 .. Cells - 1
Entry   == [words : 0 .. MaxPacket, last : BOOLEAN, next : Cell]
Wrap(n) == n % Cells

Line(set, up) == set.force \/ (set.master /\ set.mask \cap up # {})

Init ==
  /\ ram = [a \in Cell |-> Fresh]
  /\ dpcr = {} /\ flags = {} /\ irq = FALSE
  /\ settings = [force |-> FALSE, master |-> FALSE, mask |-> {}]
  /\ \A c \in Channel : ~channels[c].chcr.enabled
  /\ busy = NoChannel /\ running = TRUE

-----------------------------------------------------------------------------
(* RAM after n words of channel c, from word base downwards.  If the       *)
(* words go round RAM more than once the last round is what remains.       *)
Below(base, a) == Wrap(base - a)

Filled(c, base, n) ==
  LET value(a) == IF c # OTC THEN [words |-> 0, last |-> FALSE, next |-> 0]
                  ELSE IF a = Wrap(base - (n - 1))
                       THEN [words |-> 0, last |-> TRUE, next |-> Cells - 1]
                       ELSE [words |-> 0, last |-> FALSE, next |-> Wrap(a - 1)]
  IN  [a \in Cell |-> IF Below(base, a) < n THEN value(a) ELSE ram[a]]

IsList(r) == r.syncmode = 2
Size(r)   == IF r.syncmode = 0 THEN r.size ELSE r.size * r.amount

(* The list at base ends: every set of words that holds base and, with an  *)
(* entry, the entry it points to, holds a last entry.                      *)
Ends(base) ==
  \A S \in SUBSET Cell :
    base \in S /\ (\A a \in S : ram[a].last \/ ram[a].next \in S) => \E a \in S : ram[a].last

-----------------------------------------------------------------------------
Steady == UNCHANGED << dpcr, settings, flags, irq, running >>

Configure ==
  /\ busy = NoChannel /\ busy' = NoChannel
  /\ flags' \subseteq flags /\ irq' = Line(settings', flags')
  /\ UNCHANGED << ram, running >>

Store ==
  /\ busy = NoChannel
  /\ ram' \in [Cell -> Entry]
  /\ \E a \in Cell : \A b \in Cell \ {a, Wrap(a + 1)} : ram'[b] = ram[b]
  /\ UNCHANGED << channels, busy >> /\ Steady

Start(c) ==
  /\ busy = NoChannel /\ dpcr # {}
  /\ busy' = c
  /\ \A other \in Channel \ {c} : channels'[other] = channels[other]
  /\ LET r == channels'[c] IN
     /\ r.chcr.enabled
     /\ r.base = channels[c].base /\ r.size = channels[c].size /\ r.amount = channels[c].amount
     /\ IF IsList(r) THEN c = GPU /\ r.from_ram ELSE r.syncmode = 0 => r.chcr.trigger
     /\ ram' = IF IsList(r) \/ r.from_ram THEN ram ELSE Filled(c, r.base, Size(r))
  /\ Steady

Finite == IsList(channels[busy]) => Ends(channels[busy].base)

Released(r) == [r EXCEPT !.chcr = [@ EXCEPT !.enabled = FALSE]]

Complete ==
  /\ busy # NoChannel
  /\ Finite
  /\ busy' = NoChannel
  /\ channels' = [channels EXCEPT ![busy] = Released(@)]
  /\ flags' = flags \cup ({busy} \cap settings.mask)
  /\ irq' = Line(settings', flags')
  /\ UNCHANGED << ram, dpcr, settings, running >>

Halt ==
  /\ running' = FALSE
  /\ UNCHANGED << ram, dpcr, settings, flags, irq, channels, busy >>

Next == running /\ (Configure \/ Store \/ (\E c \in Channel : Start(c)) \/ Complete \/ Halt)

(* A transfer that can complete does.  Until it has, nothing else changes, *)
(* so that this is the weak fairness of Complete.                          *)
Completes ==
  (running /\ busy # NoChannel /\ Finite) ~> (busy = NoChannel \/ ~running)

Safety == Init /\ [][Next]_vars
Spec   == Safety /\ Completes
=============================================================================
