------------------------------- MODULE MCDma --------------------------------
(***************************************************************************)
(* A driver that does what the BIOS and a game do: enable channels in      *)
(* DPCR, set up DICR, start a block transfer on some channel, store an     *)
(* entry into RAM, send the list to the GPU, acknowledge, and at last      *)
(* touch a register that is not there.  It may leave any of it out.        *)
(*                                                                         *)
(* RAM has four words, so that a table of nine goes round it twice.        *)
(***************************************************************************)
EXTENDS Dma

VARIABLES stage, target   \* how far the driver is; the channel it sets up

mcvars == << vars, stage, target >>

FreshEntry == [words |-> 2, last |-> TRUE, next |-> 2]
Enables    == { {}, {OTC} }
Acks       == { [force |-> FALSE, master |-> TRUE, mask |-> {GPU, OTC}, ack |-> {GPU, OTC}],
                [force |-> TRUE, master |-> FALSE, mask |-> {OTC}, ack |-> {}] }
Control(from, mode, trigger) ==
  [from_ram |-> from, mode |-> mode, enabled |-> TRUE, trigger |-> trigger]
Controls   == { Control(FALSE, 0, TRUE), Control(FALSE, 0, FALSE), Control(FALSE, 1, FALSE),
                Control(TRUE, 1, TRUE), Control(TRUE, 2, FALSE), Control(FALSE, 2, FALSE),
                Control(TRUE, 3, TRUE) }
Packets    == { [words |-> 2, last |-> FALSE, next |-> 1], [words |-> 0, last |-> FALSE, next |-> 3] }

Drive(s) ==
  CASE s = 0 -> \E enabled \in EnableWrites : write_dpcr(enabled)
    [] s = 1 -> \E val \in DicrWrites : write_dicr(val)
    [] s = 2 -> \E base \in BaseWrites : write_madr(target, base)
    [] s = 3 -> \E size, amount \in CountWrites : write_bcr(target, size, amount)
    [] s = 4 -> \E val \in ChcrWrites : write_chcr(target, val) \/ write_chcr_refused(target, val)
    [] s = 5 -> \E a \in Cell, w \in Packets : ram' = [ram EXCEPT ![a] = w] /\ cpu_store(a)
    [] s = 6 -> \E base \in BaseWrites : write_madr(GPU, base)
    [] s = 7 -> \E c \in Channel, val \in ChcrWrites : write_chcr(c, val)
    [] s = 8 -> \E val \in DicrWrites : write_dicr(val)
    [] s = 9 -> invalid_offset

MCInit == Init /\ stage = 0 /\ target \in Channel

MCNext ==
  \/ /\ running /\ transfer.phase = "none" /\ stage < 10
     /\ Drive(stage) \/ (stage < 9 /\ UNCHANGED vars)
     /\ stage' = stage + 1 /\ UNCHANGED target
  \/ (Transferring \/ Ended) /\ UNCHANGED << stage, target >>

Progress == Transferring /\ UNCHANGED << stage, target >>
MCSpec == MCInit /\ [][MCNext]_mcvars /\ WF_mcvars(Progress)

(* "Bit 3 must be set for a channel to operate": a channel that DPCR does  *)
(* not enable stays idle.                                                  *)
OnlyEnabledChannels ==
  transfer.phase # "none" => transfer.channel \in dpcr
=============================================================================
